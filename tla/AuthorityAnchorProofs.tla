------------------------ MODULE AuthorityAnchorProofs ------------------------
(***************************************************************************)
(* What AuthorityAnchor promises, for any grants, scopes, backup copies    *)
(* and bounds: the anchor's invariant, the single use of fences and        *)
(* permits across restores, and what a regressed version may become.       *)
(*                                                                         *)
(* The invariant is AnchorInv with NoAuthorityTwice.  Neither half is       *)
(* inductive alone: a fence is fresh because every fence is anchored and a *)
(* usable row is not behind its mark, and a ticket is never a spent permit *)
(* because a fence is allocated once.                                      *)
(***************************************************************************)
EXTENDS AuthorityAnchor, TLAPS

-----------------------------------------------------------------------------
(* Rows and marks *)

\* A row, a mark and a permit carry a position: an epoch and a fence.
Position == {x \in UNION {Mark, GrantRow, Permit} : x.epoch \in Nat /\ x.fence \in Nat}

\* Marks, grant rows and permits are compared by their epoch and fence alone.
LEMMA Positions ==
  /\ \A x \in Mark : x \in Position
  /\ \A x \in GrantRow : x \in Position
  /\ \A x \in Permit : x \in Position
  BY DEF Position, Mark, GrantRow, NoRow, Permit

\* The comparison of (epoch, fence) pairs, the code's tuple comparison, is a strict
\* order in which two positions that are not behind each other are equal.
LEMMA BehindIsAnOrder ==
  ASSUME NEW a \in Position, NEW b \in Position, NEW c \in Position
  PROVE  /\ ~Behind(a, a)
         /\ Behind(a, b) => ~Behind(b, a)
         /\ Behind(a, b) /\ ~Behind(c, b) => Behind(a, c)
         /\ ~Behind(b, a) /\ Behind(b, c) => Behind(a, c)
         /\ ~Behind(a, b) /\ ~Behind(b, c) => ~Behind(a, c)
  BY DEF Behind, Position

\* Every row has a position, which is (0, 0) until the version is provisioned.
LEMMA RowShape ==
  ASSUME NEW row \in GrantRow
  PROVE  /\ row.epoch \in Nat /\ row.fence \in Nat
         /\ row.status = "ABSENT" => row.epoch = 0 /\ row.fence = 0
  BY DEF GrantRow, NoRow

\* Advancing the fence or the epoch of a provisioned row gives a grant row.
LEMMA AdvancedRow ==
  ASSUME NEW row \in GrantRow, row.status # "ABSENT"
  PROVE  /\ [row EXCEPT !.fence = @ + 1] \in GrantRow
         /\ [row EXCEPT !.fence = @ + 1].epoch = row.epoch
         /\ [row EXCEPT !.fence = @ + 1].fence = row.fence + 1
         /\ [row EXCEPT !.epoch = @ + 1] \in GrantRow
         /\ [row EXCEPT !.epoch = @ + 1].epoch = row.epoch + 1
         /\ [row EXCEPT !.epoch = @ + 1].fence = row.fence
         /\ [row EXCEPT !.epoch = @ + 1].status = row.status
  <1>1. row \in [status : {"ACTIVE", "PAUSED", "REVOKED"}, epoch : Nat, fence : Nat]
    BY DEF GrantRow, NoRow
  <1> QED
    BY <1>1 DEF GrantRow

\* anchor.record leaves the marks of other versions alone and this one at least at
\* the row it was told, never lower than before.
LEMMA RaisedMarks ==
  ASSUME NEW marks \in [Grants -> Mark], NEW g \in Grants, NEW row \in GrantRow
  PROVE  /\ Raised(marks, g, row) \in [Grants -> Mark]
         /\ \A h \in Grants : ~Behind(Raised(marks, g, row)[h], marks[h])
         /\ \A h \in Grants : h # g => Raised(marks, g, row)[h] = marks[h]
         /\ ~Behind(Raised(marks, g, row)[g], row)
         /\ Behind(marks[g], row) => Raised(marks, g, row)[g] = [epoch |-> row.epoch, fence |-> row.fence]
         /\ ~Behind(marks[g], row) => Raised(marks, g, row)[g] = marks[g]
  <1> DEFINE new == [epoch |-> row.epoch, fence |-> row.fence]
  <1>1. new \in Mark
    BY RowShape DEF Mark
  <1>2. \A h \in Grants : marks[h] \in Mark /\ ~Behind(marks[h], marks[h])
    BY Positions, BehindIsAnOrder
  <1>3. CASE Behind(marks[g], row)
    <2>1. Raised(marks, g, row) = [marks EXCEPT ![g] = new]
      BY <1>3 DEF Raised
    <2>2. ~Behind(new, marks[g]) /\ ~Behind(new, row)
      BY <1>1, <1>2, <1>3, RowShape DEF Behind, Mark
    <2> QED
      BY <1>1, <1>2, <1>3, <2>1, <2>2
  <1>4. CASE ~Behind(marks[g], row)
    BY <1>2, <1>4 DEF Raised
  <1> QED
    BY <1>3, <1>4

\* A mark that stays does not fall.
LEMMA MarksOwnPosition ==
  ASSUME NEW marks \in [Grants -> Mark]
  PROVE  \A h \in Grants : ~Behind(marks[h], marks[h])
  <1>1. \A h \in Grants : marks[h] \in Position
    BY Positions
  <1> QED
    BY <1>1, BehindIsAnOrder

\* Writing one grant row changes that row of the datastore only.
LEMMA RowWritten ==
  ASSUME db \in Database, NEW g \in Grants, NEW row \in GrantRow
  PROVE  /\ SetRow(g, row) \in Database
         /\ SetRow(g, row).grant[g] = row
         /\ \A h \in Grants : h # g => SetRow(g, row).grant[h] = db.grant[h]
         /\ SetRow(g, row).halted = db.halted
         /\ SetRow(g, row).recorded = db.recorded
         /\ SetRow(g, row).consumed = db.consumed
  BY DEF SetRow, Database

-----------------------------------------------------------------------------
(* The invariant *)

AuthorityInv == AnchorInv /\ NoAuthorityTwice

\* anchor.record never lowers a mark.
MarksRise == \A g \in Grants : ~Behind(mark'[g], mark[g])

\* The new store, its empty copies and the empty anchor satisfy the invariant.
LEMMA InvInit == Init => AuthorityInv
  <1> SUFFICES ASSUME Init
               PROVE  AuthorityInv
    OBVIOUS
  <1>1. NewDatabase \in Database
    BY DEF NewDatabase, Database, GrantRow
  <1>2. /\ NewDatabase.recorded = {}
        /\ \A g \in Grants : NewDatabase.grant[g].epoch = 0 /\ NewDatabase.grant[g].fence = 0
    BY DEF NewDatabase, NoRow
  <1>3. TypeOK
    BY <1>1 DEF Init, TypeOK, Mark
  <1>4. Allocating = {} /\ Consuming = {}
    BY DEF Init, Allocating, Consuming
  <1>5. CopiesAnchored
    <2>1. \A c \in Copies : backup[c] = NewDatabase
      BY DEF Init
    <2>2. \A g \in Grants : mark[g].epoch = 0 /\ mark[g].fence = 0
      BY DEF Init
    <2>3. ASSUME NEW c \in Copies, NEW g \in Grants
          PROVE  ~Behind(mark[g], backup[c].grant[g])
      <3>1. backup[c].grant[g].epoch = 0 /\ backup[c].grant[g].fence = 0
        BY <1>2, <2>1
      <3>2. mark[g].epoch = 0 /\ mark[g].fence = 0
        BY <2>2
      <3> QED
        BY <3>1, <3>2 DEF Behind
    <2> QED
      BY <2>3 DEF CopiesAnchored
  <1>6. Anchored(NewDatabase, {})
    BY <1>2, <1>4 DEF Anchored, UnmarkedHoldsNoPermit, UnknownConsumptionShows, Init
  <1> QED
    BY <1>3, <1>4, <1>5, <1>6
    DEF AuthorityInv, AnchorInv, NoAuthorityTwice, EventsAnchored, TicketsFresh, Init

\* A mark that only rises keeps what the invariant says of a datastore, as long as
\* no permit is newly consumed and no allocation is forgotten.
LEMMA AnchoredStays ==
  ASSUME TypeOK, NEW data \in Database, NEW held \in SUBSET Permit, NEW fewer \in SUBSET held,
         Anchored(data, held),
         mark' \in [Grants -> Mark],
         \A g \in Grants : ~Behind(mark'[g], mark[g]),
         minted \subseteq minted', (spent \cup Consuming)' \subseteq spent \cup Consuming
  PROVE  Anchored(data, fewer)'
  <1>1. \A p \in data.recorded \cup held :
          /\ p \in Permit /\ p.grant \in Grants
          /\ mark[p.grant] \in Position /\ mark'[p.grant] \in Position
          /\ data.grant[p.grant] \in Position
    BY Positions DEF TypeOK, Database, Permit
  <1>2. UnmarkedHoldsNoPermit(data, fewer)'
    BY <1>1, BehindIsAnOrder DEF Anchored, UnmarkedHoldsNoPermit
  <1>3. UnknownConsumptionShows(data)'
    BY <1>1, BehindIsAnOrder DEF Anchored, UnknownConsumptionShows
  <1> QED
    BY <1>2, <1>3 DEF Anchored

\* The transactions differ in what they write; the invariant needs the following of
\* each: marks rise; allocated fences are new, anchored and under the row's epoch;
\* the row is usable where a permit is consumed, and its mark then ahead of the old
\* row; and a row changes by a new epoch, or is anchored.
LEMMA BeginKeepsInv ==
  ASSUME AuthorityInv,
         NEW next \in Database, NEW mint \in SUBSET Permit, NEW use \in SUBSET Permit,
         Begin(next, mint, use),
         mark' \in [Grants -> Mark],
         \A g \in Grants : ~Behind(mark'[g], mark[g]),
         next.recorded = db.recorded, db.consumed \cup use \subseteq next.consumed,
         mint \cap minted = {},
         \A p \in mint : /\ ~Behind(mark'[p.grant], p)
                         /\ p.epoch = next.grant[p.grant].epoch
                         /\ ~Behind(mark'[p.grant], next.grant[p.grant]),
         use \subseteq db.recorded \ spent,
         \A p \in use : /\ ~Behind(db.grant[p.grant], mark[p.grant])
                        /\ Behind(db.grant[p.grant], mark'[p.grant]),
         \A g \in Grants : \/ next.grant[g] = db.grant[g]
                           \/ next.grant[g].epoch > db.grant[g].epoch
                           \/ /\ next.grant[g].epoch = db.grant[g].epoch
                              /\ ~Behind(mark'[g], next.grant[g])
                              /\ ~Behind(db.grant[g], mark[g])
  PROVE  AuthorityInv'
  <1>1. TypeOK /\ txn = NoTxn
    BY DEF AuthorityInv, AnchorInv, Begin
  <1>2. UNCHANGED <<db, tickets, backup, minted, spent, lost>>
    BY DEF Begin, history
  <1>3. txn' = [open |-> TRUE, db |-> next, mint |-> mint, use |-> use]
    BY DEF Begin
  <1>4. txn' \in Txn /\ txn' # NoTxn /\ txn'.db = next /\ txn'.mint = mint /\ txn'.use = use
    BY <1>3 DEF Txn, NoTxn
  <1>5. Allocating = {} /\ Consuming = {} /\ Allocating' = mint /\ Consuming' = use
    BY <1>1, <1>4 DEF Allocating, Consuming
  <1>6. TypeOK'
    BY <1>1, <1>2, <1>4 DEF TypeOK
  <1>7. \A p \in db.recorded \cup tickets \cup minted \cup mint \cup use : p \in Permit /\ p.grant \in Grants
    BY <1>1 DEF TypeOK, Database, Permit
  <1>8. \A g \in Grants : /\ mark[g] \in Position /\ mark'[g] \in Position
                          /\ db.grant[g] \in Position /\ next.grant[g] \in Position
                          /\ \A c \in Copies : backup[c].grant[g] \in Position
    BY <1>1, Positions DEF TypeOK, Database
  <1>9. EventsAnchored'
    BY <1>2, <1>5, <1>7, <1>8, Positions, BehindIsAnOrder DEF EventsAnchored, AuthorityInv, AnchorInv
  <1>10. CopiesAnchored'
    BY <1>2, <1>8, BehindIsAnOrder DEF CopiesAnchored, AuthorityInv, AnchorInv
  <1>11. Anchored(db, tickets) /\ TicketsFresh
    BY DEF AuthorityInv, AnchorInv
  <1>12. TicketsFresh'
    BY <1>2, <1>5, <1>11 DEF TicketsFresh, Anchored
  <1>13. Anchored(db, tickets)'
    <2>1. UnmarkedHoldsNoPermit(db, tickets)'
      BY <1>2, <1>7, <1>8, <1>11, BehindIsAnOrder DEF Anchored, UnmarkedHoldsNoPermit
    <2>2. UnknownConsumptionShows(db)'
      <3> SUFFICES ASSUME NEW p \in (db.recorded \ db.consumed) \cap (spent \cup use)
                   PROVE  \/ p.epoch < db.grant[p.grant].epoch
                          \/ Behind(db.grant[p.grant], mark'[p.grant])
        BY <1>2, <1>5 DEF UnknownConsumptionShows
      <3>1. CASE p \in use
        BY <3>1
      <3>2. CASE p \in spent
        BY <3>2, <1>5, <1>7, <1>8, <1>11, BehindIsAnOrder DEF Anchored, UnknownConsumptionShows
      <3> QED
        BY <3>1, <3>2
    <2> QED
      BY <1>2, <1>11, <2>1, <2>2 DEF Anchored
  <1>14. Anchored(next, tickets \cup mint)'
    <2>1. UnmarkedHoldsNoPermit(next, tickets \cup mint)'
      <3> SUFFICES ASSUME NEW p \in next.recorded \cup tickets \cup mint
                   PROVE  /\ p.epoch <= next.grant[p.grant].epoch
                          /\ p.epoch = next.grant[p.grant].epoch
                               => ~Behind(mark'[p.grant], next.grant[p.grant])
        BY <1>2 DEF UnmarkedHoldsNoPermit
      <3>1. p \in Permit /\ p.grant \in Grants /\ p.epoch \in Nat
        BY <1>7 DEF Permit
      <3>2. next.grant[p.grant].epoch \in Nat /\ db.grant[p.grant].epoch \in Nat
        BY <3>1, <1>1, RowShape DEF TypeOK, Database
      <3>3. CASE p \in mint
        BY <3>2, <3>3
      <3>4. CASE p \in db.recorded \cup tickets
        <4>1. /\ p.epoch <= db.grant[p.grant].epoch
              /\ p.epoch = db.grant[p.grant].epoch => ~Behind(mark[p.grant], db.grant[p.grant])
          BY <3>4, <1>11 DEF Anchored, UnmarkedHoldsNoPermit
        <4>2. CASE next.grant[p.grant] = db.grant[p.grant]
          BY <3>1, <4>1, <4>2, <1>8, BehindIsAnOrder
        <4>3. CASE next.grant[p.grant].epoch > db.grant[p.grant].epoch
          BY <3>1, <3>2, <4>1, <4>3
        <4> QED
          BY <3>1, <4>1, <4>2, <4>3
      <3> QED
        BY <3>3, <3>4
    <2>2. UnknownConsumptionShows(next)'
      <3> SUFFICES ASSUME NEW p \in (next.recorded \ next.consumed) \cap (spent \cup use)
                   PROVE  \/ p.epoch < next.grant[p.grant].epoch
                          \/ Behind(next.grant[p.grant], mark'[p.grant])
        BY <1>2, <1>5 DEF UnknownConsumptionShows
      <3>1. p \in (db.recorded \ db.consumed) \cap spent /\ p.grant \in Grants /\ p.epoch \in Nat
        BY <1>7 DEF Permit
      <3>2. next.grant[p.grant].epoch \in Nat /\ db.grant[p.grant].epoch \in Nat
        BY <3>1, <1>1, RowShape DEF TypeOK, Database
      <3>3. p.epoch < db.grant[p.grant].epoch \/ Behind(db.grant[p.grant], mark[p.grant])
        BY <3>1, <1>5, <1>11 DEF Anchored, UnknownConsumptionShows
      <3>4. p.epoch <= db.grant[p.grant].epoch
        BY <3>1, <1>11 DEF Anchored, UnmarkedHoldsNoPermit
      <3>5. CASE next.grant[p.grant] = db.grant[p.grant]
        BY <3>1, <3>3, <3>5, <1>8, BehindIsAnOrder
      <3>6. CASE next.grant[p.grant].epoch > db.grant[p.grant].epoch
        BY <3>1, <3>2, <3>4, <3>6
      <3> QED
        BY <3>1, <3>2, <3>3, <3>5, <3>6
    <2> QED
      BY <1>2, <1>11, <2>1, <2>2 DEF Anchored
  <1>15. \A c \in Copies : Anchored(backup[c], {})'
    <2> SUFFICES ASSUME NEW c \in Copies
                 PROVE  Anchored(backup[c], {})'
      OBVIOUS
    <2>1. Anchored(backup[c], {}) /\ backup[c] \in Database
      BY <1>1 DEF AuthorityInv, AnchorInv, TypeOK
    <2>2. \A p \in backup[c].recorded : p \in Permit /\ p.grant \in Grants
      BY <2>1 DEF Database, Permit
    <2>3. UnmarkedHoldsNoPermit(backup[c], {})'
      BY <1>2, <1>8, <2>1, <2>2, BehindIsAnOrder DEF Anchored, UnmarkedHoldsNoPermit
    <2>4. UnknownConsumptionShows(backup[c])'
      <3> SUFFICES ASSUME NEW p \in (backup[c].recorded \ backup[c].consumed) \cap (spent \cup use)
                   PROVE  \/ p.epoch < backup[c].grant[p.grant].epoch
                          \/ Behind(backup[c].grant[p.grant], mark'[p.grant])
        BY <1>2, <1>5 DEF UnknownConsumptionShows
      <3>1. CASE p \in use
        <4>1. ~Behind(mark[p.grant], backup[c].grant[p.grant])
          BY <2>2 DEF AuthorityInv, AnchorInv, CopiesAnchored
        <4>2. ~Behind(db.grant[p.grant], backup[c].grant[p.grant])
          BY <3>1, <4>1, <2>2, <1>8, BehindIsAnOrder
        <4> QED
          BY <3>1, <4>2, <2>2, <1>8, BehindIsAnOrder
      <3>2. CASE p \in spent
        BY <3>2, <1>5, <1>8, <2>1, <2>2, BehindIsAnOrder DEF Anchored, UnknownConsumptionShows
      <3> QED
        BY <3>1, <3>2
    <2> QED
      BY <1>2, <2>1, <2>3, <2>4 DEF Anchored
  <1>16. NoAuthorityTwice'
    BY <1>2, <1>5 DEF NoAuthorityTwice
  <1> QED
    BY <1>4, <1>6, <1>9, <1>10, <1>12, <1>13, <1>14, <1>15, <1>16 DEF AuthorityInv, AnchorInv

-----------------------------------------------------------------------------
(* The authority transactions *)

\* Provisioning writes the first row of a version, which no permit names yet.
LEMMA ProvisionKeepsInv ==
  ASSUME AuthorityInv, NEW g \in Grants, ProvisionGrant(g)
  PROVE  AuthorityInv' /\ MarksRise
  <1> DEFINE row == [status |-> "ACTIVE", epoch |-> 1, fence |-> 0]
  <1>1. TypeOK
    BY DEF AuthorityInv, AnchorInv
  <1>2. row \in GrantRow /\ row.epoch = 1
    BY DEF GrantRow
  <1>3. db.grant[g].epoch = 0
    BY <1>1, RowShape DEF ProvisionGrant, Provisioned, TypeOK, Database
  <1>4. mark' = Raised(mark, g, row) /\ Begin(SetRow(g, row), {}, {})
    BY DEF ProvisionGrant
  <1>5. mark \in [Grants -> Mark] /\ db \in Database
    BY <1>1 DEF TypeOK
  <1> HIDE DEF row
  <1>6. mark' \in [Grants -> Mark] /\ \A h \in Grants : ~Behind(mark'[h], mark[h])
    BY <1>2, <1>4, <1>5, RaisedMarks
  <1>7. \A h \in Grants : \/ SetRow(g, row).grant[h] = db.grant[h]
                          \/ SetRow(g, row).grant[h].epoch > db.grant[h].epoch
    BY <1>2, <1>3, <1>5, RowWritten
  <1> QED
    BY <1>2, <1>4, <1>5, <1>6, <1>7, RowWritten, BeginKeepsInv DEF MarksRise

\* A usable row is not behind its mark, so its next fence is ahead of every fence
\* ever allocated, in whatever history.
LEMMA FenceKeepsInv ==
  ASSUME AuthorityInv, NEW g \in Grants, NextExecutionFence(g)
  PROVE  AuthorityInv' /\ MarksRise
  <1> DEFINE row == [db.grant[g] EXCEPT !.fence = @ + 1]
             new == [grant |-> g, epoch |-> row.epoch, fence |-> row.fence]
  <1>1. TypeOK /\ mark \in [Grants -> Mark] /\ db \in Database /\ db.grant[g] \in GrantRow
    BY DEF AuthorityInv, AnchorInv, TypeOK, Database
  <1>2. /\ db.grant[g].status = "ACTIVE" /\ ~Behind(db.grant[g], mark[g])
        /\ Begin(SetRow(g, row), {new}, {})
        /\ mark' = Raised(mark, g, row)
    BY DEF NextExecutionFence, Usable, Regressed
  <1>3. row \in GrantRow /\ row.epoch = db.grant[g].epoch /\ row.fence = db.grant[g].fence + 1
    BY <1>1, <1>2, AdvancedRow
  <1>4. db.grant[g].epoch \in Nat /\ db.grant[g].fence \in Nat
    BY <1>1, RowShape
  <1>5. new \in Permit /\ new.grant = g /\ new.epoch = row.epoch /\ new.fence = row.fence
    BY <1>3, <1>4 DEF Permit
  <1> HIDE DEF row, new
  <1>6. /\ mark' \in [Grants -> Mark] /\ ~Behind(mark'[g], row)
        /\ \A h \in Grants : ~Behind(mark'[h], mark[h])
    BY <1>1, <1>2, <1>3, RaisedMarks
  <1>7. ~Behind(mark'[g], new)
    BY <1>5, <1>6 DEF Behind
  <1>8. new \notin minted
    <2>1. Behind(db.grant[g], new)
      BY <1>3, <1>4, <1>5 DEF Behind
    <2>2. Behind(mark[g], new)
      BY <1>1, <1>2, <1>5, <2>1, Positions, BehindIsAnOrder
    <2> QED
      BY <1>5, <2>2 DEF AuthorityInv, AnchorInv, EventsAnchored
  <1>9. /\ SetRow(g, row) \in Database
        /\ SetRow(g, row).grant[g] = row
        /\ \A h \in Grants : h # g => SetRow(g, row).grant[h] = db.grant[h]
        /\ SetRow(g, row).recorded = db.recorded /\ SetRow(g, row).consumed = db.consumed
    BY <1>1, <1>3, RowWritten
  <1>10. \A h \in Grants : \/ SetRow(g, row).grant[h] = db.grant[h]
                           \/ /\ SetRow(g, row).grant[h].epoch = db.grant[h].epoch
                              /\ ~Behind(mark'[h], SetRow(g, row).grant[h])
                              /\ ~Behind(db.grant[h], mark[h])
    BY <1>2, <1>3, <1>6, <1>9
  <1>11. \A p \in {new} : /\ ~Behind(mark'[p.grant], p)
                          /\ p.epoch = SetRow(g, row).grant[p.grant].epoch
                          /\ ~Behind(mark'[p.grant], SetRow(g, row).grant[p.grant])
    BY <1>5, <1>6, <1>7, <1>9
  <1> QED
    BY <1>2, <1>5, <1>6, <1>8, <1>9, <1>10, <1>11, BeginKeepsInv DEF MarksRise

\* A permit that was consumed in another history is not consumable: its row would be
\* behind the mark that the consumption raised.
LEMMA ConsumeKeepsInv ==
  ASSUME AuthorityInv, NEW p \in db.recorded, Consume(p)
  PROVE  AuthorityInv' /\ MarksRise
  <1> DEFINE g == p.grant
             row == [db.grant[g] EXCEPT !.fence = @ + 1]
             next == [SetRow(g, row) EXCEPT !.consumed = @ \cup {p}]
  <1>1. TypeOK /\ mark \in [Grants -> Mark] /\ db \in Database /\ p \in Permit /\ g \in Grants
    BY DEF AuthorityInv, AnchorInv, TypeOK, Database, Permit
  <1>2. db.grant[g] \in GrantRow
    BY <1>1 DEF Database
  <1>3. /\ db.grant[g].status = "ACTIVE" /\ ~Behind(db.grant[g], mark[g])
        /\ db.grant[g].epoch = p.epoch /\ p \notin db.consumed
        /\ Begin(next, {}, {p})
        /\ mark' = Raised(mark, g, row)
    BY DEF Consume, Usable, Regressed
  <1>4. row \in GrantRow /\ row.epoch = db.grant[g].epoch /\ row.fence = db.grant[g].fence + 1
    BY <1>2, <1>3, AdvancedRow
  <1>5. /\ SetRow(g, row) \in Database
        /\ SetRow(g, row).grant[g] = row
        /\ \A h \in Grants : h # g => SetRow(g, row).grant[h] = db.grant[h]
        /\ SetRow(g, row).recorded = db.recorded /\ SetRow(g, row).consumed = db.consumed
    BY <1>1, <1>4, RowWritten
  <1>6. next \in Database /\ next.grant = SetRow(g, row).grant
        /\ next.recorded = db.recorded /\ next.consumed = db.consumed \cup {p}
    BY <1>1, <1>5 DEF Database
  <1>7. db.grant[g].epoch \in Nat /\ db.grant[g].fence \in Nat
    BY <1>2, RowShape
  <1> HIDE DEF row, next, g
  <1>8. /\ mark' \in [Grants -> Mark] /\ ~Behind(mark'[g], row)
        /\ \A h \in Grants : ~Behind(mark'[h], mark[h])
    BY <1>1, <1>3, <1>4, RaisedMarks
  <1>9. Behind(db.grant[g], mark'[g])
    <2>1. Behind(db.grant[g], row)
      BY <1>4, <1>7 DEF Behind
    <2> QED
      BY <1>1, <1>2, <1>4, <1>8, <2>1, Positions, BehindIsAnOrder
  <1>10. p \notin spent
    <2>1. UnknownConsumptionShows(db)
      BY DEF AuthorityInv, AnchorInv, Anchored
    <2> QED
      BY <1>3, <1>7, <2>1 DEF UnknownConsumptionShows, g
  <1>11. \A h \in Grants : \/ next.grant[h] = db.grant[h]
                           \/ /\ next.grant[h].epoch = db.grant[h].epoch
                              /\ ~Behind(mark'[h], next.grant[h])
                              /\ ~Behind(db.grant[h], mark[h])
    BY <1>3, <1>4, <1>5, <1>6, <1>8
  <1>12. \A q \in {p} : /\ ~Behind(db.grant[q.grant], mark[q.grant])
                        /\ Behind(db.grant[q.grant], mark'[q.grant])
    BY <1>3, <1>9 DEF g
  <1> QED
    BY <1>1, <1>3, <1>6, <1>8, <1>10, <1>11, <1>12, BeginKeepsInv DEF MarksRise

\* A lifecycle change advances the epoch, whatever the anchor was able to record.
LEMMA StatusKeepsInv ==
  ASSUME AuthorityInv, NEW g \in Grants, NEW s \in {"ACTIVE", "PAUSED", "REVOKED"},
         NEW answer \in Answers, SetGrantStatus(g, s, answer)
  PROVE  AuthorityInv' /\ MarksRise
  <1> DEFINE row == [status |-> s, epoch |-> db.grant[g].epoch + 1, fence |-> db.grant[g].fence]
  <1>1. TypeOK /\ mark \in [Grants -> Mark] /\ db \in Database /\ db.grant[g] \in GrantRow
    BY DEF AuthorityInv, AnchorInv, TypeOK, Database
  <1>2. Begin(SetRow(g, row), {}, {}) /\ (mark' = Raised(mark, g, row) \/ mark' = mark)
    BY DEF SetGrantStatus
  <1>3. row.epoch = db.grant[g].epoch + 1 /\ db.grant[g].epoch \in Nat /\ db.grant[g].fence \in Nat
    BY <1>1, RowShape
  <1>4. row \in GrantRow
    BY <1>3 DEF GrantRow
  <1> HIDE DEF row
  <1>5. mark' \in [Grants -> Mark] /\ \A h \in Grants : ~Behind(mark'[h], mark[h])
    <2>1. CASE mark' = Raised(mark, g, row)
      BY <1>1, <1>4, <2>1, RaisedMarks
    <2>2. CASE mark' = mark
      BY <1>1, <2>2, MarksOwnPosition
    <2> QED
      BY <1>2, <2>1, <2>2
  <1>6. \A h \in Grants : \/ SetRow(g, row).grant[h] = db.grant[h]
                          \/ SetRow(g, row).grant[h].epoch > db.grant[h].epoch
    BY <1>1, <1>3, <1>4, RowWritten
  <1> QED
    BY <1>1, <1>2, <1>4, <1>5, <1>6, RowWritten, BeginKeepsInv DEF MarksRise

\* So does a halt, for every provisioned grant of its scope.
LEMMA HaltKeepsInv ==
  ASSUME AuthorityInv, NEW s \in Scopes, NEW told \in SUBSET s, Halt(s, told)
  PROVE  AuthorityInv' /\ MarksRise
  <1> DEFINE fenced == [g \in Grants |-> IF g \in s /\ Provisioned(g)
                                           THEN [db.grant[g] EXCEPT !.epoch = @ + 1] ELSE db.grant[g]]
             next == [db EXCEPT !.grant = fenced, !.halted = @ \cup {s}]
  <1>1. TypeOK /\ mark \in [Grants -> Mark] /\ db \in Database
    BY DEF AuthorityInv, AnchorInv, TypeOK
  <1>2. /\ Begin(next, {}, {})
        /\ mark' = [g \in Grants |-> IF g \in told THEN Raised(mark, g, fenced[g])[g] ELSE mark[g]]
    BY DEF Halt
  <1>3. \A g \in Grants : db.grant[g] \in GrantRow /\ db.grant[g].epoch \in Nat
    BY <1>1, RowShape DEF Database
  <1>4. \A g \in Grants : /\ fenced[g] \in GrantRow
                          /\ fenced[g] = db.grant[g] \/ fenced[g].epoch > db.grant[g].epoch
    <2> TAKE g \in Grants
    <2>1. CASE g \in s /\ Provisioned(g)
      <3>1. fenced[g] = [db.grant[g] EXCEPT !.epoch = @ + 1]
        BY <2>1
      <3>2. db.grant[g] \in GrantRow /\ db.grant[g].status # "ABSENT" /\ db.grant[g].epoch \in Nat
        BY <1>3, <2>1 DEF Provisioned
      <3> HIDE DEF fenced
      <3>3. fenced[g] \in GrantRow /\ fenced[g].epoch = db.grant[g].epoch + 1
        BY <3>1, <3>2, AdvancedRow
      <3> QED
        BY <3>2, <3>3
    <2>2. CASE ~(g \in s /\ Provisioned(g))
      <3>1. fenced[g] = db.grant[g]
        BY <2>2
      <3> QED
        BY <1>3, <3>1
    <2> QED
      BY <2>1, <2>2
  <1>5. fenced \in [Grants -> GrantRow]
    BY <1>4
  <1> HIDE DEF fenced
  <1>6. next \in Database /\ next.grant = fenced /\ next.recorded = db.recorded /\ next.consumed = db.consumed
    BY <1>1, <1>5 DEF Database
  <1> HIDE DEF next
  <1>7. \A g \in Grants : mark'[g] \in Mark /\ ~Behind(mark'[g], mark[g])
    <2> TAKE g \in Grants
    <2>1. CASE g \in told
      <3>1. mark'[g] = Raised(mark, g, fenced[g])[g]
        BY <1>2, <2>1
      <3>2. fenced[g] \in GrantRow
        BY <1>5
      <3>3. /\ Raised(mark, g, fenced[g]) \in [Grants -> Mark]
            /\ ~Behind(Raised(mark, g, fenced[g])[g], mark[g])
        BY <1>1, <3>2, RaisedMarks
      <3> QED
        BY <3>1, <3>3
    <2>2. CASE g \notin told
      <3>1. mark'[g] = mark[g]
        BY <1>2, <2>2
      <3> QED
        BY <1>1, <3>1, MarksOwnPosition
    <2> QED
      BY <2>1, <2>2
  <1>8. mark' \in [Grants -> Mark]
    BY <1>2, <1>7
  <1> QED
    BY <1>2, <1>4, <1>6, <1>7, <1>8, BeginKeepsInv DEF MarksRise

\* So does revoke_after_restore, past the row and past what it knows of the mark.
LEMMA RevokeKeepsInv ==
  ASSUME AuthorityInv, NEW g \in Grants, NEW answer \in Answers, RevokeAfterRestore(g, answer)
  PROVE  AuthorityInv' /\ MarksRise
  <1>1. TypeOK /\ mark \in [Grants -> Mark] /\ db \in Database
    BY DEF AuthorityInv, AnchorInv, TypeOK
  <1>2. /\ db.grant[g].epoch \in Nat /\ db.grant[g].fence \in Nat
        /\ mark[g].epoch \in Nat /\ mark[g].fence \in Nat
    BY <1>1, RowShape DEF Database, Mark
  <1>3. PICK e \in Nat, f \in Nat :
          LET row == [status |-> "REVOKED", epoch |-> e, fence |-> f]
          IN  /\ e > db.grant[g].epoch
              /\ Begin(SetRow(g, row), {}, {})
              /\ \/ mark' = mark
                 \/ e > mark[g].epoch /\ mark' = [mark EXCEPT ![g] = [epoch |-> e, fence |-> f]]
    <2> DEFINE known == IF answer = "down" THEN db.grant[g] ELSE mark[g]
               higher(x, y) == IF x > y THEN x ELSE y
               e == higher(db.grant[g].epoch, known.epoch) + 1
               f == higher(db.grant[g].fence, known.fence)
               row == [status |-> "REVOKED", epoch |-> e, fence |-> f]
    <2>1. e \in Nat /\ f \in Nat /\ e > db.grant[g].epoch
      BY <1>2
    <2>2. answer = "up" => e > mark[g].epoch
      BY <1>2
    <2>3. /\ Begin(SetRow(g, row), {}, {})
          /\ mark' = IF answer = "up" THEN [mark EXCEPT ![g] = [epoch |-> row.epoch, fence |-> row.fence]]
                     ELSE mark
      BY DEF RevokeAfterRestore
    <2> HIDE DEF e, f
    <2> QED
      BY <2>1, <2>2, <2>3
  <1> DEFINE row == [status |-> "REVOKED", epoch |-> e, fence |-> f]
  <1>4. row \in GrantRow /\ row.epoch > db.grant[g].epoch
    BY <1>3 DEF GrantRow
  <1>5. Begin(SetRow(g, row), {}, {})
    BY <1>3
  <1> HIDE DEF row
  <1>6. mark' \in [Grants -> Mark] /\ \A h \in Grants : ~Behind(mark'[h], mark[h])
    BY <1>1, <1>2, <1>3 DEF Mark, Behind
  <1>7. \A h \in Grants : \/ SetRow(g, row).grant[h] = db.grant[h]
                          \/ SetRow(g, row).grant[h].epoch > db.grant[h].epoch
    BY <1>1, <1>4, RowWritten
  <1> QED
    BY <1>1, <1>4, <1>5, <1>6, <1>7, RowWritten, BeginKeepsInv DEF MarksRise

-----------------------------------------------------------------------------
(* The other steps *)

\* A step that opens no transaction, leaves every datastore alone and only raises
\* marks keeps the invariant.
LEMMA MarkKeepsInv ==
  ASSUME AuthorityInv, UNCHANGED <<db, txn, backup, minted, spent, lost>>, tickets' \subseteq tickets,
         mark' \in [Grants -> Mark], \A g \in Grants : ~Behind(mark'[g], mark[g])
  PROVE  AuthorityInv'
  <1>1. TypeOK /\ TypeOK' /\ UNCHANGED <<Allocating, Consuming>>
    BY DEF AuthorityInv, AnchorInv, TypeOK, Allocating, Consuming
  <1>2. \A g \in Grants : mark[g] \in Position /\ mark'[g] \in Position
    BY <1>1, Positions DEF TypeOK
  <1>3. \A p \in minted \cup Allocating : p \in Position /\ p.grant \in Grants
    BY <1>1, Positions DEF TypeOK, Allocating, Txn, NoTxn, Permit
  <1>4. EventsAnchored'
    BY <1>1, <1>2, <1>3, BehindIsAnOrder DEF EventsAnchored, AuthorityInv, AnchorInv
  <1>5. \A c \in Copies, g \in Grants : backup[c].grant[g] \in Position
    BY <1>1, Positions DEF TypeOK, Database
  <1>6. CopiesAnchored'
    BY <1>2, <1>5, BehindIsAnOrder DEF CopiesAnchored, AuthorityInv, AnchorInv
  <1>7. Anchored(db, tickets)'
    BY <1>1, AnchoredStays DEF AuthorityInv, AnchorInv, TypeOK
  <1>8. (txn # NoTxn => Anchored(txn.db, tickets \cup txn.mint))'
    <2> SUFFICES ASSUME txn # NoTxn
                 PROVE  Anchored(txn.db, tickets \cup txn.mint)'
      OBVIOUS
    <2>1. txn.db \in Database /\ txn.mint \in SUBSET Permit
      BY <1>1 DEF TypeOK, Txn
    <2>2. Anchored(txn.db, tickets \cup txn.mint) /\ tickets \cup txn.mint \in SUBSET Permit
      BY <1>1, <2>1 DEF AuthorityInv, AnchorInv, TypeOK
    <2> QED
      BY <1>1, <2>1, <2>2, AnchoredStays
  <1>9. \A c \in Copies : Anchored(backup[c], {})'
    <2> TAKE c \in Copies
    <2>1. Anchored(backup[c], {}) /\ backup[c] \in Database
      BY <1>1 DEF AuthorityInv, AnchorInv, TypeOK
    <2> QED
      BY <1>1, <2>1, AnchoredStays
  <1> QED
    BY <1>1, <1>4, <1>6, <1>7, <1>8, <1>9 DEF AuthorityInv, AnchorInv, NoAuthorityTwice, TicketsFresh

\* Recording a permit moves an allocated, unspent fence from its issuer to the
\* datastore.
LEMMA RecordKeepsInv ==
  ASSUME AuthorityInv, NEW p \in tickets, RecordPermit(p)
  PROVE  AuthorityInv'
  <1>1. TypeOK /\ db \in Database /\ p \in Permit /\ txn = NoTxn
    BY DEF AuthorityInv, AnchorInv, TypeOK, RecordPermit
  <1>2. UNCHANGED <<txn, mark, backup, minted, spent, lost, Allocating, Consuming>>
    BY DEF RecordPermit, history, Allocating, Consuming
  <1>3. /\ db' \in Database /\ db'.grant = db.grant /\ db'.consumed = db.consumed
        /\ db'.recorded = db.recorded \cup {p} /\ tickets' = tickets \ {p}
    BY <1>1 DEF RecordPermit, Database
  <1>4. TypeOK'
    BY <1>1, <1>2, <1>3 DEF TypeOK
  <1>5. p \in minted /\ p \notin spent \cup Consuming
    BY DEF AuthorityInv, AnchorInv, TicketsFresh
  <1>6. Anchored(db, tickets)
    BY DEF AuthorityInv, AnchorInv
  <1>7. Anchored(db, tickets)'
    <2>1. UnmarkedHoldsNoPermit(db, tickets)'
      BY <1>2, <1>3, <1>6 DEF Anchored, UnmarkedHoldsNoPermit
    <2>2. UnknownConsumptionShows(db)'
      BY <1>2, <1>3, <1>5, <1>6 DEF Anchored, UnknownConsumptionShows
    <2> QED
      BY <1>2, <1>3, <1>5, <1>6, <2>1, <2>2 DEF Anchored
  <1>8. \A c \in Copies : Anchored(backup[c], {})'
    BY <1>2 DEF AuthorityInv, AnchorInv, Anchored, UnmarkedHoldsNoPermit, UnknownConsumptionShows
  <1> QED
    BY <1>1, <1>2, <1>3, <1>4, <1>7, <1>8
    DEF AuthorityInv, AnchorInv, NoAuthorityTwice, EventsAnchored, CopiesAnchored, TicketsFresh

\* Resuming a scope touches no row and no permit.
LEMMA ResumeKeepsInv ==
  ASSUME AuthorityInv, NEW s \in Scopes, Resume(s)
  PROVE  AuthorityInv'
  <1>1. TypeOK /\ db \in Database /\ txn = NoTxn
    BY DEF AuthorityInv, AnchorInv, TypeOK, Resume
  <1>2. UNCHANGED <<txn, mark, tickets, backup, minted, spent, lost, Allocating, Consuming>>
    BY DEF Resume, history, Allocating, Consuming
  <1>3. /\ db' \in Database /\ db'.grant = db.grant /\ db'.consumed = db.consumed
        /\ db'.recorded = db.recorded
    BY <1>1 DEF Resume, Database
  <1>4. TypeOK'
    BY <1>1, <1>2, <1>3 DEF TypeOK
  <1>5. Anchored(db, tickets)'
    BY <1>2, <1>3 DEF AuthorityInv, AnchorInv, Anchored, UnmarkedHoldsNoPermit, UnknownConsumptionShows
  <1>6. \A c \in Copies : Anchored(backup[c], {})'
    BY <1>2 DEF AuthorityInv, AnchorInv, Anchored, UnmarkedHoldsNoPermit, UnknownConsumptionShows
  <1> QED
    BY <1>1, <1>2, <1>4, <1>5, <1>6
    DEF AuthorityInv, AnchorInv, NoAuthorityTwice, EventsAnchored, CopiesAnchored, TicketsFresh

\* A backup is taken while no mark is behind, so the copy is anchored.
LEMMA BackupKeepsInv ==
  ASSUME AuthorityInv, NEW c \in Copies, Backup(c)
  PROVE  AuthorityInv'
  <1>1. TypeOK /\ backup \in [Copies -> Database] /\ db \in Database
    BY DEF AuthorityInv, AnchorInv, TypeOK
  <1>2. UNCHANGED <<db, txn, mark, tickets, minted, spent, lost, Allocating, Consuming>>
    BY DEF Backup, history, Allocating, Consuming
  <1>3. backup' = [backup EXCEPT ![c] = db]
    BY DEF Backup
  <1>4. TypeOK'
    BY <1>1, <1>2, <1>3 DEF TypeOK
  <1>5. \A d \in Copies : backup'[d] = db \/ backup'[d] = backup[d]
    BY <1>1, <1>3
  <1>6. CopiesAnchored'
    BY <1>2, <1>5 DEF Backup, CopiesAnchored, AuthorityInv, AnchorInv
  <1>7. \A d \in Copies : Anchored(backup[d], {})'
    BY <1>2, <1>5 DEF AuthorityInv, AnchorInv, Anchored, UnmarkedHoldsNoPermit, UnknownConsumptionShows
  <1>8. Anchored(db, tickets)' /\ (txn # NoTxn => Anchored(txn.db, tickets \cup txn.mint))'
    BY <1>2 DEF AuthorityInv, AnchorInv, Anchored, UnmarkedHoldsNoPermit, UnknownConsumptionShows
  <1> QED
    BY <1>2, <1>4, <1>6, <1>7, <1>8
    DEF AuthorityInv, AnchorInv, NoAuthorityTwice, EventsAnchored, TicketsFresh

\* A restored copy satisfies what the datastore must, without any ticket.
LEMMA RestoreKeepsInv ==
  ASSUME AuthorityInv, NEW c \in Copies, Restore(c)
  PROVE  AuthorityInv'
  <1>1. TypeOK /\ backup \in [Copies -> Database]
    BY DEF AuthorityInv, AnchorInv, TypeOK
  <1>2. UNCHANGED <<mark, backup, minted, spent>> /\ db' = backup[c] /\ txn' = NoTxn /\ tickets' = {}
    BY DEF Restore
  <1>3. Allocating' = {} /\ Consuming' = {}
    BY <1>2 DEF Allocating, Consuming
  <1>4. TypeOK'
    BY <1>1, <1>2 DEF TypeOK, Restore, Losing
  <1>5. \A d \in Copies : Anchored(backup[d], {})'
    BY <1>2, <1>3 DEF AuthorityInv, AnchorInv, Anchored, UnmarkedHoldsNoPermit, UnknownConsumptionShows
  <1>6. Anchored(db, tickets)'
    BY <1>2, <1>5
  <1> QED
    BY <1>2, <1>3, <1>4, <1>5, <1>6
    DEF AuthorityInv, AnchorInv, NoAuthorityTwice, EventsAnchored, CopiesAnchored, TicketsFresh

\* A COMMIT turns what the transaction allocates and consumes into history.
LEMMA CommitKeepsInv ==
  ASSUME AuthorityInv, COMMIT
  PROVE  AuthorityInv'
  <1>1. TypeOK /\ txn # NoTxn /\ txn.db \in Database /\ txn.mint \subseteq Permit /\ txn.use \subseteq Permit
    BY DEF AuthorityInv, AnchorInv, TypeOK, COMMIT, Txn
  <1>2. /\ UNCHANGED <<mark, backup, lost>> /\ db' = txn.db /\ txn' = NoTxn
        /\ tickets' = tickets \cup txn.mint /\ minted' = minted \cup txn.mint
        /\ spent' = spent \cup txn.use
    BY DEF COMMIT
  <1>3. Allocating = txn.mint /\ Consuming = txn.use /\ Allocating' = {} /\ Consuming' = {}
    BY <1>1, <1>2 DEF Allocating, Consuming
  <1>4. TypeOK'
    BY <1>1, <1>2 DEF TypeOK
  <1>5. Anchored(db, tickets)'
    BY <1>1, <1>2, <1>3 DEF AuthorityInv, AnchorInv, Anchored, UnmarkedHoldsNoPermit, UnknownConsumptionShows
  <1>6. \A c \in Copies : Anchored(backup[c], {})'
    BY <1>2, <1>3 DEF AuthorityInv, AnchorInv, Anchored, UnmarkedHoldsNoPermit, UnknownConsumptionShows
  <1>7. TicketsFresh'
    BY <1>2, <1>3 DEF AuthorityInv, AnchorInv, NoAuthorityTwice, TicketsFresh
  <1> QED
    BY <1>2, <1>3, <1>4, <1>5, <1>6, <1>7
    DEF AuthorityInv, AnchorInv, NoAuthorityTwice, EventsAnchored, CopiesAnchored

\* A rollback forgets the transaction; the mark it raised stays.
LEMMA RollbackKeepsInv ==
  ASSUME AuthorityInv, ROLLBACK
  PROVE  AuthorityInv'
  <1>1. TypeOK
    BY DEF AuthorityInv, AnchorInv
  <1>2. UNCHANGED <<db, mark, tickets, backup, minted, spent>> /\ txn' = NoTxn
    BY DEF ROLLBACK
  <1>3. Allocating' = {} /\ Consuming' = {}
    BY <1>2 DEF Allocating, Consuming
  <1>4. TypeOK'
    BY <1>1, <1>2 DEF TypeOK, ROLLBACK, Losing
  <1>5. Anchored(db, tickets)' /\ \A c \in Copies : Anchored(backup[c], {})'
    BY <1>2, <1>3 DEF AuthorityInv, AnchorInv, Anchored, UnmarkedHoldsNoPermit, UnknownConsumptionShows
  <1> QED
    BY <1>2, <1>3, <1>4, <1>5
    DEF AuthorityInv, AnchorInv, NoAuthorityTwice, EventsAnchored, CopiesAnchored, TicketsFresh

\* Every step of the store, the anchor, the issuers and the operators keeps the
\* invariant and lowers no mark.
LEMMA InvStep == AuthorityInv /\ [Next]_vars => AuthorityInv' /\ MarksRise
  <1> SUFFICES ASSUME AuthorityInv, [Next]_vars
               PROVE  AuthorityInv' /\ MarksRise
    OBVIOUS
  <1>1. db \in Database /\ mark \in [Grants -> Mark] /\ \A g \in Grants : db.grant[g] \in GrantRow
    BY DEF AuthorityInv, AnchorInv, TypeOK, Database
  <1>2. \A g \in Grants : ~Behind(mark[g], mark[g])
    BY <1>1, MarksOwnPosition
  <1>3. ASSUME NEW p \in tickets, AbandonTicket(p)
        PROVE  AuthorityInv' /\ MarksRise
    <2>1. UNCHANGED <<db, txn, mark, backup, minted, spent, lost>> /\ tickets' \subseteq tickets
      BY <1>3 DEF AbandonTicket, history
    <2> QED
      BY <1>1, <1>2, <2>1, MarkKeepsInv DEF MarksRise
  <1>4. ASSUME NEW g \in Grants, RepeatStop(g)
        PROVE  AuthorityInv' /\ MarksRise
    <2>1. /\ UNCHANGED <<db, txn, tickets, backup, minted, spent, lost>>
          /\ mark' = Raised(mark, g, db.grant[g])
      BY <1>4 DEF RepeatStop, history
    <2>2. mark' \in [Grants -> Mark] /\ \A h \in Grants : ~Behind(mark'[h], mark[h])
      BY <1>1, <2>1, RaisedMarks
    <2> QED
      BY <2>1, <2>2, MarkKeepsInv DEF MarksRise
  <1>5. ASSUME NEW told \in SUBSET Grants, Open(told)
        PROVE  AuthorityInv' /\ MarksRise
    <2>1. /\ UNCHANGED <<db, txn, tickets, backup, minted, spent, lost>>
          /\ mark' = [g \in Grants |-> IF g \in told THEN Raised(mark, g, db.grant[g])[g] ELSE mark[g]]
      BY <1>5 DEF Open, history
    <2>2. \A g \in Grants : mark'[g] \in Mark /\ ~Behind(mark'[g], mark[g])
      <3> TAKE g \in Grants
      <3>1. CASE g \in told
        <4>1. mark'[g] = Raised(mark, g, db.grant[g])[g]
          BY <2>1, <3>1
        <4>2. /\ Raised(mark, g, db.grant[g]) \in [Grants -> Mark]
              /\ ~Behind(Raised(mark, g, db.grant[g])[g], mark[g])
          BY <1>1, RaisedMarks
        <4> QED
          BY <4>1, <4>2
      <3>2. CASE g \notin told
        BY <1>1, <1>2, <2>1, <3>2
      <3> QED
        BY <3>1, <3>2
    <2>3. mark' \in [Grants -> Mark]
      BY <2>1, <2>2
    <2> QED
      BY <2>1, <2>2, <2>3, MarkKeepsInv DEF MarksRise
  <1>6. CASE UNCHANGED vars
    BY <1>1, <1>2, <1>6, MarkKeepsInv DEF vars, MarksRise
  <1>7. UNCHANGED mark => MarksRise
    BY <1>2 DEF MarksRise
  <1>8. CASE AuthorityStep
    <2>1. ASSUME NEW p \in tickets, RecordPermit(p)
          PROVE  AuthorityInv' /\ MarksRise
      BY <1>7, <2>1, RecordKeepsInv DEF RecordPermit
    <2> QED
      BY <1>3, <1>8, <2>1, ProvisionKeepsInv, FenceKeepsInv, ConsumeKeepsInv DEF AuthorityStep
  <1>9. CASE OperatorStep
    <2>1. ASSUME NEW s \in Scopes, Resume(s)
          PROVE  AuthorityInv' /\ MarksRise
      BY <1>7, <2>1, ResumeKeepsInv DEF Resume
    <2> QED
      BY <1>4, <1>9, <2>1, StatusKeepsInv, RevokeKeepsInv, HaltKeepsInv DEF OperatorStep
  <1>10. CASE FileStep
    <2>1. ASSUME NEW c \in Copies, Backup(c) \/ Restore(c)
          PROVE  AuthorityInv' /\ MarksRise
      <3>1. UNCHANGED mark
        BY <2>1 DEF Backup, Restore
      <3> QED
        BY <1>7, <2>1, <3>1, BackupKeepsInv, RestoreKeepsInv
    <2> QED
      BY <1>5, <1>10, <2>1 DEF FileStep
  <1>11. CASE COMMIT
    BY <1>7, <1>11, CommitKeepsInv DEF COMMIT
  <1>12. CASE ROLLBACK
    BY <1>7, <1>12, RollbackKeepsInv DEF ROLLBACK
  <1> QED
    BY <1>6, <1>8, <1>9, <1>10, <1>11, <1>12 DEF Next

-----------------------------------------------------------------------------
(* Theorems *)

\* Whatever copies are kept and restored, in whatever order, and whenever the anchor
\* fails: no fence is ahead of its mark, and no datastore takes a spent permit for a
\* fresh one without being behind.
THEOREM AuthorityNeverUnmarked == Spec => []AnchorInv
  <1>1. AuthorityInv => AnchorInv
    BY DEF AuthorityInv
  <1> QED
    BY <1>1, InvInit, InvStep, PTL DEF Spec

\* No fence is allocated twice and no permit is consumed twice, across any number of
\* copies, restores, rollbacks, outages and halts.
THEOREM AuthorityUsedOnce == Spec => []NoAuthorityTwice
  <1>1. AuthorityInv => NoAuthorityTwice
    BY DEF AuthorityInv
  <1> QED
    BY <1>1, InvInit, InvStep, PTL DEF Spec

\* No step, not even a rollback, a restore or a repair at opening, lowers a mark.
THEOREM AnchorNeverFalls == Spec => [][MarksRise]_vars
  <1>1. AuthorityInv /\ [Next]_vars => [MarksRise]_vars
    BY InvStep
  <1> QED
    BY <1>1, InvInit, InvStep, PTL DEF Spec

\* One step from a committed state in which a version is behind its mark.
LEMMA RegressedStep ==
  ASSUME AuthorityInv, [Next]_vars, NEW g \in Grants,
         txn = NoTxn, Provisioned(g), Regressed(g)
  PROVE  /\ Usable(g)' => \E c \in Copies : Restore(c)
         /\ (txn' # NoTxn /\ txn'.db.grant[g] # db.grant[g]) => Stopped(txn'.db, g)
  <1>1. db \in Database /\ db.grant[g] \in Position /\ mark[g] \in Position /\ mark'[g] \in Position
    BY InvStep, Positions DEF AuthorityInv, AnchorInv, TypeOK, Database
  <1>2. Behind(db.grant[g], mark'[g])
    BY <1>1, InvStep, BehindIsAnOrder DEF MarksRise, Regressed
  <1>3. ASSUME db'.grant = db.grant
        PROVE  ~Usable(g)'
    BY <1>2, <1>3 DEF Usable, Regressed
  <1>4. ASSUME NEW next, NEW mint, NEW use, Begin(next, mint, use),
               next.grant[g] = db.grant[g] \/ Stopped(next, g)
        PROVE  ~Usable(g)' /\ (txn'.db.grant[g] # db.grant[g] => Stopped(txn'.db, g))
    <2>1. txn'.db = next /\ db' = db
      BY <1>4 DEF Begin
    <2> QED
      BY <1>3, <1>4, <2>1
  <1>5. ASSUME db'.grant = db.grant, txn' = txn
        PROVE  ~Usable(g)' /\ txn' = NoTxn
    BY <1>3, <1>5
  <1>6. ASSUME NEW h \in Grants, NEW row, h # g
        PROVE  SetRow(h, row).grant[g] = db.grant[g]
    BY <1>1, <1>6 DEF SetRow, Database
  <1>7. ASSUME NEW row, row.status # "ACTIVE"
        PROVE  Stopped(SetRow(g, row), g)
    BY <1>1, <1>7 DEF SetRow, Database, Stopped
  <1>8. CASE AuthorityStep
    <2>1. ASSUME NEW h \in Grants, ProvisionGrant(h)
          PROVE  ~Usable(g)' /\ (txn'.db.grant[g] # db.grant[g] => Stopped(txn'.db, g))
      <3>1. h # g
        BY <2>1 DEF ProvisionGrant
      <3> QED
        BY <1>4, <1>6, <2>1, <3>1 DEF ProvisionGrant
    <2>2. ASSUME NEW h \in Grants, NextExecutionFence(h)
          PROVE  ~Usable(g)' /\ (txn'.db.grant[g] # db.grant[g] => Stopped(txn'.db, g))
      <3>1. h # g
        BY <2>2 DEF NextExecutionFence, Usable
      <3> QED
        BY <1>4, <1>6, <2>2, <3>1 DEF NextExecutionFence
    <2>3. ASSUME NEW p \in db.recorded, Consume(p)
          PROVE  ~Usable(g)' /\ (txn'.db.grant[g] # db.grant[g] => Stopped(txn'.db, g))
      <3> DEFINE row == [db.grant[p.grant] EXCEPT !.fence = @ + 1]
      <3>1. p.grant # g /\ p.grant \in Grants
        BY <1>1, <2>3 DEF Consume, Usable, Database, Permit
      <3>2. Begin([SetRow(p.grant, row) EXCEPT !.consumed = @ \cup {p}], {}, {p})
        BY <2>3 DEF Consume
      <3> HIDE DEF row
      <3>3. [SetRow(p.grant, row) EXCEPT !.consumed = @ \cup {p}].grant = SetRow(p.grant, row).grant
        BY <1>1 DEF SetRow, Database
      <3> QED
        BY <1>4, <1>6, <3>1, <3>2, <3>3
    <2>4. ASSUME NEW p \in tickets, RecordPermit(p) \/ AbandonTicket(p)
          PROVE  ~Usable(g)' /\ txn' = NoTxn
      <3>1. db'.grant = db.grant /\ txn' = txn
        BY <1>1, <2>4 DEF RecordPermit, AbandonTicket, Database
      <3> QED
        BY <1>5, <3>1
    <2> QED
      BY <1>8, <2>1, <2>2, <2>3, <2>4 DEF AuthorityStep
  <1>9. CASE OperatorStep
    <2>1. ASSUME NEW h \in Grants, NEW s \in {"ACTIVE", "PAUSED", "REVOKED"}, NEW answer \in Answers,
                 SetGrantStatus(h, s, answer)
          PROVE  ~Usable(g)' /\ (txn'.db.grant[g] # db.grant[g] => Stopped(txn'.db, g))
      <3> DEFINE row == [status |-> s, epoch |-> db.grant[h].epoch + 1, fence |-> db.grant[h].fence]
      <3>1. Begin(SetRow(h, row), {}, {})
        BY <2>1 DEF SetGrantStatus
      <3>2. h = g => row.status # "ACTIVE"
        BY <2>1 DEF SetGrantStatus
      <3> HIDE DEF row
      <3> QED
        BY <1>4, <1>6, <1>7, <3>1, <3>2
    <2>2. ASSUME NEW h \in Grants, NEW answer \in Answers, RevokeAfterRestore(h, answer)
          PROVE  ~Usable(g)' /\ (txn'.db.grant[g] # db.grant[g] => Stopped(txn'.db, g))
      <3>1. PICK row : row.status = "REVOKED" /\ Begin(SetRow(h, row), {}, {})
        BY <2>2 DEF RevokeAfterRestore
      <3> QED
        BY <1>4, <1>6, <1>7, <3>1
    <2>3. ASSUME NEW h \in Grants, RepeatStop(h)
          PROVE  ~Usable(g)' /\ txn' = NoTxn
      BY <1>5, <2>3 DEF RepeatStop
    <2>4. ASSUME NEW s \in Scopes, Resume(s)
          PROVE  ~Usable(g)' /\ txn' = NoTxn
      <3>1. db'.grant = db.grant /\ txn' = txn
        BY <1>1, <2>4 DEF Resume, Database
      <3> QED
        BY <1>5, <3>1
    <2>5. ASSUME NEW s \in Scopes, NEW told \in SUBSET s, Halt(s, told)
          PROVE  ~Usable(g)' /\ (txn'.db.grant[g] # db.grant[g] => Stopped(txn'.db, g))
      <3> DEFINE fenced == [h \in Grants |-> IF h \in s /\ Provisioned(h)
                                               THEN [db.grant[h] EXCEPT !.epoch = @ + 1] ELSE db.grant[h]]
                 next == [db EXCEPT !.grant = fenced, !.halted = @ \cup {s}]
      <3>1. Begin(next, {}, {})
        BY <2>5 DEF Halt
      <3>2. g \notin s => fenced[g] = db.grant[g]
        OBVIOUS
      <3> HIDE DEF fenced
      <3>3. next.grant = fenced /\ s \in next.halted
        BY <1>1 DEF Database
      <3> HIDE DEF next
      <3> QED
        BY <1>4, <3>1, <3>2, <3>3 DEF Stopped
    <2> QED
      BY <1>9, <2>1, <2>2, <2>3, <2>4, <2>5 DEF OperatorStep
  <1>10. CASE FileStep
    <2>1. ASSUME NEW c \in Copies, Backup(c)
          PROVE  ~Usable(g)' /\ txn' = NoTxn
      BY <1>5, <2>1 DEF Backup
    <2>2. ASSUME NEW told \in SUBSET Grants, Open(told)
          PROVE  ~Usable(g)' /\ txn' = NoTxn
      BY <1>5, <2>2 DEF Open
    <2>3. ASSUME NEW c \in Copies, Restore(c)
          PROVE  txn' = NoTxn
      BY <2>3 DEF Restore
    <2> QED
      BY <1>10, <2>1, <2>2, <2>3 DEF FileStep
  <1>11. CASE COMMIT \/ ROLLBACK
    BY <1>11 DEF COMMIT, ROLLBACK
  <1>12. CASE UNCHANGED vars
    BY <1>5, <1>12 DEF vars
  <1> QED
    BY <1>8, <1>9, <1>10, <1>11, <1>12 DEF Next

\* Nothing but restoring another copy makes a version that is behind its mark usable,
\* and whatever is written for it stops it.
THEOREM RegressedNeverRevived == Spec => RegressedEndsStopped
  <1> DEFINE Ends == \A g \in Grants : txn = NoTxn /\ Provisioned(g) /\ Regressed(g) =>
                       /\ Usable(g)' => \E c \in Copies : Restore(c)
                       /\ (txn' # NoTxn /\ txn'.db.grant[g] # db.grant[g]) => Stopped(txn'.db, g)
  <1>1. AuthorityInv /\ [Next]_vars => [Ends]_vars
    BY RegressedStep
  <1>2. RegressedEndsStopped <=> [][Ends]_vars
    BY DEF RegressedEndsStopped
  <1> HIDE DEF Ends
  <1> QED
    BY <1>1, <1>2, InvInit, InvStep, PTL DEF Spec
=============================================================================
