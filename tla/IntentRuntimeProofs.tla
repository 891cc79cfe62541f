------------------------- MODULE IntentRuntimeProofs -------------------------
(***************************************************************************)
(* The permit ledger's and the runtime's safety properties for every       *)
(* number of grants, intents, runtimes, attempts and faults, in three      *)
(* parts.                                                                  *)
(*                                                                         *)
(*  1. PermitLedger: its type invariant, the single use of fences and      *)
(*     permits, the effect of a stop.                                      *)
(*  2. IntentRuntime: one inductive invariant, LedgerInv /\ RuntimeInv.    *)
(*     The lease makes an intent the business of one process, so what that *)
(*     process concluded from the intent's row, permits and reservation is *)
(*     still so when it writes.                                            *)
(*  3. What the runtime guarantees of every intent, from that invariant.   *)
(*     Three deployments matter: one with any verifier at all, one in      *)
(*     which every runtime has the venue's adapter (Configured = Issuers), *)
(*     and one whose verifier is truthful.                                 *)
(***************************************************************************)
EXTENDS IntentRuntime, FiniteSetTheorems, TLAPS

-----------------------------------------------------------------------------
(* Facts about the permit table that several actions need *)

\* Replacing the rows of a table one by one, as voiding does, leaves a table of
\* the same length.
LEMMA RewriteRows ==
  ASSUME NEW S, NEW s \in Seq(S), NEW f,
         f = [r \in DOMAIN s |-> f[r]],
         \A r \in DOMAIN s : f[r] \in S
  PROVE  f \in Seq(S) /\ DOMAIN f = DOMAIN s
  OBVIOUS

\* The row a consumption writes is a permit, and the other rows are as before.
LEMMA ConsumedTable ==
  ASSUME permits \in Seq(Permit), NEW r \in DOMAIN permits,
         permits' = [permits EXCEPT ![r].consumed = TRUE]
  PROVE  /\ permits' \in Seq(Permit)
         /\ DOMAIN permits' = DOMAIN permits
         /\ \A q \in DOMAIN permits :
              permits'[q] = IF q = r THEN [permits[r] EXCEPT !.consumed = TRUE] ELSE permits[q]
  <1>0. \A q \in DOMAIN permits : permits[q] \in Permit
    OBVIOUS
  <1>1. [permits[r] EXCEPT !.consumed = TRUE] \in Permit
    BY <1>0 DEF Permit
  <1>2. /\ DOMAIN permits' = DOMAIN permits
        /\ permits' = [q \in DOMAIN permits |-> permits'[q]]
        /\ \A q \in DOMAIN permits :
             permits'[q] = IF q = r THEN [permits[r] EXCEPT !.consumed = TRUE] ELSE permits[q]
    OBVIOUS
  <1>3. \A q \in DOMAIN permits : permits'[q] \in Permit
    BY <1>0, <1>1, <1>2
  <1>4. permits' \in Seq(Permit)
    BY ONLY permits \in Seq(Permit), <1>2, <1>3, RewriteRows
  <1> QED
    BY <1>2, <1>4

\* Appending keeps the old rows and adds the new one at the end.
LEMMA AppendedTable ==
  ASSUME permits \in Seq(Permit), NEW p \in Permit, permits' = Append(permits, p)
  PROVE  /\ permits' \in Seq(Permit)
         /\ DOMAIN permits' = DOMAIN permits \cup {Len(permits) + 1}
         /\ Len(permits) + 1 \notin DOMAIN permits
         /\ \A q \in DOMAIN permits : q < Len(permits) + 1 /\ permits'[q] = permits[q]
         /\ permits'[Len(permits) + 1] = p
         /\ DOMAIN permits \subseteq Nat
  OBVIOUS

\* Voiding keeps every row's binding and its consumption mark.
LEMMA VoidedTable ==
  ASSUME permits \in Seq(Permit), NEW i \in Intents, VoidUnconsumedPermits(i)
  PROVE  /\ permits' \in Seq(Permit)
         /\ DOMAIN permits' = DOMAIN permits
         /\ \A q \in DOMAIN permits :
              permits'[q] = IF permits[q].intent = i /\ ~permits[q].consumed
                              THEN [permits[q] EXCEPT !.voided = TRUE] ELSE permits[q]
  <1>1. \A q \in DOMAIN permits : permits[q] \in Permit
    OBVIOUS
  <1>2. \A q \in DOMAIN permits : permits'[q] \in Permit
    BY <1>1 DEF VoidUnconsumedPermits, Permit
  <1>3. permits' = [q \in DOMAIN permits |-> permits'[q]]
    BY DEF VoidUnconsumedPermits
  <1>4. permits' \in Seq(Permit) /\ DOMAIN permits' = DOMAIN permits
    BY <1>2, <1>3, RewriteRows
  <1> QED
    BY <1>4 DEF VoidUnconsumedPermits

\* Advancing the epoch or the fence of a grant row gives a grant row.
LEMMA AdvancedRow ==
  ASSUME NEW g \in GrantRow
  PROVE  /\ [g EXCEPT !.fence = @ + 1] \in GrantRow
         /\ [g EXCEPT !.epoch = @ + 1] \in GrantRow
  BY DEF GrantRow

-----------------------------------------------------------------------------
(* The type invariant *)

\* A freshly provisioned ledger is well typed.
LEMMA TypeInit == LedgerInit => LedgerTypeOK
  BY DEF LedgerInit, LedgerTypeOK, GrantRow, Statuses

\* Every transaction of the ledger, of an issuer, a gateway, the runtime or an
\* operator, writes rows of the right shape.
LEMMA TypeStep == LedgerTypeOK /\ [LedgerNext]_ledgerVars => LedgerTypeOK'
  <1> SUFFICES ASSUME LedgerTypeOK, [LedgerNext]_ledgerVars
               PROVE  LedgerTypeOK'
    OBVIOUS
  <1> USE LedgerConstants
  <1>1. ASSUME NEW w \in Issuers, NEW i \in Intents, NEW now \in 0 .. clock,
               NEW exp \in now .. Deadline[i], AllocateFence(w, i, now, exp)
        PROVE  LedgerTypeOK'
    <2> DEFINE g == GrantOf[i]
    <2>1. g \in Grants /\ now \in Nat /\ exp \in Nat
      BY DEF LedgerTypeOK
    <2>2. grant' \in [Grants -> GrantRow]
      BY <1>1, <2>1, AdvancedRow DEF AllocateFence, LedgerTypeOK
    <2>3. [phase |-> "fenced", intent |-> i, epoch |-> grant[g].epoch,
           fence |-> grant[g].fence + 1, now |-> now, expires |-> exp,
           born |-> stops[g]] \in Ticket
      BY <2>1 DEF LedgerTypeOK, GrantRow, Ticket
    <2>4. ticket' \in [Issuers -> Ticket \cup {NoTicket}]
      BY <1>1, <2>3 DEF AllocateFence, LedgerTypeOK
    <2> QED
      BY <1>1, <2>2, <2>4 DEF AllocateFence, LedgerTypeOK
  <1>2. ASSUME NEW w \in Issuers, Recheck(w)
        PROVE  LedgerTypeOK'
    <2>1. ticket[w] \in Ticket
      BY <1>2 DEF Recheck, LedgerTypeOK, NoTicket
    <2>2. [ticket[w] EXCEPT !.phase = "checked"] \in Ticket
      BY <2>1 DEF Ticket
    <2> QED
      BY <1>2, <2>2 DEF Recheck, LedgerTypeOK
  <1>3. ASSUME NEW w \in Issuers, RecordPermit(w)
        PROVE  LedgerTypeOK'
    <2>1. ticket[w] \in Ticket
      BY <1>3 DEF RecordPermit, LedgerTypeOK, NoTicket
    <2>2. NewPermit(ticket[w]) \in Permit
      BY <2>1 DEF Ticket, NewPermit, Permit
    <2>3. permits' \in Seq(Permit) /\ DOMAIN permits \subseteq DOMAIN permits'
      BY <1>3, <2>2, AppendedTable DEF RecordPermit, LedgerTypeOK
    <2> QED
      BY <1>3, <2>3 DEF RecordPermit, LedgerTypeOK
  <1>4. ASSUME NEW w \in Issuers, AbandonIssue(w)
        PROVE  LedgerTypeOK'
    BY <1>4 DEF AbandonIssue, LedgerTypeOK
  <1>5. ASSUME NEW r \in DOMAIN permits, NEW v, VerifyPermit(r, v)
        PROVE  LedgerTypeOK'
    BY <1>5 DEF VerifyPermit, LedgerTypeOK
  <1>6. ASSUME NEW r \in DOMAIN permits, ConsumePermit(r)
        PROVE  LedgerTypeOK'
    <2>1. permits' \in Seq(Permit) /\ DOMAIN permits' = DOMAIN permits
      BY <1>6, ConsumedTable DEF ConsumePermit, LedgerTypeOK
    <2>2. permits[r] \in Permit
      BY DEF LedgerTypeOK
    <2>3. GrantAt(r) \in Grants
      BY <2>2 DEF GrantAt, Permit
    <2>4. grant' \in [Grants -> GrantRow]
      BY <1>6, <2>3, AdvancedRow DEF ConsumePermit, LedgerTypeOK
    <2> QED
      BY <1>6, <2>1, <2>4 DEF ConsumePermit, LedgerTypeOK
  <1>7. ASSUME NEW i \in Intents, VoidUnconsumedPermits(i)
        PROVE  LedgerTypeOK'
    <2>1. permits' \in Seq(Permit) /\ DOMAIN permits' = DOMAIN permits
      BY <1>7, VoidedTable DEF LedgerTypeOK
    <2> QED
      BY <1>7, <2>1 DEF VoidUnconsumedPermits, LedgerTypeOK
  <1>8. ASSUME NEW g \in Grants, NEW s \in Statuses, SetGrantStatus(g, s)
        PROVE  LedgerTypeOK'
    <2>1. grant' \in [Grants -> GrantRow]
      BY <1>8 DEF SetGrantStatus, LedgerTypeOK, GrantRow
    <2>2. stops' \in [Grants -> Nat]
      BY <1>8 DEF SetGrantStatus, LedgerTypeOK
    <2> QED
      BY <1>8, <2>1, <2>2 DEF SetGrantStatus, LedgerTypeOK
  <1>9. ASSUME NEW s \in Scopes, Halt(s)
        PROVE  LedgerTypeOK'
    <2>1. grant' \in [Grants -> GrantRow]
      BY <1>9, AdvancedRow DEF Halt, LedgerTypeOK
    <2> QED
      BY <1>9, <2>1 DEF Halt, LedgerTypeOK
  <1>10. ASSUME NEW s \in Scopes, Resume(s)
         PROVE  LedgerTypeOK'
    BY <1>10 DEF Resume, LedgerTypeOK
  <1>11. CASE Tick
    BY <1>11 DEF Tick, LedgerTypeOK
  <1>12. CASE UNCHANGED ledgerVars
    BY <1>12 DEF ledgerVars, LedgerTypeOK
  <1> QED
    BY <1>1, <1>2, <1>3, <1>4, <1>5, <1>6, <1>7, <1>8, <1>9, <1>10, <1>11, <1>12
    DEF LedgerNext, IssuerStep, GatewayStep, OperatorStep

\* Every table keeps its type in every behaviour of the permit authority, the
\* gateway, the runtime's voids and the operators' controls.
THEOREM LedgerTypeCorrect == LedgerSpec => []LedgerTypeOK
  BY TypeInit, TypeStep, PTL DEF LedgerSpec

-----------------------------------------------------------------------------
(* What a step may do to each table *)

\* The part of a permit, or of an issue in progress, that is signed.
SameBinding(p, q) ==
  /\ p.intent = q.intent /\ p.epoch = q.epoch /\ p.fence = q.fence /\ p.born = q.born

\* The grants table only advances, and every stop advances the epoch.
LEMMA GrantsAdvance ==
  ASSUME LedgerTypeOK, [LedgerNext]_ledgerVars, NEW g \in Grants
  PROVE  /\ grant[g].epoch <= grant'[g].epoch
         /\ grant[g].fence <= grant'[g].fence
         /\ grant'[g].epoch = grant[g].epoch => stops'[g] = stops[g]
  <1> USE LedgerConstants
  <1> DEFINE Advances == /\ grant[g].epoch <= grant'[g].epoch
                         /\ grant[g].fence <= grant'[g].fence
                         /\ grant'[g].epoch = grant[g].epoch => stops'[g] = stops[g]
  <1>0. grant[g].epoch \in Nat /\ grant[g].fence \in Nat
    BY DEF LedgerTypeOK, GrantRow
  <1>1. ASSUME NEW w \in Issuers, NEW i \in Intents, NEW now, NEW exp, AllocateFence(w, i, now, exp)
        PROVE  Advances
    <2>1. /\ grant'[g].epoch = grant[g].epoch
          /\ grant'[g].fence \in {grant[g].fence, grant[g].fence + 1}
          /\ stops' = stops
      BY <1>1 DEF AllocateFence, LedgerTypeOK, GrantRow
    <2> QED
      BY <1>0, <2>1
  <1>2. ASSUME NEW r \in DOMAIN permits, ConsumePermit(r)
        PROVE  Advances
    <2>1. /\ grant'[g].epoch = grant[g].epoch
          /\ grant'[g].fence \in {grant[g].fence, grant[g].fence + 1}
          /\ stops' = stops
      BY <1>2 DEF ConsumePermit, LedgerTypeOK, GrantRow
    <2> QED
      BY <1>0, <2>1
  <1>3. ASSUME NEW h \in Grants, NEW s \in Statuses, SetGrantStatus(h, s)
        PROVE  Advances
    <2>1. /\ grant'[g].fence = grant[g].fence
          /\ grant'[g].epoch = IF g = h THEN grant[g].epoch + 1 ELSE grant[g].epoch
          /\ g # h => stops'[g] = stops[g]
      BY <1>3 DEF SetGrantStatus, LedgerTypeOK, GrantRow
    <2> QED
      BY <1>0, <2>1
  <1>4. ASSUME NEW s \in Scopes, Halt(s)
        PROVE  Advances
    <2>1. /\ grant'[g].fence = grant[g].fence
          /\ grant'[g].epoch = IF Covers(s, g) THEN grant[g].epoch + 1 ELSE grant[g].epoch
          /\ ~Covers(s, g) => stops'[g] = stops[g]
      BY <1>4 DEF Halt, LedgerTypeOK, GrantRow
    <2> QED
      BY <1>0, <2>1
  <1>5. ASSUME UNCHANGED <<grant, stops>>
        PROVE  Advances
    BY <1>0, <1>5
  <1>6. ASSUME NEW w \in Issuers, Recheck(w) \/ RecordPermit(w) \/ AbandonIssue(w)
        PROVE  Advances
    BY <1>5, <1>6 DEF Recheck, RecordPermit, AbandonIssue
  <1>7. ASSUME NEW r, NEW v, VerifyPermit(r, v)
        PROVE  Advances
    BY <1>5, <1>7 DEF VerifyPermit
  <1>8. ASSUME NEW i, VoidUnconsumedPermits(i)
        PROVE  Advances
    BY <1>5, <1>8 DEF VoidUnconsumedPermits
  <1>9. ASSUME NEW s, Resume(s)
        PROVE  Advances
    BY <1>5, <1>9 DEF Resume
  <1>10. ASSUME Tick \/ UNCHANGED ledgerVars
         PROVE  Advances
    BY <1>5, <1>10 DEF Tick, ledgerVars
  <1> HIDE DEF Advances
  <1>11. Advances
    BY <1>1, <1>2, <1>3, <1>4, <1>6, <1>7, <1>8, <1>9, <1>10
    DEF LedgerNext, IssuerStep, GatewayStep, OperatorStep
  <1> QED
    BY <1>11 DEF Advances

\* The permit table grows only by RecordPermit, and no step rewrites a binding.
LEMMA PermitsFrame ==
  ASSUME LedgerTypeOK, [LedgerNext]_ledgerVars
  PROVE  \/ \E w \in Issuers : RecordPermit(w)
         \/ /\ DOMAIN permits' = DOMAIN permits
            /\ \A r \in DOMAIN permits : SameBinding(permits[r], permits'[r])
  <1>1. ASSUME NEW r \in DOMAIN permits, ConsumePermit(r)
        PROVE  /\ DOMAIN permits' = DOMAIN permits
               /\ \A q \in DOMAIN permits : SameBinding(permits[q], permits'[q])
    <2>1. \A q \in DOMAIN permits : permits[q] \in Permit
      BY DEF LedgerTypeOK
    <2> QED
      BY <1>1, <2>1, ConsumedTable DEF ConsumePermit, LedgerTypeOK, SameBinding, Permit
  <1>2. ASSUME NEW i \in Intents, VoidUnconsumedPermits(i)
        PROVE  /\ DOMAIN permits' = DOMAIN permits
               /\ \A q \in DOMAIN permits : SameBinding(permits[q], permits'[q])
    <2>1. \A q \in DOMAIN permits : permits[q] \in Permit
      BY DEF LedgerTypeOK
    <2> QED
      BY <1>2, <2>1, VoidedTable DEF LedgerTypeOK, SameBinding, Permit
  <1>3. ASSUME permits' = permits
        PROVE  /\ DOMAIN permits' = DOMAIN permits
               /\ \A q \in DOMAIN permits : SameBinding(permits[q], permits'[q])
    BY <1>3 DEF SameBinding
  <1> QED
    BY <1>1, <1>2, <1>3
    DEF LedgerNext, IssuerStep, GatewayStep, OperatorStep, AllocateFence, Recheck, AbandonIssue,
        VerifyPermit, SetGrantStatus, Halt, Resume, Tick, ledgerVars

\* An issue in progress starts only with AllocateFence; any other step ends it
\* or leaves its binding alone.
LEMMA TicketsFrame ==
  ASSUME LedgerTypeOK, [LedgerNext]_ledgerVars
  PROVE  \/ \E w \in Issuers, i \in Intents, now \in 0 .. clock : \E exp \in now .. Deadline[i] :
              AllocateFence(w, i, now, exp)
         \/ \A w \in Issuers : ticket'[w] # NoTicket =>
              ticket[w] # NoTicket /\ SameBinding(ticket[w], ticket'[w])
  <1>1. ASSUME NEW w \in Issuers, Recheck(w), NEW x \in Issuers, ticket'[x] # NoTicket
        PROVE  ticket[x] # NoTicket /\ SameBinding(ticket[x], ticket'[x])
    <2>1. ticket[w] \in Ticket /\ ticket[w] # NoTicket
      BY <1>1 DEF Recheck, LedgerTypeOK, NoTicket
    <2>2. SameBinding(ticket[w], [ticket[w] EXCEPT !.phase = "checked"])
      BY <2>1 DEF SameBinding, Ticket
    <2>3. ticket'[x] = IF x = w THEN [ticket[w] EXCEPT !.phase = "checked"] ELSE ticket[x]
      BY <1>1 DEF Recheck, LedgerTypeOK
    <2>4. SameBinding(ticket[x], ticket[x])
      BY DEF SameBinding
    <2> QED
      BY <1>1, <2>1, <2>2, <2>3, <2>4
  <1>2. ASSUME NEW w \in Issuers, ticket' = [ticket EXCEPT ![w] = NoTicket],
               NEW x \in Issuers, ticket'[x] # NoTicket
        PROVE  ticket[x] # NoTicket /\ SameBinding(ticket[x], ticket'[x])
    BY <1>2 DEF LedgerTypeOK, SameBinding
  <1>3. ASSUME ticket' = ticket, NEW x \in Issuers, ticket'[x] # NoTicket
        PROVE  ticket[x] # NoTicket /\ SameBinding(ticket[x], ticket'[x])
    BY <1>3 DEF SameBinding
  <1> QED
    BY <1>1, <1>2, <1>3
    DEF LedgerNext, IssuerStep, GatewayStep, OperatorStep, RecordPermit, AbandonIssue, VerifyPermit,
        ConsumePermit, VoidUnconsumedPermits, SetGrantStatus, Halt, Resume, Tick, ledgerVars

-----------------------------------------------------------------------------
(* Epochs date stops *)

\* Dated, with the tables it reads as arguments.
DatedBy(p, gt, st) ==
  /\ p.epoch <= gt[GrantOf[p.intent]].epoch
  /\ p.epoch = gt[GrantOf[p.intent]].epoch => p.born = st[GrantOf[p.intent]]

\* What Dated says of a binding survives every step.
LEMMA DatedStep ==
  ASSUME LedgerTypeOK, [LedgerNext]_ledgerVars, NEW p, NEW q,
         p.intent \in Intents, p.epoch \in Nat, DatedBy(p, grant, stops), SameBinding(p, q)
  PROVE  DatedBy(q, grant', stops')
  <1> DEFINE g == GrantOf[p.intent]
  <1>1. g \in Grants
    BY LedgerConstants
  <1>2. grant[g].epoch \in Nat /\ grant'[g].epoch \in Nat
    BY <1>1, TypeStep DEF LedgerTypeOK, GrantRow
  <1>3. /\ grant[g].epoch <= grant'[g].epoch
        /\ grant'[g].epoch = grant[g].epoch => stops'[g] = stops[g]
    BY <1>1, GrantsAdvance
  <1> QED
    BY <1>2, <1>3 DEF DatedBy, SameBinding

\* The types of the bindings in the tables.
LEMMA BindingTypes ==
  ASSUME LedgerTypeOK
  PROVE  /\ \A r \in DOMAIN permits : permits[r].intent \in Intents /\ permits[r].epoch \in Nat
         /\ \A w \in Issuers : ticket[w] # NoTicket =>
              ticket[w] \in Ticket /\ ticket[w].intent \in Intents /\ ticket[w].epoch \in Nat
  <1>1. \A r \in DOMAIN permits : permits[r] \in Permit
    BY DEF LedgerTypeOK
  <1>2. \A w \in Issuers : ticket[w] # NoTicket => ticket[w] \in Ticket
    BY DEF LedgerTypeOK
  <1> QED
    BY <1>1, <1>2 DEF Permit, Ticket

\* Every transaction keeps the epochs dating the stops: a stop raises the epoch
\* of all it hits, and a permit or an issue in progress takes the current one.
LEMMA EpochsStep ==
  ASSUME LedgerTypeOK, EpochsDateStops, [LedgerNext]_ledgerVars
  PROVE  EpochsDateStops'
  <1>0. /\ \A r \in DOMAIN permits : DatedBy(permits[r], grant, stops)
        /\ \A w \in Issuers : ticket[w] # NoTicket => DatedBy(ticket[w], grant, stops)
    BY DEF EpochsDateStops, Dated, DatedBy
  <1>1. \A r \in DOMAIN permits' : DatedBy(permits'[r], grant', stops')
    <2>1. ASSUME NEW w \in Issuers, RecordPermit(w)
          PROVE  \A r \in DOMAIN permits' : DatedBy(permits'[r], grant', stops')
      <3>1. ticket[w] # NoTicket /\ ticket[w] \in Ticket
        BY <2>1 DEF RecordPermit, LedgerTypeOK, NoTicket
      <3>2. NewPermit(ticket[w]) \in Permit /\ SameBinding(ticket[w], NewPermit(ticket[w]))
        BY <3>1 DEF NewPermit, Permit, Ticket, SameBinding
      <3>3. DatedBy(NewPermit(ticket[w]), grant', stops')
        BY <1>0, <3>1, <3>2, DatedStep, BindingTypes
      <3>4. \A r \in DOMAIN permits : DatedBy(permits[r], grant', stops')
        BY <1>0, DatedStep, BindingTypes DEF SameBinding
      <3> QED
        BY <2>1, <3>2, <3>3, <3>4, AppendedTable DEF RecordPermit, LedgerTypeOK
    <2>2. ASSUME DOMAIN permits' = DOMAIN permits,
                 \A r \in DOMAIN permits : SameBinding(permits[r], permits'[r])
          PROVE  \A r \in DOMAIN permits' : DatedBy(permits'[r], grant', stops')
      BY <1>0, <2>2, DatedStep, BindingTypes
    <2> QED
      BY <2>1, <2>2, PermitsFrame
  <1>2. \A w \in Issuers : ticket'[w] # NoTicket => DatedBy(ticket'[w], grant', stops')
    <2>1. ASSUME NEW w \in Issuers, NEW i \in Intents, NEW now \in 0 .. clock,
                 NEW exp \in now .. Deadline[i], AllocateFence(w, i, now, exp),
                 NEW x \in Issuers, ticket'[x] # NoTicket
          PROVE  DatedBy(ticket'[x], grant', stops')
      <3>1. CASE x = w
        <4>1. /\ ticket'[w].intent = i
              /\ ticket'[w].epoch = grant[GrantOf[i]].epoch
              /\ ticket'[w].born = stops[GrantOf[i]]
          BY <2>1 DEF AllocateFence, LedgerTypeOK
        <4>2. grant'[GrantOf[i]].epoch = grant[GrantOf[i]].epoch /\ stops' = stops
          BY <2>1, LedgerConstants DEF AllocateFence, LedgerTypeOK, GrantRow
        <4>3. grant[GrantOf[i]].epoch \in Nat
          BY LedgerConstants DEF LedgerTypeOK, GrantRow
        <4> QED
          BY <3>1, <4>1, <4>2, <4>3 DEF DatedBy
      <3>2. CASE x # w
        <4>1. ticket'[x] = ticket[x]
          BY <2>1, <3>2 DEF AllocateFence, LedgerTypeOK
        <4> QED
          BY <1>0, <2>1, <4>1, DatedStep, BindingTypes DEF SameBinding
      <3> QED
        BY <3>1, <3>2
    <2>2. ASSUME NEW x \in Issuers, ticket'[x] # NoTicket,
                 ticket[x] # NoTicket /\ SameBinding(ticket[x], ticket'[x])
          PROVE  DatedBy(ticket'[x], grant', stops')
      BY <1>0, <2>2, DatedStep, BindingTypes
    <2> QED
      BY <2>1, <2>2, TicketsFrame
  <1> QED
    BY <1>1, <1>2 DEF EpochsDateStops, Dated, DatedBy, NoTicket

\* Without permits and issues in progress there is nothing to date.
LEMMA EpochsInit == LedgerInit => EpochsDateStops
  BY DEF LedgerInit, EpochsDateStops, NoTicket

\* Only a permit whose epoch is the grant's is consumed, and such a permit has
\* seen no stop.
LEMMA ConsumptionStep ==
  ASSUME LedgerTypeOK, EpochsDateStops, [LedgerNext]_ledgerVars,
         NEW r \in DOMAIN permits, ConsumedPermit(r)
  PROVE  permits[r].born = stops[GrantAt(r)]
  <1>0. \A q \in DOMAIN permits : permits[q] \in Permit
    BY DEF LedgerTypeOK
  <1>1. ASSUME NEW q \in DOMAIN permits, ConsumePermit(q)
        PROVE  permits[r].epoch = grant[GrantAt(r)].epoch
    <2>1. q = r
      BY <1>0, <1>1, ConsumedTable DEF ConsumedPermit, ConsumePermit, LedgerTypeOK
    <2> QED
      BY <1>1, <2>1 DEF ConsumePermit, Consumable
  <1>2. ASSUME NEW w \in Issuers, RecordPermit(w)
        PROVE  FALSE
    <2>1. permits'[r] = permits[r]
      BY <1>2 DEF RecordPermit, LedgerTypeOK
    <2> QED
      BY <2>1 DEF ConsumedPermit
  <1>3. ASSUME NEW i \in Intents, VoidUnconsumedPermits(i)
        PROVE  FALSE
    BY <1>0, <1>3, VoidedTable DEF ConsumedPermit, LedgerTypeOK, Permit
  <1>4. ASSUME permits' = permits
        PROVE  FALSE
    BY <1>4 DEF ConsumedPermit
  <1>5. permits[r].epoch = grant[GrantAt(r)].epoch
    BY <1>1, <1>2, <1>3, <1>4
    DEF LedgerNext, IssuerStep, GatewayStep, OperatorStep, AllocateFence, Recheck, AbandonIssue,
        VerifyPermit, SetGrantStatus, Halt, Resume, Tick, ledgerVars
  <1> QED
    BY <1>5 DEF EpochsDateStops, Dated, GrantAt

\* A pause, a revocation or a halt kills every permit whose fence was allocated
\* before it, for good: whatever the interleaving of issuers, gateways and
\* operators, and however often the scope is resumed afterwards.
THEOREM StopKillsPermits == LedgerSpec => NoConsumptionAcrossAStop
  <1> DEFINE Harmless == \A r \in DOMAIN permits :
                           ConsumedPermit(r) => permits[r].born = stops[GrantAt(r)]
  <1>1. LedgerInit => LedgerTypeOK /\ EpochsDateStops
    BY TypeInit, EpochsInit
  <1>2. (LedgerTypeOK /\ EpochsDateStops) /\ [LedgerNext]_ledgerVars
          => (LedgerTypeOK /\ EpochsDateStops)'
    BY TypeStep, EpochsStep
  <1>3. (LedgerTypeOK /\ EpochsDateStops) /\ [LedgerNext]_ledgerVars => [Harmless]_ledgerVars
    BY ConsumptionStep
  <1> QED
    BY <1>1, <1>2, <1>3, PTL DEF LedgerSpec, NoConsumptionAcrossAStop

-----------------------------------------------------------------------------
(* Fences *)

FenceInv == LedgerTypeOK /\ FencesAllocated /\ FencesUnique

\* Without permits and issues in progress no fence is in use.
LEMMA FencesInit == LedgerInit => FencesAllocated /\ FencesUnique
  BY DEF LedgerInit, FencesAllocated, FencesUnique, NoTicket

\* A step that records nothing and allocates nothing keeps every binding.
LEMMA FencesKept ==
  ASSUME FenceInv, [LedgerNext]_ledgerVars,
         DOMAIN permits' = DOMAIN permits,
         \A r \in DOMAIN permits : SameBinding(permits[r], permits'[r]),
         \A w \in Issuers : ticket'[w] # NoTicket =>
           ticket[w] # NoTicket /\ SameBinding(ticket[w], ticket'[w])
  PROVE  FencesAllocated' /\ FencesUnique'
  <1>1. \A g \in Grants : /\ grant[g].fence <= grant'[g].fence
                          /\ grant[g].fence \in Nat /\ grant'[g].fence \in Nat
    BY GrantsAdvance, TypeStep DEF FenceInv, LedgerTypeOK, GrantRow
  <1>2. /\ \A r \in DOMAIN permits : permits[r].fence \in Nat /\ GrantAt(r) \in Grants
        /\ \A w \in Issuers : ticket[w] # NoTicket =>
             ticket[w].fence \in Nat /\ GrantOf[ticket[w].intent] \in Grants
    <2>1. \A r \in DOMAIN permits : permits[r] \in Permit
      BY DEF FenceInv, LedgerTypeOK
    <2> QED
      BY <2>1, BindingTypes, LedgerConstants DEF FenceInv, GrantAt, Permit, Ticket
  <1>3. \A r \in DOMAIN permits' : permits'[r].fence <= grant'[GrantOf[permits'[r].intent]].fence
    BY <1>1, <1>2 DEF FenceInv, FencesAllocated, SameBinding, GrantAt
  <1>4. ASSUME NEW w \in Issuers, ticket'[w] # NoTicket
        PROVE  /\ ticket'[w].fence <= grant'[GrantOf[ticket'[w].intent]].fence
               /\ \A r \in DOMAIN permits' :
                    SameGrant(ticket'[w], permits'[r]) => ticket'[w].fence # permits'[r].fence
               /\ \A x \in Issuers \ {w} :
                    (ticket'[x] # NoTicket /\ SameGrant(ticket'[w], ticket'[x]))
                      => ticket'[w].fence # ticket'[x].fence
    BY <1>1, <1>2, <1>4 DEF FenceInv, FencesAllocated, SameBinding, SameGrant
  <1>5. FencesUnique'
    BY DEF FenceInv, FencesUnique, SameBinding, GrantAt
  <1> QED
    BY <1>3, <1>4, <1>5 DEF FencesAllocated, SameGrant, GrantAt, NoTicket

\* next_execution_fence hands out a fence above all in use.
LEMMA FencesAfterAllocate ==
  ASSUME FenceInv, NEW w \in Issuers, NEW i \in Intents, NEW now \in 0 .. clock,
         NEW exp \in now .. Deadline[i], AllocateFence(w, i, now, exp)
  PROVE  FencesAllocated' /\ FencesUnique'
  <1> DEFINE g == GrantOf[i]
  <1>0. g \in Grants
    BY LedgerConstants
  <1>1. /\ \A r \in DOMAIN permits : permits[r].fence \in Nat /\ GrantAt(r) \in Grants
        /\ \A x \in Issuers : ticket[x] # NoTicket =>
             ticket[x].fence \in Nat /\ GrantOf[ticket[x].intent] \in Grants
    <2>1. \A r \in DOMAIN permits : permits[r] \in Permit
      BY DEF FenceInv, LedgerTypeOK
    <2> QED
      BY <2>1, BindingTypes, LedgerConstants DEF FenceInv, GrantAt, Permit, Ticket
  <1>2. /\ permits' = permits
        /\ \A h \in Grants : /\ grant[h].fence \in Nat
                             /\ grant'[h].fence = IF h = g THEN grant[g].fence + 1 ELSE grant[h].fence
        /\ \A x \in Issuers \ {w} : ticket'[x] = ticket[x]
        /\ ticket[w] = NoTicket
        /\ ticket'[w].intent = i
        /\ ticket'[w].fence = grant[g].fence + 1
    BY <1>0 DEF AllocateFence, FenceInv, LedgerTypeOK, GrantRow
  <1>3. \A r \in DOMAIN permits' : permits'[r].fence <= grant'[GrantOf[permits'[r].intent]].fence
    BY <1>1, <1>2 DEF FenceInv, FencesAllocated, GrantAt
  <1>4. ASSUME NEW x \in Issuers, ticket'[x] # NoTicket
        PROVE  /\ ticket'[x].fence <= grant'[GrantOf[ticket'[x].intent]].fence
               /\ \A r \in DOMAIN permits' :
                    SameGrant(ticket'[x], permits'[r]) => ticket'[x].fence # permits'[r].fence
               /\ \A y \in Issuers \ {x} :
                    (ticket'[y] # NoTicket /\ SameGrant(ticket'[x], ticket'[y]))
                      => ticket'[x].fence # ticket'[y].fence
    <2>1. CASE x = w
      BY <1>0, <1>1, <1>2, <1>4, <2>1 DEF FenceInv, FencesAllocated, SameGrant, GrantAt
    <2>2. CASE x # w
      BY <1>0, <1>1, <1>2, <1>4, <2>2 DEF FenceInv, FencesAllocated, SameGrant
    <2> QED
      BY <2>1, <2>2
  <1>5. FencesUnique'
    BY <1>2 DEF FenceInv, FencesUnique, GrantAt
  <1> QED
    BY <1>3, <1>4, <1>5 DEF FencesAllocated, SameGrant, GrantAt, NoTicket

\* record_execution_permit moves the issuer's own fence into the table.
LEMMA FencesAfterRecord ==
  ASSUME FenceInv, NEW w \in Issuers, RecordPermit(w)
  PROVE  FencesAllocated' /\ FencesUnique'
  <1> DEFINE n == Len(permits) + 1
  <1>1. ticket[w] # NoTicket /\ ticket[w] \in Ticket
    BY DEF RecordPermit, FenceInv, LedgerTypeOK, NoTicket
  <1>2. NewPermit(ticket[w]) \in Permit /\ SameBinding(ticket[w], NewPermit(ticket[w]))
    BY <1>1 DEF NewPermit, Permit, Ticket, SameBinding
  <1>3. /\ DOMAIN permits' = DOMAIN permits \cup {n}
        /\ n \notin DOMAIN permits
        /\ \A q \in DOMAIN permits : permits'[q] = permits[q]
        /\ permits'[n] = NewPermit(ticket[w])
    BY <1>2, AppendedTable DEF RecordPermit, FenceInv, LedgerTypeOK
  <1>4. /\ grant' = grant
        /\ \A x \in Issuers : ticket'[x] # NoTicket => x # w /\ ticket'[x] = ticket[x]
    BY DEF RecordPermit, FenceInv, LedgerTypeOK
  <1>5. \A r \in DOMAIN permits' : permits'[r].fence <= grant'[GrantOf[permits'[r].intent]].fence
    BY <1>1, <1>2, <1>3, <1>4 DEF FenceInv, FencesAllocated, GrantAt, SameBinding
  <1>6. ASSUME NEW x \in Issuers, ticket'[x] # NoTicket
        PROVE  /\ ticket'[x].fence <= grant'[GrantOf[ticket'[x].intent]].fence
               /\ \A r \in DOMAIN permits' :
                    SameGrant(ticket'[x], permits'[r]) => ticket'[x].fence # permits'[r].fence
               /\ \A y \in Issuers \ {x} :
                    (ticket'[y] # NoTicket /\ SameGrant(ticket'[x], ticket'[y]))
                      => ticket'[x].fence # ticket'[y].fence
    BY <1>1, <1>2, <1>3, <1>4, <1>6 DEF FenceInv, FencesAllocated, SameGrant, SameBinding
  <1>7. FencesUnique'
    BY <1>1, <1>2, <1>3 DEF FenceInv, FencesAllocated, FencesUnique, SameGrant, GrantAt, SameBinding
  <1> QED
    BY <1>5, <1>6, <1>7 DEF FencesAllocated, SameGrant, GrantAt, NoTicket

\* Fences stay unique and allocated through every transaction.
LEMMA FencesStep ==
  ASSUME FenceInv, [LedgerNext]_ledgerVars
  PROVE  FenceInv'
  <1>1. LedgerTypeOK'
    BY TypeStep DEF FenceInv
  <1>2. CASE \E w \in Issuers : RecordPermit(w)
    BY <1>1, <1>2, FencesAfterRecord DEF FenceInv
  <1>3. CASE \E w \in Issuers, i \in Intents, now \in 0 .. clock : \E exp \in now .. Deadline[i] :
               AllocateFence(w, i, now, exp)
    BY <1>1, <1>3, FencesAfterAllocate DEF FenceInv
  <1>4. CASE /\ DOMAIN permits' = DOMAIN permits
             /\ \A r \in DOMAIN permits : SameBinding(permits[r], permits'[r])
             /\ \A w \in Issuers : ticket'[w] # NoTicket =>
                  ticket[w] # NoTicket /\ SameBinding(ticket[w], ticket'[w])
    BY <1>1, <1>4, FencesKept DEF FenceInv
  <1> QED
    BY <1>2, <1>3, <1>4, PermitsFrame, TicketsFrame DEF FenceInv

\* Concurrent issuers never mint two permits of a grant version with one fence.
THEOREM FencesNeverReused == LedgerSpec => []FencesUnique
  <1>1. LedgerInit => FenceInv
    BY TypeInit, FencesInit DEF FenceInv
  <1>2. FenceInv /\ [LedgerNext]_ledgerVars => FenceInv'
    BY FencesStep
  <1>3. FenceInv => FencesUnique
    BY DEF FenceInv
  <1> QED
    BY <1>1, <1>2, <1>3, PTL DEF LedgerSpec

-----------------------------------------------------------------------------
(* Void against consume, and the windows of retries *)

TableInv == LedgerTypeOK /\ VoidOrConsumedNotBoth /\ WindowsDisjoint

\* No transaction both voids and consumes a permit, and a permit is recorded only
\* when no earlier one of its intent is live.
LEMMA TableStep ==
  ASSUME TableInv, [LedgerNext]_ledgerVars
  PROVE  TableInv'
  <1>0. /\ LedgerTypeOK'
        /\ permits \in Seq(Permit)
        /\ \A q \in DOMAIN permits : permits[q] \in Permit
    BY TypeStep DEF TableInv, LedgerTypeOK
  <1>1. ASSUME NEW w \in Issuers, RecordPermit(w)
        PROVE  VoidOrConsumedNotBoth' /\ WindowsDisjoint'
    <2> DEFINE n == Len(permits) + 1
               t == ticket[w]
    <2>1. t \in Ticket
      BY <1>1 DEF RecordPermit, TableInv, LedgerTypeOK, NoTicket
    <2>2. NewPermit(t) \in Permit
      BY <2>1 DEF NewPermit, Permit, Ticket
    <2>3. /\ DOMAIN permits' = DOMAIN permits \cup {n}
          /\ n \notin DOMAIN permits
          /\ \A q \in DOMAIN permits : q < n /\ permits'[q] = permits[q]
          /\ permits'[n] = NewPermit(t)
          /\ DOMAIN permits \subseteq Nat
      BY <1>0, <1>1, <2>2, AppendedTable DEF RecordPermit
    <2>4. ASSUME NEW r \in DOMAIN permits, permits[r].intent = t.intent,
                 ~permits[r].consumed, ~permits[r].voided
          PROVE  permits[r].expires + MaxClockSkew <= t.now
      <3>1. ~(permits[r].expires + MaxClockSkew > t.now)
        BY <1>1, <2>4 DEF RecordPermit, Live
      <3>2. permits[r].expires \in Nat /\ t.now \in Nat
        BY <1>0, <2>1 DEF Permit, Ticket
      <3> QED
        BY <3>1, <3>2, LedgerConstants
    <2>5. VoidOrConsumedNotBoth'
      BY <2>3 DEF TableInv, VoidOrConsumedNotBoth, NewPermit
    <2>6. ASSUME NEW r \in DOMAIN permits', NEW q \in DOMAIN permits', r < q,
                 permits'[r].intent = permits'[q].intent,
                 ~permits'[r].consumed, ~permits'[r].voided
          PROVE  permits'[r].expires + MaxClockSkew <= permits'[q].issued
      <3>1. r \in DOMAIN permits
        BY <2>3, <2>6
      <3>2. CASE q = n
        BY <2>3, <2>4, <2>6, <3>1, <3>2 DEF NewPermit
      <3>3. CASE q # n
        BY <2>3, <2>6, <3>1, <3>3 DEF TableInv, WindowsDisjoint
      <3> QED
        BY <3>2, <3>3
    <2> QED
      BY <2>5, <2>6 DEF WindowsDisjoint
  <1>2. ASSUME NEW r \in DOMAIN permits, ConsumePermit(r)
        PROVE  VoidOrConsumedNotBoth' /\ WindowsDisjoint'
    <2>1. /\ DOMAIN permits' = DOMAIN permits
          /\ \A q \in DOMAIN permits :
               /\ permits'[q].intent = permits[q].intent
               /\ permits'[q].voided = permits[q].voided
               /\ permits'[q].expires = permits[q].expires
               /\ permits'[q].issued = permits[q].issued
               /\ q = r \/ permits'[q].consumed = permits[q].consumed
          /\ permits'[r].consumed
          /\ ~permits[r].voided
      BY <1>0, <1>2, ConsumedTable DEF ConsumePermit, Consumable, Permit
    <2> QED
      BY <2>1 DEF TableInv, VoidOrConsumedNotBoth, WindowsDisjoint
  <1>3. ASSUME NEW i \in Intents, VoidUnconsumedPermits(i)
        PROVE  VoidOrConsumedNotBoth' /\ WindowsDisjoint'
    <2>1. /\ DOMAIN permits' = DOMAIN permits
          /\ \A q \in DOMAIN permits :
               /\ permits'[q].intent = permits[q].intent
               /\ permits'[q].consumed = permits[q].consumed
               /\ permits'[q].expires = permits[q].expires
               /\ permits'[q].issued = permits[q].issued
               /\ permits'[q].voided => permits[q].voided \/ ~permits[q].consumed
               /\ permits[q].voided => permits'[q].voided
      BY <1>0, <1>3, VoidedTable DEF Permit
    <2> QED
      BY <2>1 DEF TableInv, VoidOrConsumedNotBoth, WindowsDisjoint
  <1>4. ASSUME permits' = permits
        PROVE  VoidOrConsumedNotBoth' /\ WindowsDisjoint'
    BY <1>4 DEF TableInv, VoidOrConsumedNotBoth, WindowsDisjoint
  <1>5. VoidOrConsumedNotBoth' /\ WindowsDisjoint'
    BY <1>1, <1>2, <1>3, <1>4
    DEF LedgerNext, IssuerStep, GatewayStep, OperatorStep, AllocateFence, Recheck, AbandonIssue,
        VerifyPermit, SetGrantStatus, Halt, Resume, Tick, ledgerVars
  <1> QED
    BY <1>0, <1>5 DEF TableInv

\* An empty permit table has no conflicts.
LEMMA TableInit == LedgerInit => VoidOrConsumedNotBoth /\ WindowsDisjoint
  BY DEF LedgerInit, VoidOrConsumedNotBoth, WindowsDisjoint

\* Voiding and consumption decide each permit once, and the permits of an
\* intent's attempts do not overlap in time.
THEOREM PermitTableCorrect == LedgerSpec => [](VoidOrConsumedNotBoth /\ WindowsDisjoint)
  <1>1. LedgerInit => TableInv
    BY TypeInit, TableInit DEF TableInv
  <1>2. TableInv /\ [LedgerNext]_ledgerVars => TableInv'
    BY TableStep
  <1>3. TableInv => VoidOrConsumedNotBoth /\ WindowsDisjoint
    BY DEF TableInv
  <1> QED
    BY <1>1, <1>2, <1>3, PTL DEF LedgerSpec

\* The whole inductive invariant, for the modules that build on the ledger: it
\* holds of a fresh ledger, and every transaction keeps it.
LEMMA LedgerInvInit == LedgerInit => LedgerInv
  BY TypeInit, EpochsInit, FencesInit, TableInit DEF LedgerInv

\* See LedgerInvInit.
LEMMA LedgerInvStep == LedgerInv /\ [LedgerNext]_ledgerVars => LedgerInv'
  BY TypeStep, EpochsStep, FencesStep, TableStep DEF LedgerInv, FenceInv, TableInv

\* Every permit, issue in progress and grant row obeys the ledger's invariant at all
\* times, whatever issuers, gateways and operators do.
THEOREM LedgerInvariant == LedgerSpec => []LedgerInv
  BY LedgerInvInit, LedgerInvStep, PTL DEF LedgerSpec

-----------------------------------------------------------------------------
(* Fences count events *)

\* The events of a grant, of given tables: permits, consumptions, issues in progress.
RowsOf(p, g) == {r \in DOMAIN p : GrantOf[p[r].intent] = g}
UsedOf(p, g) == {r \in RowsOf(p, g) : p[r].consumed}
IssuingIn(k) == {w \in Issuers : k[w] # NoTicket}
OpenOf(k, g) == {w \in IssuingIn(k) : GrantOf[k[w].intent] = g}
Events(p, k, g) ==
  Cardinality(RowsOf(p, g)) + Cardinality(UsedOf(p, g)) + Cardinality(OpenOf(k, g))

CountInv ==
  /\ LedgerTypeOK
  /\ IsFiniteSet(IssuingIn(ticket))
  /\ \A g \in Grants : Events(permits, ticket, g) <= grant[g].fence

\* The sets counted are finite.
LEMMA EventSets ==
  ASSUME NEW p \in Seq(Permit), NEW k, IsFiniteSet(IssuingIn(k)), NEW g
  PROVE  /\ IsFiniteSet(RowsOf(p, g)) /\ IsFiniteSet(UsedOf(p, g)) /\ IsFiniteSet(OpenOf(k, g))
         /\ Cardinality(RowsOf(p, g)) \in Nat /\ Cardinality(UsedOf(p, g)) \in Nat
         /\ Cardinality(OpenOf(k, g)) \in Nat /\ Events(p, k, g) \in Nat
  <1>1. IsFiniteSet(1 .. Len(p)) /\ DOMAIN p = 1 .. Len(p)
    BY FS_Interval
  <1>2. RowsOf(p, g) \subseteq 1 .. Len(p) /\ UsedOf(p, g) \subseteq 1 .. Len(p)
    BY <1>1 DEF RowsOf, UsedOf
  <1>3. OpenOf(k, g) \subseteq IssuingIn(k)
    BY DEF OpenOf
  <1>4. IsFiniteSet(RowsOf(p, g)) /\ IsFiniteSet(UsedOf(p, g)) /\ IsFiniteSet(OpenOf(k, g))
    BY <1>1, <1>2, <1>3, FS_Subset
  <1>5. /\ Cardinality(RowsOf(p, g)) \in Nat /\ Cardinality(UsedOf(p, g)) \in Nat
        /\ Cardinality(OpenOf(k, g)) \in Nat
    BY <1>4, FS_CardinalityType
  <1> QED
    BY <1>4, <1>5 DEF Events

\* A step that adds to no set adds no event.
LEMMA EventsFewer ==
  ASSUME NEW p \in Seq(Permit), NEW k, IsFiniteSet(IssuingIn(k)),
         NEW p2 \in Seq(Permit), NEW k2, IsFiniteSet(IssuingIn(k2)), NEW g,
         RowsOf(p2, g) \subseteq RowsOf(p, g), UsedOf(p2, g) \subseteq UsedOf(p, g),
         OpenOf(k2, g) \subseteq OpenOf(k, g)
  PROVE  Events(p2, k2, g) <= Events(p, k, g)
  <1>1. /\ IsFiniteSet(RowsOf(p, g)) /\ IsFiniteSet(UsedOf(p, g)) /\ IsFiniteSet(OpenOf(k, g))
        /\ Cardinality(RowsOf(p, g)) \in Nat /\ Cardinality(UsedOf(p, g)) \in Nat
        /\ Cardinality(OpenOf(k, g)) \in Nat
    BY EventSets
  <1>2. /\ Cardinality(RowsOf(p2, g)) \in Nat /\ Cardinality(UsedOf(p2, g)) \in Nat
        /\ Cardinality(OpenOf(k2, g)) \in Nat
    BY EventSets
  <1>3. /\ Cardinality(RowsOf(p2, g)) <= Cardinality(RowsOf(p, g))
        /\ Cardinality(UsedOf(p2, g)) <= Cardinality(UsedOf(p, g))
        /\ Cardinality(OpenOf(k2, g)) <= Cardinality(OpenOf(k, g))
    BY <1>1, FS_Subset
  <1> QED
    BY <1>1, <1>2, <1>3 DEF Events

\* A step that adds one issue or one consumption adds one event.
LEMMA EventsOneMore ==
  ASSUME NEW p \in Seq(Permit), NEW k, IsFiniteSet(IssuingIn(k)),
         NEW p2 \in Seq(Permit), NEW k2, IsFiniteSet(IssuingIn(k2)), NEW g, NEW x,
         RowsOf(p2, g) = RowsOf(p, g),
         \/ UsedOf(p2, g) = UsedOf(p, g) /\ OpenOf(k2, g) \subseteq OpenOf(k, g) \cup {x}
         \/ UsedOf(p2, g) \subseteq UsedOf(p, g) \cup {x} /\ OpenOf(k2, g) = OpenOf(k, g)
  PROVE  Events(p2, k2, g) <= Events(p, k, g) + 1
  <1>1. /\ IsFiniteSet(RowsOf(p, g)) /\ IsFiniteSet(UsedOf(p, g)) /\ IsFiniteSet(OpenOf(k, g))
        /\ Cardinality(RowsOf(p, g)) \in Nat /\ Cardinality(UsedOf(p, g)) \in Nat
        /\ Cardinality(OpenOf(k, g)) \in Nat
    BY EventSets
  <1>2. /\ Cardinality(UsedOf(p2, g)) \in Nat /\ Cardinality(OpenOf(k2, g)) \in Nat
    BY EventSets
  <1>3. ASSUME NEW S, IsFiniteSet(S), NEW T, IsFiniteSet(T), T \subseteq S \cup {x}
        PROVE  Cardinality(T) <= Cardinality(S) + 1
    <2>1. /\ IsFiniteSet(S \cup {x})
          /\ Cardinality(S \cup {x}) = IF x \in S THEN Cardinality(S) ELSE Cardinality(S) + 1
      BY <1>3, FS_AddElement
    <2>2. Cardinality(T) <= Cardinality(S \cup {x})
      BY <1>3, <2>1, FS_Subset
    <2>3. Cardinality(T) \in Nat /\ Cardinality(S) \in Nat
      BY <1>3, FS_CardinalityType
    <2> QED
      BY <2>1, <2>2, <2>3
  <1>4. IsFiniteSet(UsedOf(p2, g)) /\ IsFiniteSet(OpenOf(k2, g))
    BY EventSets
  <1>5. CASE UsedOf(p2, g) = UsedOf(p, g) /\ OpenOf(k2, g) \subseteq OpenOf(k, g) \cup {x}
    <2>1. Cardinality(OpenOf(k2, g)) <= Cardinality(OpenOf(k, g)) + 1
      BY <1>1, <1>3, <1>4, <1>5
    <2> QED
      BY <1>1, <1>2, <1>5, <2>1 DEF Events
  <1>6. CASE UsedOf(p2, g) \subseteq UsedOf(p, g) \cup {x} /\ OpenOf(k2, g) = OpenOf(k, g)
    <2>1. Cardinality(UsedOf(p2, g)) <= Cardinality(UsedOf(p, g)) + 1
      BY <1>1, <1>3, <1>4, <1>6
    <2> QED
      BY <1>1, <1>2, <1>6, <2>1 DEF Events
  <1> QED
    BY <1>5, <1>6

\* A permit that an issue in progress becomes is no new event.
LEMMA EventsMoved ==
  ASSUME NEW p \in Seq(Permit), NEW k, IsFiniteSet(IssuingIn(k)),
         NEW p2 \in Seq(Permit), NEW k2, IsFiniteSet(IssuingIn(k2)), NEW g, NEW n, NEW w,
         RowsOf(p2, g) \subseteq RowsOf(p, g) \cup {n}, UsedOf(p2, g) = UsedOf(p, g),
         w \in OpenOf(k, g), OpenOf(k2, g) \subseteq OpenOf(k, g) \ {w}
  PROVE  Events(p2, k2, g) <= Events(p, k, g)
  <1>1. /\ IsFiniteSet(RowsOf(p, g)) /\ IsFiniteSet(UsedOf(p, g)) /\ IsFiniteSet(OpenOf(k, g))
        /\ Cardinality(RowsOf(p, g)) \in Nat /\ Cardinality(UsedOf(p, g)) \in Nat
        /\ Cardinality(OpenOf(k, g)) \in Nat
    BY EventSets
  <1>2. /\ Cardinality(RowsOf(p2, g)) \in Nat /\ Cardinality(OpenOf(k2, g)) \in Nat
    BY EventSets
  <1>3. Cardinality(RowsOf(p2, g)) <= Cardinality(RowsOf(p, g)) + 1
    <2> DEFINE S == RowsOf(p, g)
    <2>1. /\ IsFiniteSet(S \cup {n})
          /\ Cardinality(S \cup {n}) = IF n \in S THEN Cardinality(S) ELSE Cardinality(S) + 1
      BY <1>1, FS_AddElement
    <2>2. Cardinality(RowsOf(p2, g)) <= Cardinality(S \cup {n})
      BY <2>1, FS_Subset
    <2> HIDE DEF S
    <2>3. Cardinality(S) \in Nat
      BY <1>1 DEF S
    <2>4. Cardinality(RowsOf(p2, g)) <= Cardinality(S) + 1
      BY <1>2, <2>1, <2>2, <2>3
    <2> QED
      BY <2>4 DEF S
  <1>4. Cardinality(OpenOf(k2, g)) <= Cardinality(OpenOf(k, g)) - 1
    <2>1. /\ IsFiniteSet(OpenOf(k, g) \ {w})
          /\ Cardinality(OpenOf(k, g) \ {w}) = Cardinality(OpenOf(k, g)) - 1
      BY <1>1, FS_RemoveElement
    <2> QED
      BY <2>1, FS_Subset
  <1> QED
    BY <1>1, <1>2, <1>3, <1>4 DEF Events

\* At the start nothing is counted.
LEMMA CountInit == LedgerInit => CountInv
  <1> SUFFICES ASSUME LedgerInit PROVE CountInv
    OBVIOUS
  <1>1. permits = << >> /\ \A w \in Issuers : ticket[w] = NoTicket
    BY DEF LedgerInit
  <1>2. IssuingIn(ticket) = {}
    BY <1>1 DEF IssuingIn
  <1>3. ASSUME NEW g \in Grants
        PROVE  Events(permits, ticket, g) = 0 /\ grant[g].fence = 0
    <2>1. RowsOf(permits, g) = {} /\ OpenOf(ticket, g) = {}
      BY <1>1, <1>2 DEF RowsOf, OpenOf
    <2>2. UsedOf(permits, g) = {}
      BY <2>1 DEF UsedOf
    <2>3. Cardinality({}) = 0
      BY FS_EmptySet
    <2>4. Events(permits, ticket, g) = 0
      BY <2>1, <2>2, <2>3 DEF Events
    <2>5. grant[g].fence = 0
      BY DEF LedgerInit
    <2> QED
      BY <2>4, <2>5
  <1> QED
    BY <1>2, <1>3, TypeInit, FS_EmptySet DEF CountInv

\* Allocation opens one issue and raises the counter.
LEMMA CountAllocate ==
  ASSUME CountInv, LedgerTypeOK', NEW w \in Issuers, NEW i \in Intents, NEW now \in 0 .. clock,
         NEW exp \in now .. Deadline[i], AllocateFence(w, i, now, exp)
  PROVE  CountInv'
  <1> DEFINE g0 == GrantOf[i]
  <1>0. g0 \in Grants /\ LedgerTypeOK
    BY LedgerConstants DEF CountInv
  <1>1. /\ permits' = permits /\ grant' = [grant EXCEPT ![g0].fence = @ + 1]
        /\ \A x \in Issuers \ {w} : ticket'[x] = ticket[x]
        /\ ticket'[w].intent = i
    BY <1>0 DEF AllocateFence, LedgerTypeOK
  <1>2. IsFiniteSet(IssuingIn(ticket'))
    <2>1. IssuingIn(ticket') \subseteq IssuingIn(ticket) \cup {w}
      BY <1>1 DEF IssuingIn
    <2>2. IsFiniteSet(IssuingIn(ticket) \cup {w})
      BY FS_AddElement DEF CountInv
    <2> QED
      BY <2>1, <2>2, FS_Subset
  <1>3. ASSUME NEW g \in Grants
        PROVE  Events(permits', ticket', g) <= grant'[g].fence
    <2>0. /\ permits \in Seq(Permit) /\ grant[g].fence \in Nat /\ IsFiniteSet(IssuingIn(ticket))
          /\ Events(permits, ticket, g) <= grant[g].fence
      BY <1>0 DEF CountInv, LedgerTypeOK, GrantRow
    <2>1. Events(permits, ticket, g) \in Nat /\ Events(permits, ticket', g) \in Nat
      BY <1>2, <2>0, EventSets
    <2>2. CASE g = g0
      <3>1. grant'[g].fence = grant[g].fence + 1
        BY <1>0, <1>1, <2>2 DEF LedgerTypeOK, GrantRow
      <3>2. OpenOf(ticket', g) \subseteq OpenOf(ticket, g) \cup {w}
        BY <1>1 DEF OpenOf, IssuingIn
      <3>3. Events(permits, ticket', g) <= Events(permits, ticket, g) + 1
        BY <1>2, <2>0, <3>2, EventsOneMore
      <3> QED
        BY <1>1, <2>0, <2>1, <3>1, <3>3
    <2>3. CASE g # g0
      <3>1. grant'[g] = grant[g]
        BY <1>0, <1>1, <2>3 DEF LedgerTypeOK
      <3>2. OpenOf(ticket', g) \subseteq OpenOf(ticket, g)
        BY <1>1, <2>3 DEF OpenOf, IssuingIn
      <3>3. Events(permits, ticket', g) <= Events(permits, ticket, g)
        BY <1>2, <2>0, <3>2, EventsFewer
      <3> QED
        BY <1>1, <2>0, <2>1, <3>1, <3>3
    <2> QED
      BY <2>2, <2>3
  <1> QED
    BY <1>2, <1>3 DEF CountInv

\* Recording turns an issue into a permit.
LEMMA CountRecord ==
  ASSUME CountInv, LedgerTypeOK', NEW w \in Issuers, RecordPermit(w)
  PROVE  CountInv'
  <1> DEFINE n == Len(permits) + 1
             np == NewPermit(ticket[w])
  <1>0. LedgerTypeOK /\ ticket[w] # NoTicket /\ ticket[w] \in Ticket
    BY DEF CountInv, RecordPermit, LedgerTypeOK, NoTicket
  <1>1. /\ permits' = Append(permits, np) /\ grant' = grant
        /\ \A x \in Issuers : ticket'[x] = IF x = w THEN NoTicket ELSE ticket[x]
    BY <1>0 DEF RecordPermit, LedgerTypeOK
  <1>2. np \in Permit /\ np.intent = ticket[w].intent /\ ~np.consumed
    BY <1>0 DEF NewPermit, Permit, Ticket
  <1> HIDE DEF np
  <1>3. /\ DOMAIN permits' = DOMAIN permits \cup {n} /\ permits'[n] = np
        /\ \A q \in DOMAIN permits : permits'[q] = permits[q]
        /\ n \notin DOMAIN permits /\ permits' \in Seq(Permit)
    BY <1>0, <1>1, <1>2, AppendedTable DEF LedgerTypeOK
  <1> HIDE DEF n
  <1>4. IsFiniteSet(IssuingIn(ticket'))
    <2>1. IssuingIn(ticket') \subseteq IssuingIn(ticket)
      BY <1>1 DEF IssuingIn
    <2> QED
      BY <2>1, FS_Subset DEF CountInv
  <1>5. ASSUME NEW g \in Grants
        PROVE  Events(permits', ticket', g) <= grant'[g].fence
    <2>0. /\ permits \in Seq(Permit) /\ grant[g].fence \in Nat /\ IsFiniteSet(IssuingIn(ticket))
          /\ Events(permits, ticket, g) <= grant[g].fence
      BY <1>0 DEF CountInv, LedgerTypeOK, GrantRow
    <2>1. Events(permits, ticket, g) \in Nat /\ Events(permits', ticket', g) \in Nat
      BY <1>3, <1>4, <2>0, EventSets
    <2>2. UsedOf(permits', g) = UsedOf(permits, g)
      BY <1>2, <1>3 DEF UsedOf, RowsOf
    <2>3. OpenOf(ticket', g) \subseteq OpenOf(ticket, g) \ {w}
      BY <1>1 DEF OpenOf, IssuingIn
    <2>4. Events(permits', ticket', g) <= Events(permits, ticket, g)
      <3>1. CASE GrantOf[ticket[w].intent] = g
        <4>1. w \in OpenOf(ticket, g)
          BY <1>0, <3>1 DEF OpenOf, IssuingIn
        <4>2. RowsOf(permits', g) \subseteq RowsOf(permits, g) \cup {n}
          BY <1>3 DEF RowsOf
        <4> QED
          BY <1>3, <1>4, <2>0, <2>2, <2>3, <4>1, <4>2, EventsMoved
      <3>2. CASE GrantOf[ticket[w].intent] # g
        <4>1. RowsOf(permits', g) \subseteq RowsOf(permits, g)
          BY <1>2, <1>3, <3>2 DEF RowsOf
        <4> QED
          BY <1>3, <1>4, <2>0, <2>2, <2>3, <4>1, EventsFewer
      <3> QED
        BY <3>1, <3>2
    <2> QED
      BY <1>1, <2>0, <2>1, <2>4
  <1> QED
    BY <1>4, <1>5 DEF CountInv

\* Consumption raises the counter too.
LEMMA CountConsume ==
  ASSUME CountInv, LedgerTypeOK', NEW r \in DOMAIN permits, ConsumePermit(r)
  PROVE  CountInv'
  <1> DEFINE g0 == GrantAt(r)
  <1>0. LedgerTypeOK /\ permits[r] \in Permit /\ \A q \in DOMAIN permits : permits[q] \in Permit
    BY DEF CountInv, LedgerTypeOK
  <1>1. g0 \in Grants
    BY <1>0, LedgerConstants DEF GrantAt, Permit
  <1>2. /\ ticket' = ticket /\ grant' = [grant EXCEPT ![g0].fence = @ + 1]
        /\ permits' \in Seq(Permit) /\ DOMAIN permits' = DOMAIN permits
        /\ \A q \in DOMAIN permits :
             permits'[q] = IF q = r THEN [permits[r] EXCEPT !.consumed = TRUE] ELSE permits[q]
    BY <1>0, ConsumedTable DEF ConsumePermit, LedgerTypeOK
  <1>3. \A q \in DOMAIN permits : /\ permits'[q].intent = permits[q].intent
                                  /\ q # r => permits'[q].consumed = permits[q].consumed
    BY <1>0, <1>2, ZenonT(40) DEF Permit
  <1>4. ASSUME NEW g \in Grants
        PROVE  Events(permits', ticket', g) <= grant'[g].fence
    <2>0. /\ permits \in Seq(Permit) /\ grant[g].fence \in Nat /\ IsFiniteSet(IssuingIn(ticket))
          /\ Events(permits, ticket, g) <= grant[g].fence
      BY <1>0 DEF CountInv, LedgerTypeOK, GrantRow
    <2>1. Events(permits, ticket, g) \in Nat /\ Events(permits', ticket, g) \in Nat
      BY <1>2, <2>0, EventSets
    <2>2. RowsOf(permits', g) = RowsOf(permits, g)
      BY <1>2, <1>3 DEF RowsOf
    <2>3. CASE g = g0
      <3>1. grant'[g].fence = grant[g].fence + 1
        BY <1>0, <1>1, <1>2, <2>3 DEF LedgerTypeOK, GrantRow
      <3>2. UsedOf(permits', g) \subseteq UsedOf(permits, g) \cup {r}
        BY <1>2, <1>3, <2>2 DEF UsedOf, RowsOf
      <3>3. Events(permits', ticket, g) <= Events(permits, ticket, g) + 1
        BY <1>2, <2>0, <2>2, <3>2, EventsOneMore
      <3> QED
        BY <1>2, <2>0, <2>1, <3>1, <3>3
    <2>4. CASE g # g0
      <3>1. grant'[g] = grant[g]
        BY <1>0, <1>2, <2>4 DEF LedgerTypeOK
      <3>2. r \notin RowsOf(permits, g)
        BY <2>4 DEF RowsOf, GrantAt
      <3>3. UsedOf(permits', g) \subseteq UsedOf(permits, g)
        BY <1>2, <1>3, <2>2, <3>2 DEF UsedOf, RowsOf
      <3>4. Events(permits', ticket, g) <= Events(permits, ticket, g)
        BY <1>2, <2>0, <2>2, <3>3, EventsFewer
      <3> QED
        BY <1>2, <2>0, <2>1, <3>1, <3>4
    <2> QED
      BY <2>3, <2>4
  <1>5. IsFiniteSet(IssuingIn(ticket'))
    BY <1>2 DEF CountInv
  <1> QED
    BY <1>4, <1>5 DEF CountInv

\* Every step of the ledger keeps the count.
LEMMA CountStep == CountInv /\ [LedgerNext]_ledgerVars => CountInv'
  <1> SUFFICES ASSUME CountInv, [LedgerNext]_ledgerVars
               PROVE  CountInv'
    OBVIOUS
  <1>0. LedgerTypeOK /\ LedgerTypeOK'
    BY TypeStep DEF CountInv
  <1>1. CASE \E w \in Issuers, i \in Intents, now \in 0 .. clock : \E exp \in now .. Deadline[i] :
               AllocateFence(w, i, now, exp)
    BY <1>0, <1>1, CountAllocate
  <1>2. CASE \E w \in Issuers : RecordPermit(w)
    BY <1>0, <1>2, CountRecord
  <1>3. CASE \E r \in DOMAIN permits : ConsumePermit(r)
    BY <1>0, <1>3, CountConsume
  <1>4. ASSUME DOMAIN permits' = DOMAIN permits,
               \A r \in DOMAIN permits : SameBinding(permits[r], permits'[r]),
               \A w \in Issuers : ticket'[w] # NoTicket =>
                 ticket[w] # NoTicket /\ SameBinding(ticket[w], ticket'[w]),
               \A r \in DOMAIN permits : permits'[r].consumed => permits[r].consumed
        PROVE  CountInv'
    <2>1. IssuingIn(ticket') \subseteq IssuingIn(ticket)
      BY <1>4 DEF IssuingIn
    <2>2. IsFiniteSet(IssuingIn(ticket'))
      BY <2>1, FS_Subset DEF CountInv
    <2>3. ASSUME NEW g \in Grants
          PROVE  Events(permits', ticket', g) <= grant'[g].fence
      <3>0. /\ permits \in Seq(Permit) /\ permits' \in Seq(Permit)
            /\ grant[g].fence \in Nat /\ grant'[g].fence \in Nat /\ IsFiniteSet(IssuingIn(ticket))
            /\ Events(permits, ticket, g) <= grant[g].fence
        BY <1>0 DEF CountInv, LedgerTypeOK, GrantRow
      <3>1. Events(permits, ticket, g) \in Nat /\ Events(permits', ticket', g) \in Nat
        BY <2>2, <3>0, EventSets
      <3>2. RowsOf(permits', g) \subseteq RowsOf(permits, g)
        BY <1>4 DEF RowsOf, SameBinding
      <3>3. UsedOf(permits', g) \subseteq UsedOf(permits, g)
        BY <1>4, <3>2 DEF UsedOf, RowsOf
      <3>4. OpenOf(ticket', g) \subseteq OpenOf(ticket, g)
        BY <1>4 DEF OpenOf, IssuingIn, SameBinding
      <3>5. Events(permits', ticket', g) <= Events(permits, ticket, g)
        BY <2>2, <3>0, <3>2, <3>3, <3>4, EventsFewer
      <3>6. grant[g].fence <= grant'[g].fence
        BY <1>0, GrantsAdvance
      <3> QED
        BY <3>0, <3>1, <3>5, <3>6
    <2> QED
      BY <1>0, <2>2, <2>3 DEF CountInv
  <1>5. (\E w \in Issuers : RecordPermit(w)) \/ (\E r \in DOMAIN permits : ConsumePermit(r))
          \/ \A r \in DOMAIN permits : permits'[r].consumed => permits[r].consumed
    <2>1. ASSUME NEW i \in Intents, VoidUnconsumedPermits(i), NEW r \in DOMAIN permits
          PROVE  permits'[r].consumed => permits[r].consumed
      <3>1. permits[r] \in Permit /\ permits \in Seq(Permit)
        BY <1>0 DEF LedgerTypeOK
      <3>2. permits'[r] = IF permits[r].intent = i /\ ~permits[r].consumed
                            THEN [permits[r] EXCEPT !.voided = TRUE] ELSE permits[r]
        BY <2>1, <3>1, VoidedTable
      <3> QED
        BY <3>1, <3>2 DEF Permit
    <2> QED
      BY <2>1
      DEF LedgerNext, IssuerStep, GatewayStep, OperatorStep, AllocateFence, Recheck, AbandonIssue,
          VerifyPermit, SetGrantStatus, Halt, Resume, Tick, ledgerVars
  <1> QED
    BY <1>0, <1>1, <1>2, <1>3, <1>4, <1>5, PermitsFrame, TicketsFrame

\* The fence counter is never behind the authority events of its grant, whatever the
\* number of issuers: it is what the anchor's mark is compared with.
THEOREM FencesCount == LedgerSpec => []FenceCountsEvents
  <1>1. CountInv => FenceCountsEvents
    BY DEF CountInv, FenceCountsEvents, Events, RowsOf, UsedOf, OpenOf, IssuingIn, GrantAt
  <1> QED
    BY <1>1, CountInit, CountStep, PTL DEF LedgerSpec

-----------------------------------------------------------------------------
(* What the building blocks write *)

\* Process w goes on with its call at `pc', with these results of the step.
NextJob(w, pc, block, stop, now, record) ==
  /\ job' \in [Issuers -> Job \cup {NoJob}]
  /\ job'[w] # NoJob /\ job'[w].intent = job[w].intent
  /\ job'[w].pc = pc /\ job'[w].block = block /\ job'[w].stop = stop
  /\ job'[w].now = now /\ job'[w].record = record
  /\ \A x \in Issuers \ {w} : job'[x] = job[x]

\* Process w has no call any more.
NoNextJob(w) ==
  /\ job' \in [Issuers -> Job \cup {NoJob}]
  /\ job'[w] = NoJob
  /\ \A x \in Issuers \ {w} : job'[x] = job[x]

\* The row of intent i after the step; the other rows are as they were.
NextRow(i, state, effect, fill, count, block, disputed) ==
  /\ row' \in [Intents -> Row]
  /\ row'[i].state = state /\ row'[i].effect = effect /\ row'[i].fill = fill
  /\ row'[i].count = count /\ row'[i].block = block /\ row'[i].disputed = disputed
  /\ \A j \in Intents \ {i} : row'[j] = row[j]

\* A process with a call has a well-typed one.
LEMMA JobTyped ==
  ASSUME RuntimeTypeOK, NEW w \in Issuers, job[w] # NoJob
  PROVE  /\ job[w] \in Job /\ job[w].pc \in PCs /\ job[w].intent \in Intents
         /\ job[w].now \in Nat /\ job[w].record \in Record /\ job[w].call \in {"process", "reconcile"}
         /\ job[w].fresh \in BOOLEAN
         /\ job[w].block \in {"none", "failure", "status"}
         /\ job[w].stop \in {"none", "release", "held", "disputed"}
  <1>1. job[w] \in Job
    BY DEF RuntimeTypeOK
  <1> QED
    BY <1>1 DEF Job

\* An idle process has the pc of no step.
LEMMA IdleJob ==
  ASSUME NEW w, job[w] = NoJob
  PROVE  job[w].pc = "idle"
  BY DEF NoJob

\* Silence is a settlement record.
LEMMA SilenceTyped == Silence \in Record
  BY RuntimeConstants DEF Silence, Record, EffectIds, Amounts, None

\* Goto changes the pc and nothing else.
LEMMA GotoJob ==
  ASSUME RuntimeTypeOK, NEW w \in Issuers, job[w] # NoJob, NEW pc \in PCs, Goto(w, pc)
  PROVE  NextJob(w, pc, job[w].block, job[w].stop, job[w].now, job[w].record)
  <1>1. job[w] \in Job /\ job \in [Issuers -> Job \cup {NoJob}]
    BY JobTyped DEF RuntimeTypeOK
  <1>2. [job[w] EXCEPT !.pc = pc] \in Job
    BY <1>1 DEF Job
  <1>3. /\ job' \in [Issuers -> Job \cup {NoJob}]
        /\ job'[w] = [job[w] EXCEPT !.pc = pc]
        /\ \A x \in Issuers \ {w} : job'[x] = job[x]
    BY <1>1, <1>2 DEF Goto
  <1>4. "idle" \notin PCs
    BY DEF PCs
  <1> QED
    BY <1>1, <1>2, <1>3, <1>4 DEF NextJob, Job, NoJob

\* Leave ends the call but for its lease and forgets what the call carried.
LEMMA LeaveJob ==
  ASSUME RuntimeTypeOK, NEW w \in Issuers, job[w] # NoJob, Leave(w)
  PROVE  NextJob(w, "exit", "none", "none", 0, Silence)
  <1> DEFINE v == [pc |-> "exit", call |-> job[w].call, intent |-> job[w].intent,
                   fresh |-> job[w].fresh, block |-> "none", stop |-> "none", now |-> 0,
                   record |-> Silence]
  <1>1. job[w] \in Job /\ job \in [Issuers -> Job \cup {NoJob}]
    BY JobTyped DEF RuntimeTypeOK
  <1>2. v \in Job
    BY <1>1, SilenceTyped DEF Job, PCs
  <1>3. job' = [job EXCEPT ![w] = v]
    <2>1. [Call(TheIntent(w), job[w].call, job[w].fresh) EXCEPT !.pc = "exit"] = v
      BY DEF Call, TheIntent
    <2>2. job' = [job EXCEPT ![w] =
                    [Call(TheIntent(w), job[w].call, job[w].fresh) EXCEPT !.pc = "exit"]]
      BY <1>1 DEF Leave
    <2> QED
      BY <2>1, <2>2
  <1>4. v # NoJob
    BY DEF NoJob
  <1> QED
    BY <1>1, <1>2, <1>3, <1>4 DEF NextJob

\* StopWith goes to the stop with its reason and without a record.
LEMMA StopJob ==
  ASSUME RuntimeTypeOK, NEW w \in Issuers, job[w] # NoJob,
         NEW how \in {"release", "held", "disputed"}, StopWith(w, how)
  PROVE  NextJob(w, "stop", job[w].block, how, job[w].now, Silence)
  <1>1. job[w] \in Job /\ job \in [Issuers -> Job \cup {NoJob}]
    BY JobTyped DEF RuntimeTypeOK
  <1>2. /\ job' \in [Issuers -> Job \cup {NoJob}]
        /\ job'[w] \in Job /\ job'[w].pc = "stop" /\ job'[w].stop = how
        /\ job'[w].record = Silence /\ job'[w].block = job[w].block
        /\ job'[w].intent = job[w].intent /\ job'[w].now = job[w].now
        /\ \A x \in Issuers \ {w} : job'[x] = job[x]
    BY <1>1, SilenceTyped, ZenonT(40) DEF StopWith, Job, PCs
  <1> QED
    BY <1>2 DEF NextJob, NoJob

\* Dropping the call leaves the process idle.
LEMMA DropJob ==
  ASSUME RuntimeTypeOK, NEW w \in Issuers, job' = [job EXCEPT ![w] = NoJob]
  PROVE  NoNextJob(w)
  BY DEF RuntimeTypeOK, NoNextJob

\* A transition of intent i writes the state and the block of its row.
LEMMA MovedRow ==
  ASSUME RuntimeTypeOK, NEW i \in Intents, NEW state \in States, NEW block \in BOOLEAN,
         row' = Moved(i, state, block)
  PROVE  NextRow(i, state, row[i].effect, row[i].fill, row[i].count, block, row[i].disputed)
  <1>1. row \in [Intents -> Row] /\ row[i] \in Row
    BY DEF RuntimeTypeOK
  <1> QED
    BY <1>1 DEF NextRow, Moved, Row

\* A budget statement touches the reservation of its intent only.
LEMMA MovedUsage ==
  ASSUME RuntimeTypeOK, NEW i \in Intents
  PROVE  /\ Released(i) \in [Intents -> {"NONE", "HELD", "COMMITTED", "RELEASED"}]
         /\ Committed(i) \in [Intents -> {"NONE", "HELD", "COMMITTED", "RELEASED"}]
         /\ Released(i)[i] = IF usage[i] = "HELD" THEN "RELEASED" ELSE usage[i]
         /\ Committed(i)[i] = IF usage[i] = "HELD" THEN "COMMITTED" ELSE usage[i]
         /\ \A j \in Intents \ {i} : Released(i)[j] = usage[j] /\ Committed(i)[j] = usage[j]
  BY DEF RuntimeTypeOK, Released, Committed

-----------------------------------------------------------------------------
(* What a step does to the permits of an intent *)

\* The step forgets nothing that was known of the intent's permits.
PermitsKept(i) ==
  /\ NoPermits(i) => NoPermits(i)'
  /\ AllVoided(i) => AllVoided(i)'
  /\ Disarmed(i) => Disarmed(i)'
  /\ OneAlive(i) => OneAlive(i)'
  /\ LastRecorded(i) => LastRecorded(i)'
  /\ ConsumedRows(i) # {} => ConsumedRows(i)' # {}

\* A step that rewrites rows, keeps their intents, unvoids and unconsumes nothing
\* keeps what was known of every intent's permits.
LEMMA RowsKept ==
  ASSUME DOMAIN permits' = DOMAIN permits,
         \A r \in DOMAIN permits :
           /\ permits'[r].intent = permits[r].intent
           /\ permits[r].voided => permits'[r].voided
           /\ permits[r].consumed => permits'[r].consumed,
         NEW i
  PROVE  PermitsKept(i)
  <1>1. NoPermits(i) => NoPermits(i)'
    BY DEF NoPermits
  <1>2. AllVoided(i) => AllVoided(i)'
    BY DEF AllVoided
  <1>3. Disarmed(i) => Disarmed(i)'
    BY DEF Disarmed
  <1>4. OneAlive(i) => OneAlive(i)'
    BY DEF OneAlive
  <1>5. LastRecorded(i) => LastRecorded(i)'
    BY DEF LastRecorded, Superseded
  <1>6. ConsumedRows(i) # {} => ConsumedRows(i)' # {}
    BY DEF ConsumedRows
  <1> QED
    BY <1>1, <1>2, <1>3, <1>4, <1>5, <1>6 DEF PermitsKept

\* A step that leaves the table alone keeps everything.
LEMMA TableKept ==
  ASSUME permits' = permits, NEW i
  PROVE  PermitsKept(i)
  BY RowsKept

\* So does a consumption, of whatever row.
LEMMA KeptByConsume ==
  ASSUME LedgerTypeOK, NEW r \in DOMAIN permits, ConsumePermit(r), NEW i
  PROVE  PermitsKept(i)
  <1>1. \A q \in DOMAIN permits : permits[q] \in Permit
    BY DEF LedgerTypeOK
  <1>2. /\ DOMAIN permits' = DOMAIN permits
        /\ \A q \in DOMAIN permits :
             permits'[q] = IF q = r THEN [permits[r] EXCEPT !.consumed = TRUE] ELSE permits[q]
    BY ConsumedTable DEF LedgerTypeOK, ConsumePermit
  <1>3. \A q \in DOMAIN permits :
          /\ permits'[q].intent = permits[q].intent
          /\ permits[q].voided => permits'[q].voided
          /\ permits[q].consumed => permits'[q].consumed
    BY <1>1, <1>2 DEF Permit
  <1> QED
    BY <1>2, <1>3, RowsKept

\* A void keeps everything, and disarms its intent.
LEMMA KeptByVoid ==
  ASSUME LedgerTypeOK, NEW i \in Intents, VoidUnconsumedPermits(i)
  PROVE  Disarmed(i)' /\ \A j \in Intents : PermitsKept(j)
  <1>1. \A q \in DOMAIN permits : permits[q] \in Permit
    BY DEF LedgerTypeOK
  <1>2. /\ DOMAIN permits' = DOMAIN permits
        /\ \A q \in DOMAIN permits :
             permits'[q] = IF permits[q].intent = i /\ ~permits[q].consumed
                             THEN [permits[q] EXCEPT !.voided = TRUE] ELSE permits[q]
    BY VoidedTable DEF LedgerTypeOK
  <1>3. \A q \in DOMAIN permits :
          /\ permits'[q].intent = permits[q].intent
          /\ permits[q].voided => permits'[q].voided
          /\ permits[q].consumed => permits'[q].consumed
          /\ permits[q].intent = i => permits'[q].voided \/ permits'[q].consumed
    BY <1>1, <1>2 DEF Permit
  <1>4. Disarmed(i)'
    BY <1>2, <1>3 DEF Disarmed
  <1> QED
    BY <1>2, <1>3, <1>4, RowsKept

\* Recording a permit keeps what was known of the other intents' permits; it is the
\* last row of its own, and its only live one when the earlier ones were void.
LEMMA KeptByRecord ==
  ASSUME LedgerTypeOK, NEW w \in Issuers, RecordPermit(w), NEW i \in Intents,
         ticket[w].intent = i
  PROVE  /\ \A j \in Intents \ {i} : PermitsKept(j)
         /\ AllVoided(i) => OneAlive(i)'
         /\ LastRecorded(i)'
         /\ ConsumedRows(i) # {} => ConsumedRows(i)' # {}
         /\ LedgerTypeOK'
  <1> DEFINE n == Len(permits) + 1
  <1>0. LedgerTypeOK'
    BY TypeStep DEF LedgerNext, IssuerStep
  <1>1. ticket[w] \in Ticket
    BY DEF RecordPermit, LedgerTypeOK, NoTicket
  <1>2. /\ NewPermit(ticket[w]) \in Permit
        /\ NewPermit(ticket[w]).intent = i
    BY <1>1 DEF NewPermit, Permit, Ticket
  <1>3. /\ DOMAIN permits' = DOMAIN permits \cup {n}
        /\ n \notin DOMAIN permits
        /\ \A q \in DOMAIN permits : q < n /\ permits'[q] = permits[q]
        /\ permits'[n].intent = i
        /\ DOMAIN permits \subseteq Nat
    BY <1>2, AppendedTable DEF RecordPermit, LedgerTypeOK
  <1> HIDE DEF n
  <1>4. ASSUME NEW j \in Intents \ {i}
        PROVE  PermitsKept(j)
    <2>1. NoPermits(j) => NoPermits(j)'
      BY <1>3 DEF NoPermits
    <2>2. AllVoided(j) => AllVoided(j)'
      BY <1>3 DEF AllVoided
    <2>3. Disarmed(j) => Disarmed(j)'
      BY <1>3 DEF Disarmed
    <2>4. OneAlive(j) => OneAlive(j)'
      BY <1>3 DEF OneAlive
    <2>5. LastRecorded(j) => LastRecorded(j)'
      BY <1>3 DEF LastRecorded, Superseded
    <2>6. ConsumedRows(j) # {} => ConsumedRows(j)' # {}
      BY <1>3 DEF ConsumedRows
    <2> QED
      BY <2>1, <2>2, <2>3, <2>4, <2>5, <2>6 DEF PermitsKept
  <1>5. AllVoided(i) => OneAlive(i)'
    BY <1>3 DEF AllVoided, OneAlive
  <1>6. LastRecorded(i)'
    <2>1. n \in DOMAIN permits' /\ permits'[n].intent = i
      BY <1>3
    <2>2. ~\E q \in DOMAIN permits' : q > n /\ permits'[q].intent = permits'[n].intent
      <3>1. n \in Int
        BY DEF n, LedgerTypeOK
      <3> QED
        BY <1>3, <3>1
    <2> QED
      BY <2>1, <2>2 DEF LastRecorded, Superseded
  <1>7. ConsumedRows(i) # {} => ConsumedRows(i)' # {}
    BY <1>3 DEF ConsumedRows
  <1> QED
    BY <1>0, <1>4, <1>5, <1>6, <1>7

\* Once none of an intent's permits is consumed, disarmed means void.
LEMMA DisarmedUnconsumed ==
  ASSUME NEW i, Disarmed(i), ConsumedRows(i) = {}
  PROVE  AllVoided(i)
  BY DEF Disarmed, ConsumedRows, AllVoided

\* An intent without permits has nothing to void, to disarm or to consume.
LEMMA NothingIssued ==
  ASSUME NEW i, NoPermits(i)
  PROVE  AllVoided(i) /\ Disarmed(i) /\ OneAlive(i)
  BY DEF NoPermits, AllVoided, Disarmed, OneAlive

\* An intent of which the venue admitted a permit is disarmed, since every other
\* permit of it is void.
LEMMA AdmittedDisarmed ==
  ASSUME NEW i, VoidOrConsumedNotBoth, OneAlive(i), ConsumedRows(i) # {}
  PROVE  Disarmed(i) /\ ~AllVoided(i) /\ ~NoPermits(i)
  BY DEF VoidOrConsumedNotBoth, OneAlive, ConsumedRows, Disarmed, AllVoided, NoPermits

-----------------------------------------------------------------------------
(* The frame of a step *)

\* The step has nothing to do with intent j.
Untouched(j) ==
  /\ row'[j] = row[j] /\ usage'[j] = usage[j] /\ order'[j] = order[j]
  /\ j \in rejected' => j \in rejected
  /\ PermitsKept(j)

\* A step of process w touches one intent, and no other process or its lease.
Touches(w, i) ==
  /\ \A x \in Issuers \ {w} : job'[x] = job[x] /\ ticket'[x] = ticket[x]
  /\ \A x \in Issuers \ {w}, j \in Intents : lease[j] = x => lease'[j] = x
  /\ \A j \in Intents \ {i} : Untouched(j)
  /\ clock' = clock

\* An intent that a step has nothing to do with keeps its invariant.
LEMMA UntouchedIntent ==
  ASSUME NEW j \in Intents, Untouched(j)
  PROVE  /\ IntentInv(j) => IntentInv(j)'
         /\ BookInv(j) => BookInv(j)'
  <1>1. IntentInv(j) => IntentInv(j)'
    BY DEF Untouched, PermitsKept, IntentInv
  <1>2. BookInv(j) => BookInv(j)'
    BY DEF Untouched, PermitsKept, BookInv
  <1> QED
    BY <1>1, <1>2

\* A process that does not take part keeps its invariant, too.
LEMMA UntouchedJob ==
  ASSUME NEW x \in Issuers, NEW j \in Intents, Untouched(j),
         job'[x] = job[x], ticket'[x] = ticket[x],
         lease[j] = x => lease'[j] = x, clock \in Int, clock' \in Int, clock <= clock',
         RuntimeTypeOK
  PROVE  /\ JobInv(x, j) => JobInv(x, j)'
         /\ RecordInv(x, j) => RecordInv(x, j)'
  <1>0. job[x] # NoJob => job[x].now \in Int
    BY JobTyped
  <1>1. JobInv(x, j) => JobInv(x, j)'
    BY <1>0 DEF Untouched, PermitsKept, JobInv
  <1>2. RecordInv(x, j) => RecordInv(x, j)'
    BY DEF Untouched, RecordInv
  <1> QED
    BY <1>1, <1>2

\* The lease makes an intent the business of one process: another one with a call
\* about it still waits for the lease.
LEMMA OneOwner ==
  ASSUME RuntimeInv, NEW w \in Issuers, NEW x \in Issuers \ {w}, NEW i \in Intents,
         job[x] # NoJob, job[x].intent = i, lease[i] \notin Issuers \/ lease[i] = w
  PROVE  job[x].pc = "acquire"
  BY DEF RuntimeInv, JobInv

\* What is left to show of a step of process w about intent i: the parts of the
\* invariant that speak of w and of i.
LEMMA WorkerStep ==
  ASSUME LedgerInv, RuntimeInv, NEW w \in Issuers, NEW i \in Intents,
         RuntimeTypeOK', Touches(w, i), row'[i].state # "ABSENT",
         lease[i] \notin Issuers \/ lease[i] = w,
         job'[w] # NoJob => job'[w].intent = i,
         IntentInv(i)', TicketInv(w)', JobInv(w, i)',
         Truthful => BookInv(i)' /\ RecordInv(w, i)'
  PROVE  RuntimeInv'
  <1>0. clock \in Int /\ clock' = clock
    BY DEF LedgerInv, LedgerTypeOK, Touches
  <1>1. ASSUME NEW j \in Intents
        PROVE  IntentInv(j)' /\ (Truthful => BookInv(j)')
    <2>1. CASE j = i
      BY <2>1
    <2>2. CASE j # i
      BY <2>2, UntouchedIntent DEF Touches, RuntimeInv
    <2> QED
      BY <2>1, <2>2
  <1>2. ASSUME NEW x \in Issuers
        PROVE  TicketInv(x)'
    BY DEF Touches, RuntimeInv, TicketInv
  <1>3. ASSUME NEW x \in Issuers, NEW j \in Intents
        PROVE  JobInv(x, j)' /\ (Truthful => RecordInv(x, j)')
    <2>1. CASE x = w /\ j = i
      BY <2>1
    <2>2. CASE x = w /\ j # i
      BY <2>2 DEF JobInv, RecordInv
    <2>3. CASE x # w /\ j = i
      <3>1. CASE job[x] = NoJob \/ job[x].intent # i
        BY <2>3, <3>1 DEF Touches, JobInv, RecordInv
      <3>2. CASE job[x] # NoJob /\ job[x].intent = i
        <4>1. /\ job[x].pc = "acquire" /\ job'[x] = job[x]
              /\ job[x].now <= clock /\ job[x].block = "none"
          BY <2>3, <3>2, OneOwner DEF Touches, RuntimeInv, JobInv
        <4> QED
          BY <1>0, <2>3, <3>2, <4>1 DEF JobInv, RecordInv, Submitting
      <3> QED
        BY <3>1, <3>2
    <2>4. CASE x # w /\ j # i
      <3>1. JobInv(x, j) /\ (Truthful => RecordInv(x, j)) /\ RuntimeTypeOK
        BY DEF RuntimeInv
      <3>2. /\ Untouched(j) /\ job'[x] = job[x] /\ ticket'[x] = ticket[x]
            /\ lease[j] = x => lease'[j] = x
        BY <2>4 DEF Touches
      <3> QED
        BY <1>0, <3>1, <3>2, UntouchedJob
    <2> QED
      BY <2>1, <2>2, <2>3, <2>4
  <1> QED
    BY <1>1, <1>2, <1>3 DEF RuntimeInv

\* The process that takes a step: its call, its intent, and what the invariant says
\* of the two.
Working(w, i) ==
  /\ LedgerInv /\ RuntimeInv
  /\ w \in Issuers /\ i \in Intents
  /\ job[w] # NoJob /\ job[w].intent = i

\* What Working gives.
LEMMA WorkingFacts ==
  ASSUME NEW w, NEW i, Working(w, i)
  PROVE  /\ RuntimeTypeOK /\ LedgerTypeOK /\ VoidOrConsumedNotBoth
         /\ IntentInv(i) /\ TicketInv(w) /\ JobInv(w, i)
         /\ Truthful => BookInv(i) /\ RecordInv(w, i)
         /\ row[i] \in Row /\ row[i].state \in States \cup {"ABSENT"} /\ row[i].fill \in Amounts
         /\ row[i].count \in Nat /\ row[i].effect \in EffectIds
         /\ row[i].block \in BOOLEAN /\ row[i].disputed \in BOOLEAN
         /\ usage[i] \in {"NONE", "HELD", "COMMITTED", "RELEASED"}
         /\ clock \in Nat
         /\ job[w].pc \in PCs /\ job[w].now \in Nat
  <1>1. RuntimeTypeOK /\ LedgerTypeOK /\ VoidOrConsumedNotBoth
    BY DEF Working, LedgerInv, RuntimeInv
  <1>2. /\ IntentInv(i) /\ TicketInv(w) /\ JobInv(w, i)
        /\ Truthful => BookInv(i) /\ RecordInv(w, i)
    BY DEF Working, RuntimeInv
  <1>3. row[i] \in Row /\ usage[i] \in {"NONE", "HELD", "COMMITTED", "RELEASED"} /\ clock \in Nat
    BY <1>1 DEF Working, RuntimeTypeOK, LedgerTypeOK
  <1>4. job[w].pc \in PCs /\ job[w].now \in Nat
    BY <1>1, JobTyped DEF Working
  <1> QED
    BY <1>1, <1>2, <1>3, <1>4 DEF Row

\* The tickets of the other processes and the clock do not move.
TicketsOfOthers(w) ==
  clock' = clock /\ \A x \in Issuers \ {w} : ticket'[x] = ticket[x]

\* A step that ends the call of w and writes the row and the reservation of i.
LEMMA Leaving ==
  ASSUME NEW w, NEW i, Working(w, i), job[w].pc # "acquire", Leave(w),
         row' \in [Intents -> Row], row'[i].state # "ABSENT",
         \A j \in Intents \ {i} : row'[j] = row[j],
         usage' \in [Intents -> {"NONE", "HELD", "COMMITTED", "RELEASED"}],
         \A j \in Intents \ {i} : usage'[j] = usage[j],
         UNCHANGED <<lease, wire, order, rejected, taken>>, faults' \in Nat,
         permits' = permits, TicketsOfOthers(w), ticket'[w] = NoTicket,
         IntentInv(i)', Truthful => BookInv(i)'
  PROVE  RuntimeInv'
  <1>1. NextJob(w, "exit", "none", "none", 0, Silence)
    BY LeaveJob, WorkingFacts DEF Working
  <1>2. lease[i] = w /\ lease'[i] = w
    BY WorkingFacts DEF JobInv, Working
  <1>3. RuntimeTypeOK'
    BY <1>1, WorkingFacts DEF RuntimeTypeOK, NextJob
  <1>4. Touches(w, i)
    <2>1. \A j \in Intents : PermitsKept(j)
      BY TableKept
    <2> QED
      BY <1>1, <2>1 DEF Touches, Untouched, NextJob, TicketsOfOthers
  <1>5. TicketInv(w)' /\ JobInv(w, i)' /\ RecordInv(w, i)'
    BY <1>1, <1>2, WorkingFacts DEF NextJob, TicketInv, JobInv, RecordInv, Submitting,
       TicketsOfOthers
  <1> QED
    BY <1>1, <1>2, <1>3, <1>4, <1>5, WorkerStep DEF Working, NextJob

\* A step of w that only reads and goes on, or drops its call.
LEMMA Going ==
  ASSUME NEW w, NEW i, Working(w, i), lease[i] \notin Issuers \/ lease[i] = w,
         job' \in [Issuers -> Job \cup {NoJob}], job'[w] # NoJob => job'[w].intent = i,
         \A x \in Issuers \ {w} : job'[x] = job[x],
         RowKept, UNCHANGED <<order, rejected, taken>>, faults' \in Nat,
         lease' \in [Intents -> Issuers \cup {"FREE", "DEAD"}],
         \A x \in Issuers \ {w}, j \in Intents : lease[j] = x => lease'[j] = x,
         wire' \subseteq DOMAIN permits', \A j \in Intents : PermitsKept(j), TicketsOfOthers(w),
         TicketInv(w)', JobInv(w, i)', Truthful => RecordInv(w, i)'
  PROVE  RuntimeInv'
  <1>1. RuntimeTypeOK'
    BY WorkingFacts DEF RuntimeTypeOK, RowKept
  <1>2. Touches(w, i) /\ Untouched(i)
    BY DEF Touches, Untouched, RowKept, TicketsOfOthers, Working
  <1>3. IntentInv(i)' /\ (Truthful => BookInv(i)')
    BY <1>2, UntouchedIntent, WorkingFacts DEF Working
  <1>4. row'[i].state # "ABSENT"
    BY WorkingFacts DEF Working, JobInv, RowKept
  <1> QED
    BY <1>1, <1>2, <1>3, <1>4, WorkerStep DEF Working

\* The common case: the step of w reads, moves its pc, and does nothing else.
LEMMA Moving ==
  ASSUME NEW w, NEW i, Working(w, i), job[w].pc # "acquire",
         NEW pc, NEW block, NEW stop, NEW now, NEW record, NextJob(w, pc, block, stop, now, record),
         RowKept, Quiet, TicketInv(w)', JobInv(w, i)', Truthful => RecordInv(w, i)'
  PROVE  RuntimeInv'
  <1>1. lease[i] = w
    BY WorkingFacts DEF JobInv, Working
  <1>2. \A j \in Intents : PermitsKept(j)
    BY TableKept DEF Quiet, ledgerVars
  <1>3. TicketsOfOthers(w) /\ UNCHANGED <<lease, wire, order, faults, rejected, taken, permits>>
    BY DEF TicketsOfOthers, Quiet, NoRuntimeStep, ledgerVars
  <1>4. RuntimeTypeOK
    BY WorkingFacts
  <1> QED
    BY <1>1, <1>2, <1>3, <1>4, Going DEF NextJob, Working, RuntimeTypeOK

\* A step of w that writes the row, the reservation or the permits of i and goes on.
LEMMA Transiting ==
  ASSUME NEW w, NEW i, Working(w, i), job[w].pc # "acquire",
         NEW pc, NEW block, NEW stop, NEW now, NEW record, NextJob(w, pc, block, stop, now, record),
         row' \in [Intents -> Row], row'[i].state # "ABSENT",
         \A j \in Intents \ {i} : row'[j] = row[j],
         usage' \in [Intents -> {"NONE", "HELD", "COMMITTED", "RELEASED"}],
         \A j \in Intents \ {i} : usage'[j] = usage[j],
         UNCHANGED <<lease, wire, order, taken, faults>>,
         rejected' \subseteq rejected \cup {i}, DOMAIN permits \subseteq DOMAIN permits',
         \A j \in Intents \ {i} : PermitsKept(j), TicketsOfOthers(w),
         IntentInv(i)', TicketInv(w)', JobInv(w, i)',
         Truthful => BookInv(i)' /\ RecordInv(w, i)'
  PROVE  RuntimeInv'
  <1>1. lease[i] = w
    BY WorkingFacts DEF JobInv, Working
  <1>2. RuntimeTypeOK'
    <2>1. RuntimeTypeOK /\ i \in Intents
      BY WorkingFacts DEF Working
    <2> QED
      BY <2>1 DEF RuntimeTypeOK, NextJob
  <1>3. Touches(w, i)
    BY DEF Touches, Untouched, NextJob, TicketsOfOthers
  <1> QED
    BY <1>1, <1>2, <1>3, WorkerStep DEF Working, NextJob

\* An intent with nothing in flight at the venue and nothing settled may be closed and
\* its budget released.
LEMMA Closing ==
  ASSUME NEW w, NEW i, Working(w, i), job[w].pc # "acquire",
         NEW state \in Terminal \ {"FINALIZED"}, NEW block \in BOOLEAN,
         CloseReleased(w, state, block), NoRuntimeStep, permits' = permits,
         TicketsOfOthers(w), ticket'[w] = NoTicket,
         row[i].state \notin Terminal, row[i].effect = "none", AllVoided(i)
  PROVE  RuntimeInv'
  <1>0. i \in Intents /\ TheIntent(w) = i /\ state \in States /\ RuntimeTypeOK
    BY WorkingFacts DEF Working, TheIntent, Terminal, States
  <1>1. NextRow(i, state, "none", row[i].fill, row[i].count, block, row[i].disputed)
    BY <1>0, MovedRow DEF CloseReleased
  <1>2. /\ usage' \in [Intents -> {"NONE", "HELD", "COMMITTED", "RELEASED"}]
        /\ \A j \in Intents \ {i} : usage'[j] = usage[j]
        /\ usage'[i] = IF usage[i] = "HELD" THEN "RELEASED" ELSE usage[i]
    BY <1>0, MovedUsage DEF CloseReleased
  <1>3. PermitsKept(i)
    BY TableKept
  <1>4. Disarmed(i)
    BY DEF AllVoided, Disarmed
  <1>5. IntentInv(i)'
    <2>1. /\ IntentInv(i) /\ row[i].count \in Nat /\ row'[i].state = state
          /\ rejected' = rejected
      BY <1>1, WorkingFacts DEF NextRow, NoRuntimeStep
    <2>2. row[i].fill = None /\ ~row[i].disputed
      BY <2>1 DEF IntentInv, Terminal
    <2> QED
      BY <1>1, <1>2, <1>3, <2>1, <2>2 DEF IntentInv, NextRow, Unsent, InFlight, Terminal,
         PermitsKept, None
  <1>6. Truthful => BookInv(i)'
    BY <1>1, <1>2, <1>3, <1>4, WorkingFacts DEF BookInv, NextRow, PermitsKept, NoRuntimeStep
  <1>7. faults' \in Nat /\ UNCHANGED <<lease, wire, order, rejected, taken>>
    BY <1>0 DEF NoRuntimeStep, RuntimeTypeOK
  <1>8. row' \in [Intents -> Row] /\ row'[i].state # "ABSENT"
        /\ (\A j \in Intents \ {i} : row'[j] = row[j])
    BY <1>1 DEF NextRow, Terminal
  <1>9. Leave(w)
    BY DEF CloseReleased
  <1> QED
    BY <1>2, <1>5, <1>6, <1>7, <1>8, <1>9, Leaving

\* A step that does not write to the ledger keeps its process out of issue().
LEMMA QuietTickets ==
  ASSUME NEW w, NEW i, Working(w, i), Quiet
  PROVE  /\ TicketsOfOthers(w) /\ ticket' = ticket /\ permits' = permits /\ clock' = clock
         /\ job[w].pc \notin {"recheck", "record"} => ticket[w] = NoTicket
  BY WorkingFacts DEF Quiet, ledgerVars, TicketsOfOthers, TicketInv

\* Ending a call without writing anything is always safe.
LEMMA JustLeaving ==
  ASSUME NEW w, NEW i, Working(w, i), job[w].pc \notin {"acquire", "recheck", "record"},
         Leave(w), RowKept, UNCHANGED <<lease, wire, order, rejected, taken>>, faults' \in Nat,
         UNCHANGED ledgerVars
  PROVE  RuntimeInv'
  <1>1. TicketsOfOthers(w) /\ permits' = permits /\ ticket'[w] = NoTicket
    BY WorkingFacts DEF ledgerVars, TicketsOfOthers, TicketInv
  <1>2. Untouched(i)
    BY <1>1, TableKept DEF Untouched, RowKept
  <1>3. IntentInv(i)' /\ (Truthful => BookInv(i)')
    BY <1>2, UntouchedIntent, WorkingFacts DEF Working
  <1>4. /\ row' \in [Intents -> Row] /\ row'[i].state # "ABSENT"
        /\ usage' \in [Intents -> {"NONE", "HELD", "COMMITTED", "RELEASED"}]
        /\ \A j \in Intents \ {i} : row'[j] = row[j] /\ usage'[j] = usage[j]
    BY WorkingFacts DEF RowKept, RuntimeTypeOK, JobInv, Working
  <1> QED
    BY <1>1, <1>3, <1>4, Leaving

-----------------------------------------------------------------------------
(* The steps of a call *)

\* A step that touches no intent, and of the processes at most w.
LEMMA Bystanding ==
  ASSUME LedgerInv, LedgerTypeOK', RuntimeInv, RuntimeTypeOK', NEW W \in SUBSET Issuers,
         \A j \in Intents : Untouched(j),
         \A x \in Issuers \ W : job'[x] = job[x] /\ ticket'[x] = ticket[x],
         \A x \in Issuers \ W, j \in Intents : lease[j] = x => lease'[j] = x,
         clock <= clock',
         \A w \in W : TicketInv(w)',
         \A w \in W, j \in Intents : JobInv(w, j)' /\ RecordInv(w, j)'
  PROVE  RuntimeInv'
  <1>0. clock \in Int /\ clock' \in Int
    BY DEF LedgerInv, LedgerTypeOK
  <1>1. \A j \in Intents : IntentInv(j)' /\ (Truthful => BookInv(j)')
    BY UntouchedIntent DEF RuntimeInv
  <1>2. \A x \in Issuers : TicketInv(x)'
    BY DEF RuntimeInv, TicketInv
  <1>3. ASSUME NEW x \in Issuers, NEW j \in Intents
        PROVE  JobInv(x, j)' /\ (Truthful => RecordInv(x, j)')
    <2>1. CASE x \in W
      BY <2>1
    <2>2. CASE x \notin W
      <3>1. JobInv(x, j) /\ (Truthful => RecordInv(x, j)) /\ RuntimeTypeOK
        BY DEF RuntimeInv
      <3> QED
        BY <1>0, <2>2, <3>1, UntouchedJob
    <2> QED
      BY <2>1, <2>2
  <1> QED
    BY <1>1, <1>2, <1>3 DEF RuntimeInv

\* A process that drops its call, and perhaps leases with it, touches nothing else.
LEMMA Dropping ==
  ASSUME NEW w, NEW i, Working(w, i), job' = [job EXCEPT ![w] = NoJob],
         RowKept, UNCHANGED <<wire, order, rejected, taken>>, faults' \in Nat,
         lease' \in [Intents -> Issuers \cup {"FREE", "DEAD"}],
         \A x \in Issuers \ {w}, j \in Intents : lease[j] = x => lease'[j] = x,
         permits' = permits, LedgerTypeOK', TicketsOfOthers(w), ticket'[w] = NoTicket
  PROVE  RuntimeInv'
  <1>1. NoNextJob(w) /\ w \in Issuers /\ RuntimeTypeOK
    BY DropJob, WorkingFacts DEF Working
  <1>2. RuntimeTypeOK'
    BY <1>1 DEF RuntimeTypeOK, NoNextJob, RowKept
  <1>3. \A j \in Intents : Untouched(j)
    BY TableKept DEF Untouched, RowKept
  <1>4. TicketInv(w)' /\ \A j \in Intents : JobInv(w, j)' /\ RecordInv(w, j)'
    BY <1>1 DEF NoNextJob, TicketInv, JobInv, RecordInv, NoJob
  <1>5. {w} \in SUBSET Issuers /\ clock <= clock'
    BY <1>1, WorkingFacts DEF TicketsOfOthers
  <1>6. /\ \A v \in {w} : TicketInv(v)'
        /\ \A v \in {w}, j \in Intents : JobInv(v, j)' /\ RecordInv(v, j)'
        /\ \A x \in Issuers \ {w} : job'[x] = job[x] /\ ticket'[x] = ticket[x]
        /\ LedgerInv /\ RuntimeInv
    BY <1>1, <1>4 DEF NoNextJob, TicketsOfOthers, Working
  <1> QED
    BY <1>2, <1>3, <1>5, <1>6, Bystanding

-----------------------------------------------------------------------------
(* The steps of a call, up to the submission *)

\* A call takes, or does not get, its lease, and gives it back at the end.
LEMMA LeaseKeeps ==
  ASSUME NEW w, NEW i, Working(w, i), AcquireLease(w) \/ IntentBusy(w) \/ ReleaseLease(w)
  PROVE  RuntimeInv'
  <1> USE DEF TheIntent, At
  <1>0. /\ w \in Issuers /\ i \in Intents /\ job[w] # NoJob /\ job[w].intent = i
        /\ RuntimeTypeOK /\ LedgerTypeOK /\ job[w].call \in {"process", "reconcile"}
    BY WorkingFacts, JobTyped DEF Working
  <1>1. CASE AcquireLease(w)
    <2>1. /\ NextJob(w, job[w].call, job[w].block, job[w].stop, job[w].now, job[w].record)
          /\ job[w].pc = "acquire"
      BY <1>0, <1>1, GotoJob DEF AcquireLease, PCs
    <2>2. lease' \in [Intents -> Issuers \cup {"FREE", "DEAD"}] /\ lease'[i] = w
          /\ (\A j \in Intents \ {i} : lease'[j] = lease[j]) /\ lease[i] \in {"FREE", w}
      BY <1>0, <1>1 DEF AcquireLease, RuntimeTypeOK
    <2>3. TicketInv(w)' /\ JobInv(w, i)' /\ RecordInv(w, i)'
      BY <1>0, <1>1, <2>1, <2>2, WorkingFacts DEF AcquireLease, NextJob, TicketInv, JobInv,
         RecordInv, Submitting, RowKept, ledgerVars
    <2>4. /\ \A j \in Intents : PermitsKept(j)
          /\ TicketsOfOthers(w) /\ RowKept /\ UNCHANGED <<wire, order, faults, rejected, taken, permits>>
      BY <1>1, TableKept DEF AcquireLease, ledgerVars, TicketsOfOthers
    <2>5. /\ lease[i] \notin Issuers \/ lease[i] = w
          /\ \A x \in Issuers \ {w}, j \in Intents : lease[j] = x => lease'[j] = x
      BY <1>0, <2>2, RuntimeConstants
    <2> QED
      BY <1>0, <2>1, <2>2, <2>3, <2>4, <2>5, Going DEF NextJob, RuntimeTypeOK
  <1>2. CASE IntentBusy(w)
    <2>1. /\ job' = [job EXCEPT ![w] = NoJob] /\ RowKept /\ Quiet /\ job[w].pc = "acquire"
      BY <1>2 DEF IntentBusy
    <2>2. /\ UNCHANGED <<lease, wire, order, faults, rejected, taken, permits>>
          /\ TicketsOfOthers(w) /\ ticket'[w] = NoTicket /\ LedgerTypeOK'
      BY <1>0, <2>1, QuietTickets DEF Quiet, NoRuntimeStep, LedgerTypeOK, ledgerVars
    <2> QED
      BY <1>0, <2>1, <2>2, Dropping DEF RuntimeTypeOK
  <1>3. CASE ReleaseLease(w)
    <2>1. /\ job' = [job EXCEPT ![w] = NoJob] /\ RowKept /\ job[w].pc = "exit"
          /\ UNCHANGED <<wire, order, faults, rejected, taken, permits>>
          /\ TicketsOfOthers(w) /\ ticket'[w] = NoTicket /\ LedgerTypeOK'
      BY <1>0, <1>3, WorkingFacts DEF ReleaseLease, ledgerVars, TicketsOfOthers, LedgerTypeOK,
         TicketInv
    <2>2. lease[i] = w
      BY <1>0, <2>1, WorkingFacts DEF JobInv
    <2>3. /\ lease' \in [Intents -> Issuers \cup {"FREE", "DEAD"}]
          /\ \A j \in Intents \ {i} : lease'[j] = lease[j]
      BY <1>0, <1>3 DEF ReleaseLease, RuntimeTypeOK
    <2> QED
      BY <1>0, <2>1, <2>2, <2>3, Dropping DEF RuntimeTypeOK
  <1> QED
    BY <1>1, <1>2, <1>3

\* An intent that was never sent has no permits and nothing settled.
LEMMA UnsentFacts ==
  ASSUME NEW w, NEW i, Working(w, i), row[i].state \in Unsent
  PROVE  /\ row[i].count = 0 /\ row[i].effect = "none" /\ i \notin rejected
         /\ NoPermits(i) /\ AllVoided(i) /\ row[i].state \notin Terminal
  BY WorkingFacts, NothingIssued DEF IntentInv, Unsent, Terminal

\* Such an intent is closed and released without more ado.
LEMMA ClosingUnsent ==
  ASSUME NEW w, NEW i, Working(w, i), job[w].pc \notin {"acquire", "recheck", "record"},
         row[i].state \in Unsent, NEW state \in Terminal \ {"FINALIZED"},
         CloseReleased(w, state, FALSE), Quiet
  PROVE  RuntimeInv'
  <1>1. TicketsOfOthers(w) /\ permits' = permits /\ ticket'[w] = NoTicket /\ NoRuntimeStep
    BY QuietTickets DEF Quiet
  <1>2. row[i].effect = "none" /\ AllVoided(i) /\ row[i].state \notin Terminal
    BY UnsentFacts
  <1> QED
    BY <1>1, <1>2, Closing

\* A call with a foreign grant ends at once.
LEMMA WrongGrantKeeps ==
  ASSUME NEW w, NEW i, Working(w, i), PresentWrongGrant(w)
  PROVE  RuntimeInv'
  <1> USE DEF TheIntent, At
  <1>0. /\ job[w].intent = i /\ RuntimeTypeOK /\ job[w].pc \in {"process", "reconcile"} /\ Quiet
    BY WorkingFacts, JobTyped DEF Working, PresentWrongGrant
  <1>1. CASE job[w].call = "process" /\ row[i].state = "PROPOSED"
    <2>1. CloseReleased(w, "STOPPED", FALSE)
      BY <1>0, <1>1 DEF PresentWrongGrant
    <2>2. "STOPPED" \in Terminal \ {"FINALIZED"} /\ row[i].state \in Unsent
      BY <1>1 DEF Terminal, Unsent
    <2> QED
      BY <1>0, <2>1, <2>2, ClosingUnsent
  <1>2. CASE ~(job[w].call = "process" /\ row[i].state = "PROPOSED")
    <2>1. Leave(w) /\ RowKept
      BY <1>0, <1>2 DEF PresentWrongGrant
    <2> QED
      BY <1>0, <2>1, JustLeaving DEF Quiet, NoRuntimeStep, RuntimeTypeOK
  <1> QED
    BY <1>1, <1>2

\* The first look at the intent: it has ended, its grant is stopped, or it goes on
\* where its state says.
LEMMA DispatchKeeps ==
  ASSUME NEW w, NEW i, Working(w, i), ProcessFinished(w) \/ ProcessInactive(w) \/ ProcessActive(w)
  PROVE  RuntimeInv'
  <1> USE DEF TheIntent, At
  <1>0. /\ w \in Issuers /\ i \in Intents /\ job[w] # NoJob /\ job[w].intent = i
        /\ RuntimeTypeOK /\ job[w] \in Job /\ job[w].pc = "process" /\ Quiet
        /\ job[w].now \in Nat /\ job[w].block \in {"none", "failure", "status"}
    BY WorkingFacts, JobTyped DEF Working, ProcessFinished, ProcessInactive, ProcessActive
  <1>t. TicketsOfOthers(w) /\ ticket' = ticket /\ permits' = permits /\ clock' = clock
        /\ ticket[w] = NoTicket /\ NoRuntimeStep
    BY <1>0, QuietTickets DEF Quiet
  <1>r. ASSUME NEW other \in {"none", "status"}, ReconcileWith(w, other), RowKept,
               row[i].state \notin Terminal
        PROVE  RuntimeInv'
    <2> DEFINE block == IF row[i].block THEN "failure" ELSE other
    <2>1. NextJob(w, "reconcile", block, job[w].stop, job[w].now, job[w].record)
      <3>1. block \in {"none", "failure", "status"} /\ job \in [Issuers -> Job \cup {NoJob}]
        BY <1>0 DEF RuntimeTypeOK
      <3>2. job' = [job EXCEPT ![w].pc = "reconcile", ![w].block = block]
        BY <1>0, <1>r DEF ReconcileWith
      <3> HIDE DEF block
      <3>3. /\ job' \in [Issuers -> Job \cup {NoJob}]
            /\ job'[w] \in Job /\ job'[w].pc = "reconcile" /\ job'[w].stop = job[w].stop
            /\ job'[w].record = job[w].record /\ job'[w].block = block
            /\ job'[w].intent = job[w].intent /\ job'[w].now = job[w].now
            /\ \A x \in Issuers \ {w} : job'[x] = job[x]
        BY <1>0, <3>1, <3>2 DEF Job, PCs
      <3> QED
        BY <3>3 DEF NextJob, NoJob
    <2>2. row[i].state # "ABSENT" /\ lease[i] = w /\ job[w].now <= clock
      BY <1>0, WorkingFacts DEF JobInv
    <2>3. i \in rejected /\ row[i].effect = "none" => row[i].block \/ row[i].state \in Terminal
      BY WorkingFacts DEF IntentInv
    <2>5. TicketInv(w)' /\ RecordInv(w, i)' /\ JobInv(w, i)'
      BY <1>0, <1>t, <1>r, <2>1, <2>2, <2>3 DEF NextJob, TicketInv, JobInv, RecordInv, Submitting,
         RowKept, NoRuntimeStep
    <2> QED
      BY <1>0, <1>r, <2>1, <2>5, Moving
  <1>1. CASE ProcessFinished(w)
    BY <1>0, <1>1, JustLeaving DEF ProcessFinished, Quiet, NoRuntimeStep, RuntimeTypeOK
  <1>2. CASE ProcessInactive(w)
    <2>1. CASE row[i].state \in {"PROPOSED", "AUTHORIZED"}
      <3>1. CloseReleased(w, "STOPPED", FALSE)
        BY <1>0, <1>2, <2>1 DEF ProcessInactive
      <3>2. "STOPPED" \in Terminal \ {"FINALIZED"} /\ row[i].state \in Unsent
        BY <2>1 DEF Terminal, Unsent
      <3> QED
        BY <1>0, <3>1, <3>2, ClosingUnsent
    <2>2. CASE row[i].state \notin {"PROPOSED", "AUTHORIZED"}
      BY <1>0, <1>2, <2>2, <1>r DEF ProcessInactive
    <2> QED
      BY <2>1, <2>2
  <1>3. CASE ProcessActive(w)
    <2>0. /\ row[i].state # "ABSENT" /\ lease[i] = w /\ job[w].now <= clock /\ RowKept
          /\ row[i].state \notin Terminal
      BY <1>0, <1>3, WorkingFacts DEF JobInv, ProcessActive
    <2>1. CASE row[i].state \in {"PROPOSED", "AUTHORIZED"}
      <3> DEFINE pc == IF row[i].state = "PROPOSED" THEN "gate" ELSE "recover"
      <3>1. Goto(w, pc) /\ pc \in PCs
        BY <1>0, <1>3, <2>1 DEF ProcessActive, PCs
      <3>4. \/ pc = "gate" /\ row[i].state = "PROPOSED"
            \/ pc = "recover" /\ row[i].state = "AUTHORIZED"
        BY <2>1
      <3> HIDE DEF pc
      <3>2. NextJob(w, pc, job[w].block, job[w].stop, job[w].now, job[w].record)
        BY <1>0, <3>1, GotoJob
      <3>3. TicketInv(w)' /\ RecordInv(w, i)' /\ JobInv(w, i)'
        BY <1>0, <1>t, <2>0, <3>2, <3>4 DEF NextJob, TicketInv, JobInv, RecordInv, Submitting,
           RowKept, NoRuntimeStep
      <3> QED
        BY <1>0, <2>0, <3>2, <3>3, Moving
    <2>2. CASE row[i].state \notin {"PROPOSED", "AUTHORIZED"}
      BY <1>0, <1>3, <2>0, <2>2, <1>r DEF ProcessActive
    <2> QED
      BY <2>1, <2>2
  <1> QED
    BY <1>1, <1>2, <1>3

\* The gates, the reservation of the budget, and the two transitions to RESERVED.
LEMMA GatesKeep ==
  ASSUME NEW w, NEW i, Working(w, i),
         \/ \E verdict \in {"DENIED", "DEFERRED", "STOPPED"} : GateRefuses(w, verdict)
         \/ RecoveryRefused(w) \/ ReserveUsage(w) \/ ReservationDenied(w)
         \/ Authorize(w) \/ Reserve(w)
  PROVE  RuntimeInv'
  <1> USE DEF TheIntent, At
  <1>0. /\ w \in Issuers /\ i \in Intents /\ job[w] # NoJob /\ job[w].intent = i
        /\ RuntimeTypeOK /\ job[w].now \in Nat
        /\ job[w].pc \in {"gate", "recover", "authorize", "reserve"} /\ Quiet
    BY WorkingFacts, JobTyped DEF Working, GateRefuses, RecoveryRefused, ReserveUsage,
       ReservationDenied, Authorize, Reserve
  <1>t. TicketsOfOthers(w) /\ ticket' = ticket /\ permits' = permits /\ clock' = clock
        /\ ticket[w] = NoTicket /\ NoRuntimeStep
    BY <1>0, QuietTickets DEF Quiet
  <1>j. /\ job[w].pc \in {"gate", "authorize"} => row[i].state = "PROPOSED"
        /\ job[w].pc \in {"recover", "reserve"} => row[i].state = "AUTHORIZED"
        /\ job[w].pc = "authorize" => usage[i] = "HELD"
        /\ lease[i] = w /\ job[w].now <= clock /\ row[i].state # "ABSENT"
    BY <1>0, WorkingFacts DEF JobInv
  <1>u. row[i].state \in Unsent
    BY <1>0, <1>j DEF Unsent
  <1>v. /\ row[i].count = 0 /\ row[i].effect = "none" /\ i \notin rejected
        /\ NoPermits(i) /\ AllVoided(i) /\ row[i].state \notin Terminal
    BY <1>u, UnsentFacts
  <1>1. ASSUME NEW verdict \in {"DENIED", "DEFERRED", "STOPPED"}, GateRefuses(w, verdict)
        PROVE  RuntimeInv'
    <2>1. verdict \in Terminal \ {"FINALIZED"} /\ CloseReleased(w, verdict, FALSE)
      BY <1>1 DEF Terminal, GateRefuses
    <2> QED
      BY <1>0, <1>u, <2>1, ClosingUnsent
  <1>2. CASE RecoveryRefused(w)
    <2>1. "STOPPED" \in Terminal \ {"FINALIZED"} /\ CloseReleased(w, "STOPPED", FALSE)
      BY <1>2 DEF Terminal, RecoveryRefused
    <2> QED
      BY <1>0, <1>u, <2>1, ClosingUnsent
  <1>3. CASE ReserveUsage(w)
    <2>1. /\ NextJob(w, "authorize", job[w].block, job[w].stop, job[w].now, job[w].record)
          /\ job[w].pc = "gate" /\ row' = row
      BY <1>0, <1>3, GotoJob DEF ReserveUsage, PCs
    <2>2. /\ usage' \in [Intents -> {"NONE", "HELD", "COMMITTED", "RELEASED"}]
          /\ \A j \in Intents \ {i} : usage'[j] = usage[j]
          /\ usage[i] \in {"NONE", "HELD"} /\ usage'[i] = "HELD"
      BY <1>0, <1>3, <1>j, <2>1, WorkingFacts DEF ReserveUsage, RuntimeTypeOK, IntentInv
    <2>3. PermitsKept(i) /\ \A j \in Intents : PermitsKept(j)
      BY <1>t, TableKept
    <2>4. IntentInv(i)'
      BY <1>0, <1>t, <1>v, <2>1, <2>2, <2>3, WorkingFacts DEF IntentInv, PermitsKept, NoRuntimeStep
    <2>5. TicketInv(w)' /\ RecordInv(w, i)' /\ JobInv(w, i)'
      BY <1>0, <1>t, <1>j, <2>1, <2>2 DEF NextJob, TicketInv, JobInv, RecordInv, Submitting,
         NoRuntimeStep
    <2>6. Truthful => BookInv(i)'
      BY <1>t, <2>1, <2>2, <2>3, WorkingFacts DEF BookInv, PermitsKept, NoRuntimeStep
    <2> QED
      BY <1>0, <1>t, <1>j, <2>1, <2>2, <2>3, <2>4, <2>5, <2>6, Transiting
         DEF RuntimeTypeOK, NoRuntimeStep
  <1>4. CASE ReservationDenied(w)
    <2>1. /\ row' = Moved(i, "DEFERRED", FALSE) /\ usage' = usage /\ usage[i] = "NONE" /\ Leave(w)
          /\ "DEFERRED" \in States /\ job[w].pc = "gate"
      BY <1>0, <1>4 DEF ReservationDenied, States
    <2>2. NextRow(i, "DEFERRED", "none", row[i].fill, 0, FALSE, row[i].disputed)
      BY <1>0, <1>v, <2>1, MovedRow
    <2>3. PermitsKept(i)
      BY <1>t, TableKept
    <2>4. IntentInv(i)'
      <3>1. row[i].fill = None /\ ~row[i].disputed /\ IntentInv(i)
        BY <1>v, <1>j, <2>1, WorkingFacts DEF IntentInv
      <3>2. /\ row'[i].state = "DEFERRED" /\ row'[i].effect = "none" /\ row'[i].fill = None
            /\ row'[i].count = 0 /\ ~row'[i].disputed /\ usage'[i] = "NONE"
            /\ NoPermits(i)' /\ OneAlive(i)' /\ i \notin rejected'
        BY <1>t, <1>v, <2>1, <2>2, <2>3, <3>1 DEF IntentInv, NextRow, PermitsKept, NoRuntimeStep
      <3> QED
        BY <3>2 DEF IntentInv, Unsent, InFlight, Terminal, None
    <2>5. Disarmed(i)
      BY <1>v, NothingIssued
    <2>6. Truthful => BookInv(i)'
      BY <1>t, <2>1, <2>2, <2>3, <2>5, WorkingFacts DEF BookInv, NextRow, PermitsKept, NoRuntimeStep
    <2> QED
      BY <1>0, <1>t, <2>1, <2>2, <2>4, <2>6, Leaving DEF RuntimeTypeOK, NoRuntimeStep, NextRow
  <1>5. CASE Authorize(w) \/ Reserve(w)
    <2> DEFINE state == IF job[w].pc = "authorize" THEN "AUTHORIZED" ELSE "RESERVED"
               pc == IF job[w].pc = "authorize" THEN "reserve" ELSE "submit"
    <2>1. /\ row' = Moved(i, state, FALSE) /\ usage' = usage /\ Goto(w, pc)
          /\ state \in States /\ pc \in PCs
      BY <1>0, <1>5 DEF Authorize, Reserve, States, PCs
    <2>2. /\ \/ state = "AUTHORIZED" /\ pc = "reserve"
             \/ state = "RESERVED" /\ pc = "submit"
          /\ usage[i] = "HELD"
      BY <1>0, <1>5, <1>j, WorkingFacts DEF Authorize, Reserve, IntentInv, InFlight
    <2> HIDE DEF state, pc
    <2>3. NextRow(i, state, "none", row[i].fill, 0, FALSE, row[i].disputed)
      BY <1>0, <1>v, <2>1, MovedRow
    <2>4. NextJob(w, pc, job[w].block, job[w].stop, job[w].now, job[w].record)
      BY <1>0, <2>1, GotoJob
    <2>5. PermitsKept(i) /\ \A j \in Intents : PermitsKept(j)
      BY <1>t, TableKept
    <2>6. IntentInv(i)'
      <3>1. row[i].fill = None /\ ~row[i].disputed /\ IntentInv(i)
        BY <1>v, <1>u, WorkingFacts DEF IntentInv, Unsent
      <3> QED
        BY <1>0, <1>t, <1>v, <2>1, <2>2, <2>3, <2>5, <3>1 DEF IntentInv, NextRow,
           PermitsKept, NoRuntimeStep, Unsent, InFlight, Terminal, None
    <2>7. TicketInv(w)' /\ RecordInv(w, i)' /\ JobInv(w, i)'
      BY <1>0, <1>t, <1>j, <1>v, <2>1, <2>2, <2>3, <2>4, <2>5 DEF NextJob, NextRow, TicketInv, JobInv,
         RecordInv, Submitting, NoRuntimeStep, PermitsKept
    <2>8. Truthful => BookInv(i)'
      BY <1>t, <2>1, <2>2, <2>3, <2>5, WorkingFacts DEF BookInv, NextRow, PermitsKept, NoRuntimeStep,
         Terminal
    <2>9. row'[i].state # "ABSENT" /\ rejected' = rejected
      BY <1>t, <2>2, <2>3 DEF NextRow, NoRuntimeStep
    <2> QED
      BY <1>0, <1>t, <2>1, <2>3, <2>4, <2>5, <2>6, <2>7, <2>8, <2>9, Transiting
         DEF RuntimeTypeOK, NoRuntimeStep, NextRow
  <1> QED
    BY <1>1, <1>2, <1>3, <1>4, <1>5

-----------------------------------------------------------------------------
(* The steps of a submission *)

\* The checks before an attempt, their failure, and the attempt's transaction.
LEMMA SubmitKeeps ==
  ASSUME NEW w, NEW i, Working(w, i), Submit(w) \/ SubmitRefused(w) \/ BeginSubmission(w)
  PROVE  RuntimeInv'
  <1> USE DEF TheIntent, At
  <1>0. /\ w \in Issuers /\ i \in Intents /\ job[w] # NoJob /\ job[w].intent = i
        /\ RuntimeTypeOK /\ job[w] \in Job /\ job[w].now \in Nat
        /\ job[w].pc \in {"submit", "begin"} /\ Quiet
    BY WorkingFacts, JobTyped DEF Working, Submit, SubmitRefused, BeginSubmission
  <1>t. TicketsOfOthers(w) /\ ticket' = ticket /\ permits' = permits /\ clock' = clock
        /\ ticket[w] = NoTicket /\ NoRuntimeStep /\ clock \in Nat
    BY <1>0, QuietTickets, WorkingFacts DEF Quiet
  <1>j. /\ row[i].state \in {"RESERVED", "RECONCILING"}
        /\ AllVoided(i) /\ row[i].effect = "none" /\ i \notin rejected
        /\ lease[i] = w /\ job[w].now <= clock /\ row[i].state # "ABSENT"
    BY <1>0, WorkingFacts DEF JobInv, Submitting
  <1>k. PermitsKept(i) /\ AllVoided(i)' /\ \A j \in Intents : PermitsKept(j)
    BY <1>t, <1>j, TableKept DEF PermitsKept
  <1>1. CASE Submit(w)
    <2>1. NextJob(w, "begin", job[w].block, job[w].stop, clock, job[w].record)
      <3>1. job' = [job EXCEPT ![w].pc = "begin", ![w].now = clock]
            /\ job \in [Issuers -> Job \cup {NoJob}]
        BY <1>0, <1>1 DEF Submit, RuntimeTypeOK
      <3>2. /\ job' \in [Issuers -> Job \cup {NoJob}]
            /\ job'[w] \in Job /\ job'[w].pc = "begin" /\ job'[w].stop = job[w].stop
            /\ job'[w].record = job[w].record /\ job'[w].block = job[w].block
            /\ job'[w].intent = job[w].intent /\ job'[w].now = clock
            /\ \A x \in Issuers \ {w} : job'[x] = job[x]
        BY <1>0, <1>t, <3>1 DEF Job, PCs
      <3> QED
        BY <3>2 DEF NextJob, NoJob
    <2>2. RowKept
      BY <1>1 DEF Submit
    <2>3. TicketInv(w)' /\ RecordInv(w, i)' /\ JobInv(w, i)'
      BY <1>0, <1>t, <1>j, <1>k, <2>1, <2>2 DEF NextJob, TicketInv, JobInv, RecordInv, Submitting,
         RowKept, NoRuntimeStep
    <2> QED
      BY <1>0, <2>1, <2>2, <2>3, Moving
  <1>2. CASE SubmitRefused(w)
    <2>1. NextJob(w, "stop", job[w].block, "release", job[w].now, Silence) /\ RowKept
      BY <1>0, <1>2, StopJob DEF SubmitRefused
    <2>2. TicketInv(w)' /\ RecordInv(w, i)' /\ JobInv(w, i)'
      BY <1>0, <1>t, <1>j, <1>k, <2>1 DEF NextJob, TicketInv, JobInv, RecordInv, Submitting,
         RowKept, NoRuntimeStep, Terminal
    <2> QED
      BY <1>0, <2>1, <2>2, Moving
  <1>3. CASE BeginSubmission(w)
    <2>1. NextJob(w, "issue", job[w].block, job[w].stop, job[w].now, job[w].record) /\ usage' = usage
      BY <1>0, <1>3, GotoJob DEF BeginSubmission, PCs
    <2>2. NextRow(i, "SUBMITTED", "none", row[i].fill, row[i].count + 1, FALSE, row[i].disputed)
      <3>1. row \in [Intents -> Row] /\ row[i] \in Row /\ row[i].count \in Nat
        BY <1>0, WorkingFacts DEF RuntimeTypeOK
      <3>2. row' = [row EXCEPT ![i].state = "SUBMITTED", ![i].count = @ + 1,
                               ![i].block = FALSE, ![i].amb = None]
        BY <1>0, <1>3 DEF BeginSubmission
      <3> QED
        BY <1>0, <1>j, <3>1, <3>2 DEF NextRow, Row, States, None
    <2>3. /\ row[i].fill = None /\ ~row[i].disputed /\ usage[i] = "HELD" /\ row[i].count \in Nat
          /\ OneAlive(i)'
      BY <1>j, <1>k, WorkingFacts DEF IntentInv, InFlight, PermitsKept
    <2>4. /\ row'[i].state = "SUBMITTED" /\ row'[i].effect = "none" /\ row'[i].fill = None
          /\ row'[i].count > 0 /\ row'[i].count # 0 /\ ~row'[i].disputed /\ usage'[i] = "HELD"
          /\ i \notin rejected'
      BY <1>t, <1>j, <2>1, <2>2, <2>3 DEF NextRow, NoRuntimeStep
    <2>5. IntentInv(i)'
      BY <2>3, <2>4 DEF IntentInv, Unsent, InFlight, Terminal, None
    <2>6. TicketInv(w)' /\ RecordInv(w, i)' /\ JobInv(w, i)'
      BY <1>0, <1>t, <1>j, <1>k, <2>1, <2>4 DEF NextJob, TicketInv, JobInv, RecordInv, Submitting,
         NoRuntimeStep
    <2>7. Truthful => BookInv(i)'
      BY <1>t, <1>k, <2>1, <2>4, WorkingFacts DEF BookInv, PermitsKept, NoRuntimeStep, Terminal
    <2> QED
      BY <1>0, <1>t, <1>k, <2>1, <2>2, <2>4, <2>5, <2>6, <2>7, Transiting
         DEF RuntimeTypeOK, NoRuntimeStep, NextRow
  <1> QED
    BY <1>1, <1>2, <1>3

\* The transactions of issue(), and its refusals.
LEMMA IssueKeeps ==
  ASSUME NEW w, NEW i, Working(w, i),
         IssueFence(w) \/ IssueRecheck(w) \/ IssueRecord(w) \/ IssueRefused(w)
  PROVE  RuntimeInv'
  <1> USE DEF TheIntent, At
  <1>0. /\ w \in Issuers /\ i \in Intents /\ job[w] # NoJob /\ job[w].intent = i
        /\ RuntimeTypeOK /\ LedgerTypeOK /\ job[w].now \in Nat /\ NoRuntimeStep
        /\ job[w].pc \in {"issue", "recheck", "record"}
    BY WorkingFacts, JobTyped DEF Working, IssueFence, IssueRecheck, IssueRecord, IssueRefused
  <1>j. /\ row[i].state = "SUBMITTED" /\ row[i].count > 0
        /\ AllVoided(i) /\ row[i].effect = "none" /\ i \notin rejected
        /\ lease[i] = w /\ job[w].now <= clock
        /\ job[w].pc \in {"recheck", "record"} => ticket[w].intent = i /\ ticket[w] # NoTicket
        /\ job[w].pc = "issue" => ticket[w] = NoTicket
    BY <1>0, WorkingFacts DEF JobInv, Submitting, TicketInv
  <1>1. CASE IssueFence(w)
    <2>1. /\ NextJob(w, "recheck", job[w].block, job[w].stop, job[w].now, job[w].record) /\ RowKept
          /\ \E exp \in job[w].now .. Deadline[i] : AllocateFence(w, i, job[w].now, exp)
      BY <1>0, <1>1, GotoJob DEF IssueFence, PCs
    <2>2. PICK exp : AllocateFence(w, i, job[w].now, exp)
      BY <2>1
    <2>3. /\ permits' = permits /\ clock' = clock /\ TicketsOfOthers(w)
          /\ ticket'[w].intent = i /\ ticket'[w] # NoTicket
      BY <1>0, <2>2 DEF AllocateFence, LedgerTypeOK, NoTicket, TicketsOfOthers
    <2>4. PermitsKept(i) /\ AllVoided(i)' /\ \A j \in Intents : PermitsKept(j)
      BY <1>j, <2>3, TableKept DEF PermitsKept
    <2>5. TicketInv(w)' /\ RecordInv(w, i)' /\ JobInv(w, i)'
      BY <1>0, <1>j, <2>1, <2>3, <2>4 DEF NextJob, TicketInv, JobInv, RecordInv, Submitting,
         NoRuntimeStep, RowKept
    <2> QED
      BY <1>0, <1>j, <2>1, <2>3, <2>4, <2>5, Going DEF RuntimeTypeOK, NoRuntimeStep, NextJob
  <1>2. CASE IssueRecheck(w)
    <2>1. /\ NextJob(w, "record", job[w].block, job[w].stop, job[w].now, job[w].record) /\ RowKept
          /\ Recheck(w) /\ job[w].pc = "recheck"
      BY <1>0, <1>2, GotoJob DEF IssueRecheck, PCs
    <2>3. /\ permits' = permits /\ clock' = clock /\ TicketsOfOthers(w)
          /\ ticket'[w].intent = i /\ ticket'[w] # NoTicket
      <3>1. ticket[w] \in Ticket
        BY <1>0, <1>j, <2>1 DEF LedgerTypeOK
      <3>2. ticket'[w] = [ticket[w] EXCEPT !.phase = "checked"]
        BY <1>0, <2>1 DEF Recheck, LedgerTypeOK
      <3> QED
        BY <1>0, <1>j, <2>1, <3>1, <3>2 DEF Recheck, Ticket, NoTicket, TicketsOfOthers, LedgerTypeOK
    <2>4. PermitsKept(i) /\ AllVoided(i)' /\ \A j \in Intents : PermitsKept(j)
      BY <1>j, <2>3, TableKept DEF PermitsKept
    <2>5. TicketInv(w)' /\ RecordInv(w, i)' /\ JobInv(w, i)'
      BY <1>0, <1>j, <2>1, <2>3, <2>4 DEF NextJob, TicketInv, JobInv, RecordInv, Submitting,
         NoRuntimeStep, RowKept
    <2> QED
      BY <1>0, <1>j, <2>1, <2>3, <2>4, <2>5, Going DEF RuntimeTypeOK, NoRuntimeStep, NextJob
  <1>3. CASE IssueRecord(w)
    <2>0. /\ usage' = usage /\ job[w].pc = "record" /\ usage[i] = "HELD" /\ ~row[i].disputed
          /\ row[i].fill = None /\ row \in [Intents -> Row] /\ row[i] \in Row
          /\ row[i].count \in Nat /\ OneAlive(i)
      BY <1>0, <1>3, <1>j, WorkingFacts DEF IssueRecord, IntentInv, InFlight, RuntimeTypeOK
    <2>1. CASE Live(i, job[w].now) = {}
      <3>1. /\ RecordPermit(w) /\ row' = [row EXCEPT ![i].amb = ticket[w].expires]
            /\ NextJob(w, "send", job[w].block, job[w].stop, job[w].now, job[w].record)
        BY <1>0, <1>3, <2>1, GotoJob DEF IssueRecord, PCs
      <3>2. /\ \A j \in Intents \ {i} : PermitsKept(j)
            /\ OneAlive(i)' /\ LastRecorded(i)'
            /\ ConsumedRows(i) # {} => ConsumedRows(i)' # {}
        BY <1>0, <1>j, <2>0, <3>1, KeptByRecord
      <3>3. /\ TicketsOfOthers(w) /\ ticket'[w] = NoTicket /\ clock' = clock
            /\ DOMAIN permits \subseteq DOMAIN permits'
        BY <1>0, <3>1 DEF RecordPermit, TicketsOfOthers, LedgerTypeOK
      <3>4. NextRow(i, "SUBMITTED", "none", row[i].fill, row[i].count, row[i].block, row[i].disputed)
        <4>1. ticket[w].expires \in Nat
          BY <1>0, <1>j, <2>0 DEF LedgerTypeOK, Ticket
        <4> QED
          BY <1>0, <1>j, <2>0, <3>1, <4>1 DEF NextRow, Row
      <3>5. /\ row'[i].state = "SUBMITTED" /\ row'[i].effect = "none" /\ row'[i].fill = None
            /\ row'[i].count > 0 /\ row'[i].count # 0 /\ ~row'[i].disputed /\ usage'[i] = "HELD"
            /\ i \notin rejected'
        BY <1>0, <1>j, <2>0, <3>4 DEF NextRow, NoRuntimeStep
      <3>6. IntentInv(i)'
        BY <3>2, <3>5 DEF IntentInv, Unsent, InFlight, Terminal, None
      <3>7. TicketInv(w)' /\ RecordInv(w, i)' /\ JobInv(w, i)'
        BY <1>0, <1>j, <3>1, <3>2, <3>3, <3>5 DEF NextJob, TicketInv, JobInv, RecordInv, Submitting,
           NoRuntimeStep
      <3>8. Truthful => BookInv(i)'
        BY <1>0, <3>2, <3>5, WorkingFacts DEF BookInv, NoRuntimeStep, Terminal
      <3> QED
        BY <1>0, <2>0, <3>1, <3>2, <3>3, <3>4, <3>5, <3>6, <3>7, <3>8, Transiting
           DEF RuntimeTypeOK, NoRuntimeStep, NextRow
    <2>2. CASE Live(i, job[w].now) # {}
      <3>1. /\ AbandonIssue(w) /\ row' = Moved(i, "UNKNOWN", FALSE) /\ "UNKNOWN" \in States
            /\ NextJob(w, "reconcile", job[w].block, job[w].stop, job[w].now, job[w].record)
        BY <1>0, <1>3, <2>2, GotoJob DEF IssueRecord, PCs, States
      <3>2. /\ permits' = permits /\ TicketsOfOthers(w) /\ ticket'[w] = NoTicket /\ clock' = clock
        BY <1>0, <3>1 DEF AbandonIssue, TicketsOfOthers, LedgerTypeOK
      <3>3. PermitsKept(i) /\ \A j \in Intents : PermitsKept(j)
        BY <3>2, TableKept
      <3>4. NextRow(i, "UNKNOWN", "none", row[i].fill, row[i].count, FALSE, row[i].disputed)
        BY <1>0, <1>j, <3>1, MovedRow
      <3>5. /\ row'[i].state = "UNKNOWN" /\ row'[i].effect = "none" /\ row'[i].fill = None
            /\ row'[i].count > 0 /\ row'[i].count # 0 /\ ~row'[i].disputed /\ usage'[i] = "HELD"
            /\ i \notin rejected' /\ OneAlive(i)'
        BY <1>0, <1>j, <2>0, <3>3, <3>4 DEF NextRow, NoRuntimeStep, PermitsKept
      <3>6. IntentInv(i)'
        BY <3>5 DEF IntentInv, Unsent, InFlight, Terminal, None
      <3>7. TicketInv(w)' /\ RecordInv(w, i)' /\ JobInv(w, i)'
        BY <1>0, <1>j, <3>1, <3>2, <3>5 DEF NextJob, TicketInv, JobInv, RecordInv, Submitting,
           NoRuntimeStep
      <3>8. Truthful => BookInv(i)'
        BY <1>0, <3>3, <3>5, WorkingFacts DEF BookInv, NoRuntimeStep, Terminal, PermitsKept
      <3> QED
        BY <1>0, <2>0, <3>1, <3>2, <3>3, <3>4, <3>5, <3>6, <3>7, <3>8, Transiting
           DEF RuntimeTypeOK, NoRuntimeStep, NextRow
    <2> QED
      BY <2>1, <2>2
  <1>4. CASE IssueRefused(w)
    <2>1. /\ permits' = permits /\ TicketsOfOthers(w) /\ ticket'[w] = NoTicket
      BY <1>0, <1>4 DEF IssueRefused, AbandonIssue, ledgerVars, TicketsOfOthers, LedgerTypeOK
    <2>2. CloseReleased(w, "FAILED_SAFE", FALSE) /\ "FAILED_SAFE" \in Terminal \ {"FINALIZED"}
          /\ row[i].state \notin Terminal
      BY <1>4, <1>j DEF IssueRefused, Terminal
    <2> QED
      BY <1>0, <1>j, <2>1, <2>2, Closing
  <1> QED
    BY <1>1, <1>2, <1>3, <1>4

\* The request leaves, and the adapter comes back with an answer that proves nothing or
\* with a deterministic failure.
LEMMA AdapterKeeps ==
  ASSUME NEW w, NEW i, Working(w, i), Send(w) \/ AdapterReturns(w) \/ AdapterRejects(w)
  PROVE  RuntimeInv'
  <1> USE DEF TheIntent, At
  <1>0. /\ w \in Issuers /\ i \in Intents /\ job[w] # NoJob /\ job[w].intent = i
        /\ RuntimeTypeOK /\ job[w] \in Job /\ job[w].now \in Nat
        /\ job[w].pc \in {"send", "await"} /\ UNCHANGED ledgerVars
    BY WorkingFacts, JobTyped DEF Working, Send, AdapterReturns, AdapterRejects, Quiet
  <1>t. TicketsOfOthers(w) /\ ticket' = ticket /\ permits' = permits /\ clock' = clock
        /\ ticket[w] = NoTicket
    BY <1>0, WorkingFacts DEF ledgerVars, TicketsOfOthers, TicketInv
  <1>j. /\ row[i].state = "SUBMITTED" /\ row[i].count > 0
        /\ row[i].effect = "none" /\ i \notin rejected /\ lease[i] = w /\ job[w].now <= clock
        /\ job[w].pc = "send" => LastRecorded(i)
    BY <1>0, WorkingFacts DEF JobInv, Submitting
  <1>i. /\ usage[i] = "HELD" /\ ~row[i].disputed /\ row[i].fill = None /\ row[i].count # 0
        /\ OneAlive(i)
    BY <1>j, WorkingFacts DEF IntentInv, InFlight
  <1>k. PermitsKept(i) /\ OneAlive(i)' /\ \A j \in Intents : PermitsKept(j)
    BY <1>t, <1>i, TableKept DEF PermitsKept
  <1>1. CASE Send(w)
    <2>1. /\ NextJob(w, "await", job[w].block, job[w].stop, job[w].now, job[w].record) /\ RowKept
          /\ wire' = wire \cup {LastPermit(i)} /\ UNCHANGED <<lease, order, faults, rejected, taken>>
          /\ job[w].pc = "send"
      BY <1>0, <1>1, GotoJob DEF Send, PCs
    <2>2. LastPermit(i) \in DOMAIN permits
      BY <1>j, <2>1 DEF LastRecorded, LastPermit
    <2>3. wire' \subseteq DOMAIN permits'
      BY <1>0, <1>t, <2>1, <2>2 DEF RuntimeTypeOK
    <2>4. TicketInv(w)' /\ RecordInv(w, i)' /\ JobInv(w, i)'
      BY <1>0, <1>t, <1>j, <2>1 DEF NextJob, TicketInv, JobInv, RecordInv, Submitting, RowKept
    <2> QED
      BY <1>0, <1>t, <1>j, <1>k, <2>1, <2>3, <2>4, Going DEF NextJob, RuntimeTypeOK
  <1>2. ASSUME NEW block \in BOOLEAN, row' = Moved(i, "UNKNOWN", block), usage' = usage,
               NEW jb, NextJob(w, "reconcile", jb, job[w].stop, job[w].now, job[w].record),
               \/ rejected' = rejected
               \/ rejected' = rejected \cup {i} /\ block /\ jb = "failure",
               UNCHANGED <<lease, wire, order, faults, taken>>
        PROVE  RuntimeInv'
    <2>1. NextRow(i, "UNKNOWN", "none", row[i].fill, row[i].count, block, row[i].disputed)
      <3>1. "UNKNOWN" \in States
        BY DEF States
      <3> QED
        BY <1>0, <1>j, <1>2, <3>1, MovedRow
    <2>2. /\ row'[i].state = "UNKNOWN" /\ row'[i].effect = "none" /\ row'[i].fill = None
          /\ row'[i].count > 0 /\ row'[i].count # 0 /\ ~row'[i].disputed /\ usage'[i] = "HELD"
          /\ row'[i].block = block /\ (i \in rejected' => block /\ jb = "failure")
      BY <1>j, <1>i, <1>2, <2>1 DEF NextRow
    <2>3. IntentInv(i)'
      BY <1>k, <2>2 DEF IntentInv, Unsent, InFlight, Terminal, None
    <2>4. TicketInv(w)' /\ RecordInv(w, i)' /\ JobInv(w, i)'
      BY <1>0, <1>t, <1>j, <1>2, <2>2 DEF NextJob, TicketInv, JobInv, RecordInv, Submitting
    <2>5. Truthful => BookInv(i)'
      BY <1>k, <1>2, <2>2, WorkingFacts DEF BookInv, Terminal, PermitsKept
    <2>6. rejected' \subseteq rejected \cup {i}
      BY <1>2
    <2> QED
      BY <1>0, <1>t, <1>k, <1>2, <2>1, <2>2, <2>3, <2>4, <2>5, <2>6, Transiting
         DEF RuntimeTypeOK, NextRow
  <1>3. CASE AdapterReturns(w)
    <2>1. NextJob(w, "reconcile", job[w].block, job[w].stop, job[w].now, job[w].record)
      BY <1>0, <1>3, GotoJob DEF AdapterReturns, PCs
    <2> QED
      BY <1>0, <1>3, <2>1, <1>2 DEF AdapterReturns, Quiet, NoRuntimeStep
  <1>4. CASE AdapterRejects(w)
    <2>1. NextJob(w, "reconcile", "failure", job[w].stop, job[w].now, job[w].record)
      <3>1. job' = [job EXCEPT ![w].pc = "reconcile", ![w].block = "failure"]
            /\ job \in [Issuers -> Job \cup {NoJob}]
        BY <1>0, <1>4 DEF AdapterRejects, RuntimeTypeOK
      <3>2. /\ job' \in [Issuers -> Job \cup {NoJob}]
            /\ job'[w] \in Job /\ job'[w].pc = "reconcile" /\ job'[w].stop = job[w].stop
            /\ job'[w].record = job[w].record /\ job'[w].block = "failure"
            /\ job'[w].intent = job[w].intent /\ job'[w].now = job[w].now
            /\ \A x \in Issuers \ {w} : job'[x] = job[x]
        BY <1>0, <3>1 DEF Job, PCs
      <3> QED
        BY <3>2 DEF NextJob, NoJob
    <2> QED
      BY <1>0, <1>4, <2>1, <1>2 DEF AdapterRejects
  <1> QED
    BY <1>1, <1>3, <1>4

-----------------------------------------------------------------------------
(* The steps of a reconciliation *)

\* The entry of reconcile(): the transition to RECONCILING, or the reasons not to.
LEMMA ReconcileKeeps ==
  ASSUME NEW w, NEW i, Working(w, i),
         Reconcile(w) \/ ReconcileNotApplicable(w) \/ ReconcileUnconfigured(w)
  PROVE  RuntimeInv'
  <1> USE DEF TheIntent, At
  <1>0. /\ w \in Issuers /\ i \in Intents /\ job[w] # NoJob /\ job[w].intent = i
        /\ RuntimeTypeOK /\ job[w] \in Job /\ job[w].now \in Nat
        /\ job[w].block \in {"none", "failure", "status"}
        /\ job[w].pc = "reconcile" /\ Quiet
    BY WorkingFacts, JobTyped DEF Working, Reconcile, ReconcileNotApplicable, ReconcileUnconfigured
  <1>t. TicketsOfOthers(w) /\ ticket' = ticket /\ permits' = permits /\ clock' = clock
        /\ ticket[w] = NoTicket /\ NoRuntimeStep /\ clock \in Nat
    BY <1>0, QuietTickets, WorkingFacts DEF Quiet
  <1>j. /\ lease[i] = w /\ job[w].now <= clock /\ row[i].state # "ABSENT"
        /\ i \in rejected /\ row[i].effect = "none" => job[w].block # "status"
    BY <1>0, WorkingFacts DEF JobInv
  <1>k. PermitsKept(i) /\ \A j \in Intents : PermitsKept(j)
    BY <1>t, TableKept
  <1>1. CASE Reconcile(w)
    <2> DEFINE block == IF job[w].block = "none" /\ row[i].block THEN "failure" ELSE job[w].block
    <2>0. /\ row[i].state \in {"RESERVED", "SUBMITTED", "UNKNOWN", "RECONCILING", "CONFIRMED"}
          /\ row' = Moved(i, "RECONCILING", row[i].block) /\ usage' = usage
          /\ "RECONCILING" \in States
          /\ job' = [job EXCEPT ![w].pc = "verify", ![w].now = clock, ![w].block = block]
      BY <1>0, <1>1 DEF Reconcile, States, RuntimeTypeOK
    <2>1. NextJob(w, "verify", block, job[w].stop, clock, job[w].record)
      <3>1. block \in {"none", "failure", "status"} /\ job \in [Issuers -> Job \cup {NoJob}]
        BY <1>0 DEF RuntimeTypeOK
      <3> HIDE DEF block
      <3>2. /\ job' \in [Issuers -> Job \cup {NoJob}]
            /\ job'[w] \in Job /\ job'[w].pc = "verify" /\ job'[w].stop = job[w].stop
            /\ job'[w].record = job[w].record /\ job'[w].block = block
            /\ job'[w].intent = job[w].intent /\ job'[w].now = clock
            /\ \A x \in Issuers \ {w} : job'[x] = job[x]
        BY <1>0, <1>t, <2>0, <3>1 DEF Job, PCs
      <3> QED
        BY <3>2 DEF NextJob, NoJob
    <2>2. /\ IntentInv(i) /\ row[i].block \in BOOLEAN /\ row[i].count \in Nat
          /\ usage[i] = "HELD" /\ ~row[i].disputed
          /\ i \in rejected /\ row[i].effect = "none" => row[i].block /\ block = "failure"
      BY <1>0, <1>j, <2>0, WorkingFacts DEF IntentInv, InFlight, Terminal
    <2> HIDE DEF block
    <2>3. NextRow(i, "RECONCILING", row[i].effect, row[i].fill, row[i].count, row[i].block,
                  row[i].disputed)
      BY <1>0, <2>0, <2>2, MovedRow
    <2>4. /\ row'[i].state = "RECONCILING" /\ row'[i].effect = row[i].effect
          /\ row'[i].fill = row[i].fill /\ row'[i].count = row[i].count
          /\ row'[i].block = row[i].block /\ ~row'[i].disputed /\ usage'[i] = "HELD"
          /\ rejected' = rejected
      BY <1>t, <2>0, <2>2, <2>3 DEF NextRow, NoRuntimeStep
    <2>5. IntentInv(i)'
      BY <1>k, <2>2, <2>4 DEF IntentInv, Unsent, InFlight, Terminal, PermitsKept
    <2>6. TicketInv(w)' /\ RecordInv(w, i)' /\ JobInv(w, i)'
      BY <1>0, <1>t, <1>j, <2>1, <2>2, <2>4 DEF NextJob, TicketInv, JobInv, RecordInv, Submitting,
         NoRuntimeStep
    <2>7. Truthful => BookInv(i)'
      BY <1>t, <1>k, <2>4, WorkingFacts DEF BookInv, PermitsKept, NoRuntimeStep, Terminal
    <2> QED
      BY <1>0, <1>t, <1>k, <2>0, <2>1, <2>3, <2>4, <2>5, <2>6, <2>7, Transiting
         DEF RuntimeTypeOK, NoRuntimeStep, NextRow
  <1>2. CASE ReconcileNotApplicable(w)
    BY <1>0, <1>2, JustLeaving DEF ReconcileNotApplicable, Quiet, NoRuntimeStep, RuntimeTypeOK
  <1>3. CASE ReconcileUnconfigured(w)
    <2> DEFINE how == IF row[i].state \in {"PROPOSED", "AUTHORIZED", "RESERVED"} THEN "release" ELSE "held"
    <2>1. /\ StopWith(w, how) /\ RowKept /\ w \notin Configured /\ row[i].state \notin Terminal
          /\ how \in {"release", "held"} /\ Configured # Issuers
      BY <1>0, <1>3 DEF ReconcileUnconfigured
    <2>2. how = "release" => row[i].state \in Unsent
      BY DEF Unsent
    <2>3. how = "release" => AllVoided(i)' /\ row[i].effect = "none"
      BY <1>k, <2>2, UnsentFacts DEF PermitsKept
    <2> HIDE DEF how
    <2>4. NextJob(w, "stop", job[w].block, how, job[w].now, Silence)
      BY <1>0, <2>1, StopJob
    <2>5. TicketInv(w)' /\ RecordInv(w, i)' /\ JobInv(w, i)'
      BY <1>0, <1>t, <1>j, <2>1, <2>3, <2>4 DEF NextJob, TicketInv, JobInv, RecordInv, Submitting,
         RowKept, NoRuntimeStep, Terminal
    <2> QED
      BY <1>0, <2>1, <2>4, <2>5, Moving
  <1> QED
    BY <1>1, <1>2, <1>3

\* What the verifier may say of an intent is a settlement record; what a truthful one
\* says with authority is the venue's book.
LEMMA VerifierFacts ==
  ASSUME RuntimeTypeOK, NEW i \in Intents, NEW rec \in Truth(i) \cup Lies \cup {Silence}
  PROVE  /\ rec \in Record
         /\ Truthful =>
              /\ rec.auth /\ rec.status \in Reporting => order[i].status # "none"
              /\ rec.auth /\ rec.status \in {"FINALIZED", "CONFIRMED"} => order[i].status = "filled"
              /\ rec.auth /\ rec.status = "CANCELLED" =>
                   order[i].status = "cancelled" /\ rec.amount = order[i].fill
  <1>0. /\ order[i].status \in {"none", "open", "filled", "cancelled"}
        /\ order[i].fill \in 0 .. Size /\ Size \in Nat /\ i \in EffectIds
    BY RuntimeConstants DEF RuntimeTypeOK, Order, EffectIds
  <1>1. CASE rec \in Truth(i)
    <2>1. Absence \in Record /\ ~(Absence.status \in Reporting)
      BY <1>0 DEF Absence, Record, EffectIds, Amounts, None, Reporting
    <2>2. ASSUME NEW s \in Reporting
          PROVE  Report(i, s) \in Record /\ Report(i, s).status = s /\ Report(i, s).amount = order[i].fill
      BY <1>0 DEF Report, Record, Amounts, None, Reporting
    <2>3. /\ order[i].status = "none" => rec = Absence
          /\ order[i].status = "open" => rec = Report(i, "PARTIALLY_FILLED")
          /\ order[i].status = "filled" => rec \in {Report(i, "CONFIRMED"), Report(i, "FINALIZED")}
          /\ order[i].status = "cancelled" => rec = Report(i, "CANCELLED")
      BY <1>1 DEF Truth
    <2> QED
      BY <1>0, <2>1, <2>2, <2>3 DEF Reporting
  <1>2. CASE rec \in Lies
    BY <1>2, RuntimeConstants DEF Truthful, Reporting
  <1>3. CASE rec = Silence
    BY <1>3, SilenceTyped DEF Silence
  <1> QED
    BY <1>1, <1>2, <1>3

\* The answer of the verifier is kept until it is acted on.
LEMMA VerifyKeeps ==
  ASSUME NEW w, NEW i, Working(w, i), NEW rec, Verify(w, rec)
  PROVE  RuntimeInv'
  <1> USE DEF TheIntent, At
  <1>0. /\ w \in Issuers /\ i \in Intents /\ job[w] # NoJob /\ job[w].intent = i
        /\ RuntimeTypeOK /\ job[w] \in Job /\ job[w].now \in Nat
        /\ job[w].pc = "verify" /\ Quiet /\ RowKept
    BY WorkingFacts, JobTyped DEF Working, Verify
  <1>t. TicketsOfOthers(w) /\ ticket' = ticket /\ permits' = permits /\ clock' = clock
        /\ ticket[w] = NoTicket /\ NoRuntimeStep /\ clock \in Nat
    BY <1>0, QuietTickets, WorkingFacts DEF Quiet
  <1>j. /\ lease[i] = w /\ job[w].now <= clock /\ row[i].state = "RECONCILING"
        /\ i \in rejected /\ row[i].effect = "none" => job[w].block = "failure"
    BY <1>0, WorkingFacts DEF JobInv
  <1>1. rec \in Truth(i) \cup Lies \cup {Silence}
    BY <1>0 DEF Verify
  <1>2. /\ rec \in Record
        /\ Truthful =>
              /\ rec.auth /\ rec.status \in Reporting => order[i].status # "none"
              /\ rec.auth /\ rec.status \in {"FINALIZED", "CONFIRMED"} => order[i].status = "filled"
              /\ rec.auth /\ rec.status = "CANCELLED" =>
                   order[i].status = "cancelled" /\ rec.amount = order[i].fill
    BY <1>0, <1>1, VerifierFacts
  <1>3. NextJob(w, "settle", job[w].block, job[w].stop, job[w].now, rec)
    <2>1. job' = [job EXCEPT ![w].pc = "settle", ![w].record = rec]
          /\ job \in [Issuers -> Job \cup {NoJob}]
      BY <1>0 DEF Verify, RuntimeTypeOK
    <2>2. /\ job' \in [Issuers -> Job \cup {NoJob}]
          /\ job'[w] \in Job /\ job'[w].pc = "settle" /\ job'[w].stop = job[w].stop
          /\ job'[w].record = rec /\ job'[w].block = job[w].block
          /\ job'[w].intent = job[w].intent /\ job'[w].now = job[w].now
          /\ \A x \in Issuers \ {w} : job'[x] = job[x]
      BY <1>0, <1>2, <2>1 DEF Job, PCs
    <2> QED
      BY <2>2 DEF NextJob, NoJob
  <1>4. TicketInv(w)' /\ JobInv(w, i)'
    BY <1>0, <1>t, <1>j, <1>3 DEF NextJob, TicketInv, JobInv, Submitting, RowKept, NoRuntimeStep
  <1>5. Truthful => RecordInv(w, i)'
    BY <1>t, <1>2, <1>3 DEF NextJob, RecordInv, NoRuntimeStep
  <1> QED
    BY <1>0, <1>3, <1>4, <1>5, Moving

\* An answer that settles nothing: back to UNKNOWN, or to a stop over a dispute.
LEMMA UnsettledKeeps ==
  ASSUME NEW w, NEW i, Working(w, i), SettleDisputed(w) \/ SettleUnknown(w) \/ SettleNoneEarly(w)
  PROVE  RuntimeInv'
  <1> USE DEF TheIntent, At
  <1>0. /\ w \in Issuers /\ i \in Intents /\ job[w] # NoJob /\ job[w].intent = i
        /\ RuntimeTypeOK /\ job[w].now \in Nat /\ job[w].pc = "settle" /\ Quiet
    BY WorkingFacts, JobTyped DEF Working, SettleDisputed, SettleUnknown, SettleNoneEarly,
       AuthoritativeNone
  <1>t. TicketsOfOthers(w) /\ ticket' = ticket /\ permits' = permits /\ clock' = clock
        /\ ticket[w] = NoTicket /\ NoRuntimeStep
    BY <1>0, QuietTickets DEF Quiet
  <1>j. /\ lease[i] = w /\ job[w].now <= clock /\ row[i].state = "RECONCILING"
        /\ i \in rejected /\ row[i].effect = "none" => job[w].block = "failure"
    BY <1>0, WorkingFacts DEF JobInv
  <1>k. PermitsKept(i)
    BY <1>t, TableKept
  <1>1. CASE SettleDisputed(w)
    <2>1. NextJob(w, "stop", job[w].block, "disputed", job[w].now, Silence) /\ RowKept
      BY <1>0, <1>1, StopJob DEF SettleDisputed
    <2>2. TicketInv(w)' /\ RecordInv(w, i)' /\ JobInv(w, i)'
      BY <1>0, <1>t, <1>j, <2>1 DEF NextJob, TicketInv, JobInv, RecordInv, Submitting,
         RowKept, NoRuntimeStep, Terminal
    <2> QED
      BY <1>0, <2>1, <2>2, Moving
  <1>2. CASE BackToUnknown(w)
    <2> DEFINE block == job[w].block = "failure"
    <2>1. /\ row' = Moved(i, "UNKNOWN", block) /\ usage' = usage /\ Leave(w)
          /\ "UNKNOWN" \in States /\ block \in BOOLEAN
      BY <1>0, <1>2 DEF BackToUnknown, States
    <2> HIDE DEF block
    <2>2. NextRow(i, "UNKNOWN", row[i].effect, row[i].fill, row[i].count, block, row[i].disputed)
      BY <1>0, <2>1, MovedRow
    <2>3. IntentInv(i) /\ usage[i] = "HELD" /\ ~row[i].disputed
      BY <1>j, WorkingFacts DEF IntentInv, InFlight
    <2>4. /\ row'[i].state = "UNKNOWN" /\ row'[i].effect = row[i].effect
          /\ row'[i].fill = row[i].fill /\ row'[i].count = row[i].count
          /\ ~row'[i].disputed /\ usage'[i] = "HELD" /\ rejected' = rejected
          /\ i \in rejected /\ row[i].effect = "none" => row'[i].block
      BY <1>t, <1>j, <2>1, <2>2, <2>3 DEF NextRow, NoRuntimeStep, block
    <2>5. IntentInv(i)'
      BY <1>k, <2>3, <2>4 DEF IntentInv, Unsent, InFlight, Terminal, PermitsKept
    <2>6. Truthful => BookInv(i)'
      BY <1>t, <1>k, <2>4, WorkingFacts DEF BookInv, PermitsKept, NoRuntimeStep, Terminal
    <2> QED
      BY <1>0, <1>t, <2>1, <2>2, <2>4, <2>5, <2>6, Leaving DEF RuntimeTypeOK, NoRuntimeStep, NextRow
  <1> QED
    BY <1>1, <1>2 DEF SettleUnknown, SettleNoneEarly

\* What an accepted report says: it speaks with authority, names an effect, and the
\* effect is the recorded one if there is one.
LEMMA AcceptedReport ==
  ASSUME NEW i, NEW rec, rec.status \in Reporting, ~Weak(rec), ~Disputed(i, rec)
  PROVE  /\ rec.auth /\ rec.effect # "none"
         /\ row[i].effect \in {"none", rec.effect}
         /\ ~AmountDisputed(rec) /\ ~FillDisputed(i, rec)
  BY DEF Weak, Disputed, EffectDisputed, Reporting

\* An accepted effect is recorded with its budget, or stopped over when the identity is
\* another intent's.
LEMMA SettleEffectKeeps ==
  ASSUME NEW w, NEW i, Working(w, i), SettleEffect(w)
  PROVE  RuntimeInv'
  <1> USE DEF TheIntent, At
  <1> DEFINE rec == job[w].record
             final == rec.status \in {"FINALIZED", "CANCELLED"}
             fill == IF rec.status = "PARTIALLY_FILLED" /\ rec.amount = None THEN 0 ELSE rec.amount
  <1>0. /\ w \in Issuers /\ i \in Intents /\ job[w] # NoJob /\ job[w].intent = i
        /\ RuntimeTypeOK /\ job[w].now \in Nat /\ job[w].pc = "settle" /\ Quiet
        /\ rec \in Record
    BY WorkingFacts, JobTyped DEF Working, SettleEffect
  <1>t. TicketsOfOthers(w) /\ ticket' = ticket /\ permits' = permits /\ clock' = clock
        /\ ticket[w] = NoTicket /\ NoRuntimeStep
    BY <1>0, QuietTickets DEF Quiet
  <1>j. /\ lease[i] = w /\ job[w].now <= clock /\ row[i].state = "RECONCILING"
        /\ i \in rejected /\ row[i].effect = "none" => job[w].block = "failure"
    BY <1>0, WorkingFacts DEF JobInv
  <1>k. PermitsKept(i)
    BY <1>t, TableKept
  <1>r. rec.status \in Reporting /\ ~Weak(rec) /\ ~Disputed(i, rec) /\ ~Unfilled(rec)
    BY <1>0 DEF SettleEffect
  <1>a. rec.auth /\ rec.effect # "none" /\ rec.effect \in EffectIds /\ rec.amount \in Amounts
    <2>1. rec.auth /\ rec.effect # "none"
      BY <1>r, AcceptedReport
    <2> QED
      BY <1>0, <2>1 DEF Record
  <1>1. CASE Claimed(i, rec.effect)
    <2>1. NextJob(w, "stop", job[w].block, "disputed", job[w].now, Silence) /\ RowKept
      BY <1>0, <1>1, StopJob DEF SettleEffect
    <2>2. TicketInv(w)' /\ RecordInv(w, i)' /\ JobInv(w, i)'
      BY <1>0, <1>t, <1>j, <2>1 DEF NextJob, TicketInv, JobInv, RecordInv, Submitting,
         RowKept, NoRuntimeStep, Terminal
    <2> QED
      BY <1>0, <2>1, <2>2, Moving
  <1>2. CASE ~Claimed(i, rec.effect)
    <2> DEFINE newFill == IF fill = None THEN row[i].fill ELSE fill
               state == IF final THEN "FINALIZED" ELSE "CONFIRMED"
    <2>0. IntentInv(i) /\ usage[i] = "HELD" /\ ~row[i].disputed /\ row[i].fill \in Amounts
      BY <1>j, WorkingFacts DEF IntentInv, InFlight
    <2>1. /\ row' = [row EXCEPT ![i].state = state, ![i].effect = rec.effect, ![i].block = FALSE,
                                ![i].fill = newFill]
          /\ usage' = IF final THEN Committed(i) ELSE usage
          /\ Leave(w)
      BY <1>0, <1>2 DEF SettleEffect, RuntimeTypeOK
    <2>2. newFill \in Amounts /\ state \in {"FINALIZED", "CONFIRMED"}
      BY <1>a, <2>0, RuntimeConstants DEF Amounts, None
    <2>3. state = "FINALIZED" <=> final
      OBVIOUS
    <2>4. /\ usage' \in [Intents -> {"NONE", "HELD", "COMMITTED", "RELEASED"}]
          /\ \A j \in Intents \ {i} : usage'[j] = usage[j]
          /\ usage'[i] = IF final THEN "COMMITTED" ELSE "HELD"
      BY <1>0, <2>0, <2>1, MovedUsage DEF RuntimeTypeOK
    <2> HIDE DEF newFill, state, rec, final, fill
    <2>5. NextRow(i, state, rec.effect, newFill, row[i].count, FALSE, row[i].disputed)
      <3>1. row \in [Intents -> Row] /\ row[i] \in Row
        BY <1>0 DEF RuntimeTypeOK
      <3> QED
        BY <1>0, <1>a, <2>1, <2>2, <3>1, ZenonT(40) DEF NextRow, Row, States
    <2>6. /\ row'[i].state = state /\ row'[i].effect = rec.effect /\ rejected' = rejected
          /\ row'[i].fill = newFill /\ row'[i].count = row[i].count /\ ~row'[i].disputed
          /\ OneAlive(i)' /\ (row[i].count = 0 => NoPermits(i)')
      BY <1>t, <1>k, <2>0, <2>5 DEF NextRow, NoRuntimeStep, IntentInv, PermitsKept
    <2>7. IntentInv(i)'
      BY <1>a, <2>2, <2>3, <2>4, <2>6 DEF IntentInv, Unsent, InFlight, Terminal
    <2>8. Truthful => BookInv(i)'
      <3> SUFFICES ASSUME Truthful PROVE BookInv(i)'
        OBVIOUS
      <3>1. /\ BookInv(i) /\ order[i].status # "none"
            /\ rec.status \in {"FINALIZED", "CONFIRMED"} => order[i].status = "filled"
            /\ rec.status = "CANCELLED" => order[i].status = "cancelled" /\ rec.amount = order[i].fill
        BY <1>0, <1>r, <1>a, WorkingFacts DEF RecordInv, rec
      <3>2. ConsumedRows(i) # {} /\ OneAlive(i) /\ VoidOrConsumedNotBoth
        BY <2>0, <3>1, WorkingFacts DEF BookInv, IntentInv
      <3>3. Disarmed(i)
        BY <3>2, AdmittedDisarmed
      <3>4. final => order[i].status \in {"filled", "cancelled"} /\ order[i].fill > 0
        <4>1. order[i].fill \in 0 .. Size /\ Size \in Nat \ {0}
          BY <1>0, RuntimeConstants DEF RuntimeTypeOK, Order
        <4>2. rec.status = "CANCELLED" => rec.amount # 0
          BY <1>r DEF Unfilled
        <4> QED
          BY <3>1, <4>1, <4>2 DEF final, BookInv
      <3>5. /\ order' = order /\ Disarmed(i)' /\ ConsumedRows(i)' # {}
        BY <1>t, <1>k, <3>2, <3>3 DEF PermitsKept, NoRuntimeStep
      <3> QED
        BY <2>4, <3>1, <3>4, <3>5 DEF BookInv
    <2> QED
      BY <1>0, <1>t, <2>1, <2>2, <2>4, <2>5, <2>6, <2>7, <2>8, Leaving
         DEF RuntimeTypeOK, NoRuntimeStep, NextRow
  <1> QED
    BY <1>1, <1>2

\* The voids of a reconciliation: an order cancelled without a fill, an authoritative
\* absence, and a stop disarm the intent before anything is concluded.
LEMMA VoidKeeps ==
  ASSUME NEW w, NEW i, Working(w, i), SettleCancelled(w) \/ SettleNone(w) \/ StopVoid(w)
  PROVE  RuntimeInv'
  <1> USE DEF TheIntent, At
  <1> DEFINE rec == job[w].record
  <1>0. /\ w \in Issuers /\ i \in Intents /\ job[w] # NoJob /\ job[w].intent = i
        /\ RuntimeTypeOK /\ LedgerTypeOK /\ job[w].now \in Nat /\ job[w].pc \in {"settle", "stop"}
        /\ NoRuntimeStep /\ RowKept /\ VoidUnconsumedPermits(i) /\ rec \in Record
    BY WorkingFacts, JobTyped DEF Working, SettleCancelled, SettleNone, StopVoid, AuthoritativeNone
  <1>t. /\ TicketsOfOthers(w) /\ ticket' = ticket /\ clock' = clock /\ ticket[w] = NoTicket
        /\ DOMAIN permits' = DOMAIN permits
    BY <1>0, WorkingFacts DEF VoidUnconsumedPermits, TicketsOfOthers, TicketInv
  <1>k. Disarmed(i)' /\ PermitsKept(i) /\ \A j \in Intents : PermitsKept(j)
    BY <1>0, KeptByVoid
  <1>j. /\ lease[i] = w /\ job[w].now <= clock /\ row[i].state # "ABSENT"
        /\ job[w].pc = "settle" => row[i].state = "RECONCILING"
        /\ i \in rejected /\ row[i].effect = "none" /\ job[w].pc = "settle" => job[w].block = "failure"
    BY <1>0, WorkingFacts DEF JobInv
  <1>g. ASSUME NEW pc \in {"cancelled", "count", "stopped"}, Goto(w, pc),
               JobInv(w, i)', Truthful => RecordInv(w, i)'
        PROVE  RuntimeInv'
    <2>1. NextJob(w, pc, job[w].block, job[w].stop, job[w].now, rec)
      BY <1>0, <1>g, GotoJob DEF PCs
    <2>2. TicketInv(w)'
      BY <1>t, <2>1 DEF TicketInv, NextJob
    <2> QED
      BY <1>0, <1>t, <1>k, <1>j, <1>g, <2>1, <2>2, Going DEF RuntimeTypeOK, NoRuntimeStep, NextJob
  <1>1. CASE SettleCancelled(w)
    <2>1. /\ NextJob(w, "cancelled", job[w].block, job[w].stop, job[w].now, rec)
          /\ Goto(w, "cancelled") /\ job[w].pc = "settle"
          /\ Unfilled(rec) /\ ~Weak(rec) /\ ~Disputed(i, rec)
      BY <1>0, <1>1, GotoJob DEF SettleCancelled, PCs
    <2>2. /\ rec.auth /\ rec.effect # "none" /\ row[i].effect \in {"none", rec.effect}
          /\ ~FillDisputed(i, rec) /\ rec.status = "CANCELLED" /\ rec.amount \in {None, 0}
      <3>1. rec.status = "CANCELLED" /\ rec.status \in Reporting /\ rec.amount \in {None, 0}
        BY <2>1 DEF Unfilled, Reporting
      <3> QED
        BY <2>1, <3>1, AcceptedReport
    <2>3. row[i].fill <= 0
      <3>1. row[i].effect = "none" \/ row[i].fill = 0
        BY <2>1, <2>2 DEF FillDisputed
      <3>2. row[i].effect = "none" => row[i].fill = None
        BY WorkingFacts DEF IntentInv
      <3> QED
        BY <3>1, <3>2 DEF None
    <2>4. JobInv(w, i)'
      BY <1>0, <1>t, <1>k, <1>j, <2>1, <2>2, <2>3 DEF NextJob, JobInv, Submitting, RowKept,
         NoRuntimeStep
    <2>5. Truthful => RecordInv(w, i)'
      <3>1. order[i].fill \in 0 .. Size
        BY <1>0 DEF RuntimeTypeOK, Order
      <3>2. Truthful => order[i].status = "cancelled" /\ rec.amount = order[i].fill /\ order[i].fill = 0
        BY <1>0, <2>1, <2>2, <3>1, WorkingFacts DEF RecordInv, None
      <3> QED
        BY <1>0, <2>1, <2>2, <3>2 DEF NextJob, RecordInv, NoRuntimeStep
    <2> QED
      BY <1>g, <2>1, <2>4, <2>5
  <1>2. CASE SettleNone(w)
    <2>1. /\ NextJob(w, "count", job[w].block, job[w].stop, job[w].now, rec)
          /\ Goto(w, "count") /\ job[w].pc = "settle"
          /\ rec.status = "NONE" /\ ~Weak(rec) /\ ~Disputed(i, rec)
      BY <1>0, <1>2, GotoJob DEF SettleNone, PCs, AuthoritativeNone
    <2>2. row[i].effect = "none"
      BY <2>1 DEF Weak, Disputed, EffectDisputed
    <2>4. JobInv(w, i)' /\ RecordInv(w, i)'
      BY <1>0, <1>t, <1>k, <1>j, <2>1, <2>2 DEF NextJob, JobInv, Submitting, RowKept,
         NoRuntimeStep, RecordInv
    <2> QED
      BY <1>g, <2>1, <2>4
  <1>3. CASE StopVoid(w)
    <2>1. /\ NextJob(w, "stopped", job[w].block, job[w].stop, job[w].now, rec)
          /\ Goto(w, "stopped") /\ job[w].pc = "stop"
      BY <1>0, <1>3, GotoJob DEF StopVoid, PCs
    <2>2. /\ row[i].state \notin Terminal /\ job[w].stop # "none"
          /\ Configured = Issuers => job[w].stop # "held"
          /\ job[w].stop = "disputed" => row[i].state = "RECONCILING"
          /\ job[w].stop = "release" => AllVoided(i)' /\ row[i].effect = "none"
      BY <1>0, <1>k, <2>1, WorkingFacts DEF JobInv, PermitsKept
    <2>4. JobInv(w, i)' /\ RecordInv(w, i)'
      BY <1>0, <1>t, <1>k, <1>j, <2>1, <2>2 DEF NextJob, JobInv, Submitting, RowKept,
         NoRuntimeStep, RecordInv
    <2> QED
      BY <1>g, <2>1, <2>4
  <1> QED
    BY <1>1, <1>2, <1>3

\* What is concluded from an absence after the void: a contradiction, an end, or a new
\* attempt.
LEMMA CountKeeps ==
  ASSUME NEW w, NEW i, Working(w, i),
         NoneAfterConsumption(w) \/ ResubmissionBlocked(w) \/ Resubmit(w)
  PROVE  RuntimeInv'
  <1> USE DEF TheIntent, At
  <1>0. /\ w \in Issuers /\ i \in Intents /\ job[w] # NoJob /\ job[w].intent = i
        /\ RuntimeTypeOK /\ job[w] \in Job /\ job[w].now \in Nat /\ job[w].pc = "count" /\ Quiet
    BY WorkingFacts, JobTyped DEF Working, NoneAfterConsumption, ResubmissionBlocked, Resubmit
  <1>t. TicketsOfOthers(w) /\ ticket' = ticket /\ permits' = permits /\ clock' = clock
        /\ ticket[w] = NoTicket /\ NoRuntimeStep
    BY <1>0, QuietTickets DEF Quiet
  <1>j. /\ lease[i] = w /\ job[w].now <= clock /\ row[i].state = "RECONCILING"
        /\ row[i].effect = "none" /\ Disarmed(i) /\ row[i].state \notin Terminal
        /\ i \in rejected => job[w].block = "failure"
    BY <1>0, WorkingFacts DEF JobInv, Terminal
  <1>k. PermitsKept(i)
    BY <1>t, TableKept
  <1>1. CASE NoneAfterConsumption(w)
    <2>1. NextJob(w, "stop", job[w].block, "disputed", job[w].now, Silence) /\ RowKept
      BY <1>0, <1>1, StopJob DEF NoneAfterConsumption
    <2>2. TicketInv(w)' /\ RecordInv(w, i)' /\ JobInv(w, i)'
      BY <1>0, <1>t, <1>j, <2>1 DEF NextJob, TicketInv, JobInv, RecordInv, Submitting,
         RowKept, NoRuntimeStep, Terminal
    <2> QED
      BY <1>0, <2>1, <2>2, Moving
  <1>2. CASE ResubmissionBlocked(w)
    <2>1. AllVoided(i)
      BY <1>0, <1>2, <1>j, DisarmedUnconsumed DEF ResubmissionBlocked
    <2>2. CASE job[w].block = "failure"
      <3>1. CloseReleased(w, "FAILED_SAFE", TRUE) /\ "FAILED_SAFE" \in Terminal \ {"FINALIZED"}
        BY <1>2, <2>2 DEF ResubmissionBlocked, Terminal
      <3> QED
        BY <1>0, <1>t, <1>j, <2>1, <3>1, Closing
    <2>3. CASE job[w].block # "failure"
      <3>1. CloseReleased(w, "STOPPED", FALSE) /\ "STOPPED" \in Terminal \ {"FINALIZED"}
        BY <1>2, <2>3 DEF ResubmissionBlocked, Terminal
      <3> QED
        BY <1>0, <1>t, <1>j, <2>1, <3>1, Closing
    <2> QED
      BY <2>2, <2>3
  <1>3. CASE Resubmit(w)
    <2>1. AllVoided(i)' /\ i \notin rejected
      <3>1. AllVoided(i)
        BY <1>0, <1>3, <1>j, DisarmedUnconsumed DEF Resubmit
      <3> QED
        BY <1>3, <1>j, <1>k, <3>1 DEF PermitsKept, Resubmit
    <2>2. NextJob(w, "submit", job[w].block, job[w].stop, job[w].now, Silence)
      <3>1. job' = [job EXCEPT ![w].pc = "submit", ![w].record = Silence]
            /\ job \in [Issuers -> Job \cup {NoJob}]
        BY <1>0, <1>3 DEF Resubmit, RuntimeTypeOK
      <3>2. /\ job' \in [Issuers -> Job \cup {NoJob}]
            /\ job'[w] \in Job /\ job'[w].pc = "submit" /\ job'[w].stop = job[w].stop
            /\ job'[w].record = Silence /\ job'[w].block = job[w].block
            /\ job'[w].intent = job[w].intent /\ job'[w].now = job[w].now
            /\ \A x \in Issuers \ {w} : job'[x] = job[x]
        BY <1>0, <3>1, SilenceTyped DEF Job, PCs
      <3> QED
        BY <3>2 DEF NextJob, NoJob
    <2>3. RowKept
      BY <1>3 DEF Resubmit
    <2>4. TicketInv(w)' /\ RecordInv(w, i)' /\ JobInv(w, i)'
      BY <1>0, <1>t, <1>j, <2>1, <2>2, <2>3 DEF NextJob, TicketInv, JobInv, RecordInv, Submitting,
         RowKept, NoRuntimeStep
    <2> QED
      BY <1>0, <2>2, <2>3, <2>4, Moving
  <1> QED
    BY <1>1, <1>2, <1>3

\* The transactions that close an intent after its permits were voided.
LEMMA CloseKeeps ==
  ASSUME NEW w, NEW i, Working(w, i), CloseCancelled(w) \/ StopTransition(w)
  PROVE  RuntimeInv'
  <1> USE DEF TheIntent, At
  <1> DEFINE rec == job[w].record
  <1>0. /\ w \in Issuers /\ i \in Intents /\ job[w] # NoJob /\ job[w].intent = i
        /\ RuntimeTypeOK /\ job[w].now \in Nat /\ job[w].pc \in {"cancelled", "stopped"} /\ Quiet
        /\ rec \in Record /\ row \in [Intents -> Row] /\ row[i] \in Row /\ row[i].count \in Nat
    BY WorkingFacts, JobTyped DEF Working, CloseCancelled, StopTransition, RuntimeTypeOK
  <1>t. TicketsOfOthers(w) /\ ticket' = ticket /\ permits' = permits /\ clock' = clock
        /\ ticket[w] = NoTicket /\ NoRuntimeStep
    BY <1>0, QuietTickets DEF Quiet
  <1>k. PermitsKept(i)
    BY <1>t, TableKept
  <1>i. IntentInv(i) /\ usage[i] \in {"NONE", "HELD", "COMMITTED", "RELEASED"}
    BY WorkingFacts
  <1>j. /\ lease[i] = w /\ job[w].now <= clock /\ row[i].state \notin Terminal
        /\ row[i].state # "ABSENT" /\ Disarmed(i)
    BY <1>0, WorkingFacts DEF JobInv, Terminal
  <1>1. CASE CloseCancelled(w)
    <2>0. /\ row[i].state = "RECONCILING" /\ row[i].fill <= 0 /\ rec.effect # "none"
          /\ usage[i] = "HELD" /\ ~row[i].disputed /\ job[w].pc = "cancelled"
      BY <1>0, <1>1, <1>i, WorkingFacts DEF JobInv, CloseCancelled, IntentInv, InFlight
    <2>1. CASE Claimed(i, rec.effect)
      <3>1. NextJob(w, "stop", job[w].block, "disputed", job[w].now, Silence) /\ RowKept
        BY <1>0, <1>1, <2>1, StopJob DEF CloseCancelled
      <3>2. TicketInv(w)' /\ RecordInv(w, i)' /\ JobInv(w, i)'
        BY <1>0, <1>t, <1>j, <2>0, <3>1 DEF NextJob, TicketInv, JobInv, RecordInv, Submitting,
           RowKept, NoRuntimeStep, Terminal
      <3> QED
        BY <1>0, <3>1, <3>2, Moving
    <2>2. CASE ~Claimed(i, rec.effect)
      <3>1. /\ row' = [Moved(i, "FAILED_SAFE", FALSE) EXCEPT ![i].effect = rec.effect]
            /\ usage' = Released(i) /\ Leave(w)
        BY <1>0, <1>1, <2>2 DEF CloseCancelled
      <3>2. NextRow(i, "FAILED_SAFE", rec.effect, row[i].fill, row[i].count, FALSE, row[i].disputed)
        <4>1. rec.effect \in EffectIds
          BY <1>0 DEF Record
        <4> QED
          BY <1>0, <3>1, <4>1 DEF Moved, NextRow, Row, States
      <3>3. /\ usage' \in [Intents -> {"NONE", "HELD", "COMMITTED", "RELEASED"}]
            /\ \A j \in Intents \ {i} : usage'[j] = usage[j]
            /\ usage'[i] = "RELEASED"
        BY <1>0, <2>0, <3>1, MovedUsage
      <3> HIDE DEF rec
      <3>4. /\ row'[i].state = "FAILED_SAFE" /\ row'[i].effect # "none" /\ ~(row'[i].fill > 0)
            /\ row'[i].fill <= 0 /\ row'[i].count = row[i].count /\ ~row'[i].disputed
            /\ OneAlive(i)' /\ (row[i].count = 0 => NoPermits(i)') /\ Disarmed(i)'
        <4>1. row[i].fill \in Int
          BY WorkingFacts, RuntimeConstants DEF Amounts, None
        <4> QED
          BY <1>i, <1>j, <1>k, <2>0, <3>2, <4>1 DEF NextRow, IntentInv, PermitsKept
      <3>5. IntentInv(i)'
        BY <3>3, <3>4 DEF IntentInv, Unsent, InFlight, Terminal
      <3>6. Truthful => BookInv(i)'
        <4>1. Truthful => BookInv(i) /\ order[i].status = "cancelled" /\ order[i].fill = 0
          BY <1>0, <2>0, WorkingFacts DEF RecordInv
        <4> QED
          BY <1>t, <1>k, <3>3, <3>4, <4>1 DEF BookInv, PermitsKept, NoRuntimeStep
      <3> QED
        BY <1>0, <1>t, <3>1, <3>2, <3>3, <3>4, <3>5, <3>6, Leaving
           DEF RuntimeTypeOK, NoRuntimeStep, NextRow
    <2> QED
      BY <2>1, <2>2
  <1>2. CASE StopTransition(w)
    <2>0. /\ job[w].pc = "stopped" /\ job[w].stop \in {"release", "held", "disputed"}
          /\ Configured = Issuers => job[w].stop # "held"
          /\ job[w].stop = "disputed" => row[i].state = "RECONCILING" /\ usage[i] = "HELD"
          /\ job[w].stop = "release" => AllVoided(i) /\ row[i].fill = None
          /\ ~row[i].disputed
      <3>1. job[w].stop \in {"none", "release", "held", "disputed"} /\ job[w].pc = "stopped"
        BY <1>0, <1>2, JobTyped DEF StopTransition
      <3>2. /\ job[w].stop # "none"
            /\ Configured = Issuers => job[w].stop # "held"
            /\ job[w].stop = "disputed" => row[i].state = "RECONCILING"
            /\ job[w].stop = "release" => AllVoided(i) /\ row[i].effect = "none"
        BY <1>0, <3>1, WorkingFacts DEF JobInv
      <3> QED
        BY <1>i, <1>j, <3>1, <3>2 DEF IntentInv, InFlight, Terminal
    <2> DEFINE disputed == job[w].stop = "disputed"
    <2>1. /\ row' = [Moved(i, "STOPPED", FALSE) EXCEPT ![i].disputed = disputed]
          /\ usage' = IF job[w].stop = "release" THEN Released(i) ELSE usage
          /\ Leave(w) /\ disputed \in BOOLEAN
      BY <1>0, <1>2, <1>j DEF StopTransition
    <2>2. NextRow(i, "STOPPED", row[i].effect, row[i].fill, row[i].count, FALSE, disputed)
      <3> HIDE DEF disputed
      <3> QED
        BY <1>0, <2>1 DEF Moved, NextRow, Row, States
    <2>3. /\ usage' \in [Intents -> {"NONE", "HELD", "COMMITTED", "RELEASED"}]
          /\ \A j \in Intents \ {i} : usage'[j] = usage[j]
          /\ usage'[i] = IF job[w].stop = "release" /\ usage[i] = "HELD" THEN "RELEASED" ELSE usage[i]
      BY <1>0, <2>1, MovedUsage DEF RuntimeTypeOK
    <2>4. /\ row'[i].state = "STOPPED" /\ row'[i].effect = row[i].effect
          /\ row'[i].fill = row[i].fill /\ row'[i].count = row[i].count
          /\ row'[i].disputed <=> job[w].stop = "disputed"
          /\ OneAlive(i)' /\ (row[i].count = 0 => NoPermits(i)') /\ Disarmed(i)'
      BY <1>i, <1>j, <1>k, <2>2 DEF NextRow, IntentInv, PermitsKept
    <2>5. IntentInv(i)'
      BY <1>i, <2>0, <2>3, <2>4 DEF IntentInv, Unsent, InFlight, Terminal, None
    <2>6. Truthful => BookInv(i)'
      BY <1>t, <1>k, <2>0, <2>3, <2>4, WorkingFacts DEF BookInv, PermitsKept, NoRuntimeStep
    <2> QED
      BY <1>0, <1>t, <2>1, <2>2, <2>3, <2>4, <2>5, <2>6, Leaving
         DEF RuntimeTypeOK, NoRuntimeStep, NextRow
  <1> QED
    BY <1>1, <1>2

-----------------------------------------------------------------------------
(* Calls, faults, the lease's repair, the venue and the environment *)

\* A crash, an abort and a failed release leave the durable state as it is.
LEMMA FaultKeeps ==
  ASSUME NEW w, NEW i, Working(w, i), FaultStep(w)
  PROVE  RuntimeInv'
  <1> USE DEF At
  <1>0. /\ w \in Issuers /\ i \in Intents /\ RuntimeTypeOK /\ LedgerTypeOK
        /\ lease \in [Intents -> Issuers \cup {"FREE", "DEAD"}] /\ faults \in Nat
    BY WorkingFacts DEF Working, RuntimeTypeOK
  <1>1. CASE Crash(w)
    <2>1. /\ permits' = permits /\ TicketsOfOthers(w) /\ ticket'[w] = NoTicket /\ LedgerTypeOK'
      <3>1. CASE ticket[w] = NoTicket
        BY <1>0, <1>1, <3>1 DEF Crash, ledgerVars, TicketsOfOthers, LedgerTypeOK
      <3>2. CASE ticket[w] # NoTicket
        <4>1. AbandonIssue(w)
          BY <1>1, <3>2 DEF Crash
        <4>2. LedgerTypeOK'
          BY <1>0, <4>1, TypeStep DEF LedgerNext, IssuerStep
        <4> QED
          BY <1>0, <4>1, <4>2 DEF AbandonIssue, TicketsOfOthers, LedgerTypeOK
      <3> QED
        BY <3>1, <3>2
    <2>2. /\ job' = [job EXCEPT ![w] = NoJob] /\ RowKept /\ faults' \in Nat
          /\ UNCHANGED <<wire, order, rejected, taken>>
          /\ lease' \in [Intents -> Issuers \cup {"FREE", "DEAD"}]
          /\ \A x \in Issuers \ {w}, j \in Intents : lease[j] = x => lease'[j] = x
      BY <1>0, <1>1 DEF Crash
    <2> QED
      BY <2>1, <2>2, Dropping
  <1>2. CASE Abort(w)
    <2>1. /\ job[w].pc \notin {"acquire", "recheck", "record"} /\ Leave(w) /\ RowKept
          /\ UNCHANGED <<lease, wire, order, rejected, taken>> /\ faults' \in Nat
          /\ UNCHANGED ledgerVars
      BY <1>0, <1>2 DEF Abort
    <2> QED
      BY <2>1, JustLeaving
  <1>3. CASE ReleaseFails(w)
    <2>1. /\ job' = [job EXCEPT ![w] = NoJob] /\ RowKept /\ faults' \in Nat
          /\ UNCHANGED <<lease, wire, order, rejected, taken>> /\ job[w].pc = "exit"
          /\ permits' = permits /\ TicketsOfOthers(w) /\ ticket' = ticket /\ LedgerTypeOK'
      BY <1>0, <1>3 DEF ReleaseFails, ledgerVars, TicketsOfOthers, LedgerTypeOK
    <2>2. ticket'[w] = NoTicket
      BY <2>1, WorkingFacts DEF TicketInv
    <2> QED
      BY <1>0, <2>1, <2>2, Dropping
  <1> QED
    BY <1>1, <1>2, <1>3 DEF FaultStep

\* A new call, of process() or reconcile(), by an idle process: the only thing it may
\* write is the row of an intent nobody knew.
LEMMA CallKeeps ==
  ASSUME LedgerInv, RuntimeInv, NEW w \in Issuers, NEW i \in Intents, NEW v \in Job,
         v.pc = "acquire", v.intent = i, v.block = "none", v.now = 0,
         job[w] = NoJob, job' = [job EXCEPT ![w] = v], Quiet, usage' = usage,
         \/ row' = row /\ row[i].state # "ABSENT"
         \/ row[i].state = "ABSENT" /\ row' = Moved(i, "PROPOSED", FALSE)
  PROVE  RuntimeInv'
  <1>0. RuntimeTypeOK /\ LedgerTypeOK /\ clock \in Nat
    BY DEF RuntimeInv, LedgerInv, LedgerTypeOK
  <1>1. v # NoJob
    BY DEF NoJob
  <1>2. /\ job' \in [Issuers -> Job \cup {NoJob}] /\ job'[w] = v
        /\ \A x \in Issuers \ {w} : job'[x] = job[x]
    BY <1>0, <1>1 DEF RuntimeTypeOK
  <1>3. row' \in [Intents -> Row] /\ row'[i].state # "ABSENT"
        /\ \A j \in Intents \ {i} : row'[j] = row[j]
    <2>1. CASE row' = row /\ row[i].state # "ABSENT"
      BY <1>0, <2>1 DEF RuntimeTypeOK
    <2>2. CASE row' = Moved(i, "PROPOSED", FALSE)
      <3>1. NextRow(i, "PROPOSED", row[i].effect, row[i].fill, row[i].count, FALSE, row[i].disputed)
        BY <1>0, <2>2, MovedRow DEF States
      <3> QED
        BY <3>1 DEF NextRow
    <2> QED
      BY <2>1, <2>2
  <1>4. /\ ticket' = ticket /\ permits' = permits /\ clock' = clock
        /\ UNCHANGED <<lease, wire, order, faults, rejected, taken, usage>> /\ LedgerTypeOK'
    BY <1>0 DEF Quiet, NoRuntimeStep, ledgerVars, LedgerTypeOK
  <1>5. RuntimeTypeOK'
    BY <1>0, <1>2, <1>3, <1>4 DEF RuntimeTypeOK
  <1>6. \A j \in Intents : PermitsKept(j)
    BY <1>4, TableKept
  <1>7. \A j \in Intents \ {i} : Untouched(j)
    BY <1>3, <1>4, <1>6 DEF Untouched
  <1>8. IntentInv(i)' /\ (Truthful => BookInv(i)')
    <2>1. CASE row' = row
      <3>1. Untouched(i)
        BY <1>4, <1>6, <2>1 DEF Untouched
      <3> QED
        BY <3>1, UntouchedIntent DEF RuntimeInv
    <2>2. CASE row[i].state = "ABSENT" /\ row' = Moved(i, "PROPOSED", FALSE)
      <3>1. NextRow(i, "PROPOSED", row[i].effect, row[i].fill, row[i].count, FALSE, row[i].disputed)
        BY <1>0, <2>2, MovedRow DEF States
      <3>2. IntentInv(i) /\ (Truthful => BookInv(i))
        BY DEF RuntimeInv
      <3>3. /\ row'[i].state = "PROPOSED" /\ row'[i].effect = row[i].effect
            /\ row'[i].fill = row[i].fill /\ row'[i].count = row[i].count
            /\ row'[i].disputed = row[i].disputed /\ PermitsKept(i)
            /\ usage'[i] = usage[i] /\ rejected' = rejected /\ order' = order
        BY <1>4, <1>6, <3>1 DEF NextRow
      <3>4. IntentInv(i)'
        BY <2>2, <3>2, <3>3 DEF IntentInv, Unsent, InFlight, Terminal, PermitsKept
      <3>5. Truthful => BookInv(i)'
        BY <2>2, <3>2, <3>3 DEF BookInv, Terminal, PermitsKept
      <3> QED
        BY <3>4, <3>5
    <2> QED
      BY <2>1, <2>2
  <1>9. ASSUME NEW j \in Intents
        PROVE  IntentInv(j)' /\ (Truthful => BookInv(j)')
    <2>1. CASE j = i
      BY <1>8, <2>1
    <2>2. CASE j # i
      BY <1>7, <2>2, UntouchedIntent DEF RuntimeInv
    <2> QED
      BY <2>1, <2>2
  <1>10. ASSUME NEW x \in Issuers
         PROVE  TicketInv(x)'
    BY <1>1, <1>2, <1>4 DEF RuntimeInv, TicketInv, NoJob
  <1>11. ASSUME NEW x \in Issuers, NEW j \in Intents
         PROVE  JobInv(x, j)' /\ (Truthful => RecordInv(x, j)')
    <2>1. CASE x = w
      BY <1>0, <1>1, <1>2, <1>3, <1>4, <2>1 DEF JobInv, RecordInv, Submitting
    <2>2. CASE x # w
      <3>1. JobInv(x, j) /\ (Truthful => RecordInv(x, j))
        BY DEF RuntimeInv
      <3>2. CASE Untouched(j)
        BY <1>0, <1>2, <1>4, <2>2, <3>1, <3>2, UntouchedJob
      <3>3. CASE ~Untouched(j)
        <4>1. j = i /\ row[j].state = "ABSENT"
          BY <1>4, <1>6, <1>7, <3>3 DEF Untouched
        <4> QED
          BY <1>2, <2>2, <3>1, <4>1 DEF JobInv, RecordInv
      <3> QED
        BY <3>2, <3>3
    <2> QED
      BY <2>1, <2>2
  <1> QED
    BY <1>5, <1>9, <1>10, <1>11 DEF RuntimeInv

\* process() of an intent that has ended: at most an orphaned hold is released.
LEMMA ReplayKeeps ==
  ASSUME LedgerInv, RuntimeInv, NEW i \in Intents, ReplayTerminal(i)
  PROVE  RuntimeInv'
  <1>0. /\ RuntimeTypeOK /\ IntentInv(i) /\ row[i].state \in Terminal
        /\ usage[i] \in {"NONE", "HELD", "COMMITTED", "RELEASED"} /\ row[i].count \in Nat
        /\ clock \in Nat
    BY DEF RuntimeInv, RuntimeTypeOK, ReplayTerminal, Row, LedgerInv, LedgerTypeOK
  <1>1. /\ UNCHANGED <<row, job, lease, wire, order, faults, rejected, taken>>
        /\ ticket' = ticket /\ permits' = permits /\ clock' = clock
    BY DEF ReplayTerminal, Quiet, NoRuntimeStep, ledgerVars
  <1>2. /\ usage' \in [Intents -> {"NONE", "HELD", "COMMITTED", "RELEASED"}]
        /\ \A j \in Intents \ {i} : usage'[j] = usage[j]
        /\ \/ usage'[i] = usage[i]
           \/ /\ usage'[i] = "RELEASED" /\ usage[i] = "HELD"
              /\ row[i].count = 0 /\ ~row[i].disputed /\ row[i].state # "FINALIZED"
    <2>1. row[i].state = "FINALIZED" => usage[i] = "COMMITTED"
      BY <1>0 DEF IntentInv
    <2> QED
      BY <1>0, <2>1, MovedUsage DEF ReplayTerminal, RuntimeTypeOK
  <1>3. \A j \in Intents : PermitsKept(j)
    BY <1>1, TableKept
  <1>4. RuntimeTypeOK'
    BY <1>0, <1>1, <1>2 DEF RuntimeTypeOK
  <1>5. ASSUME NEW j \in Intents
        PROVE  IntentInv(j)' /\ (Truthful => BookInv(j)')
    <2>1. CASE usage'[j] = usage[j]
      <3>1. Untouched(j)
        BY <1>1, <1>3, <2>1 DEF Untouched
      <3> QED
        BY <3>1, UntouchedIntent DEF RuntimeInv
    <2>2. CASE usage'[j] # usage[j]
      <3>1. /\ j = i /\ usage'[i] = "RELEASED" /\ row[i].count = 0 /\ ~row[i].disputed
            /\ row[i].state # "FINALIZED"
        BY <1>2, <2>2
      <3>2. /\ IntentInv(i) /\ PermitsKept(i) /\ NoPermits(i) /\ row' = row /\ rejected' = rejected
            /\ row[i].fill \in Int
        BY <1>0, <1>1, <1>3, <3>1, RuntimeConstants DEF IntentInv, RuntimeTypeOK, Row, Amounts, None
      <3>3. IntentInv(i)'
        BY <1>0, <3>1, <3>2 DEF IntentInv, Unsent, InFlight, Terminal, PermitsKept
      <3>4. AllVoided(i)
        BY <3>2, NothingIssued
      <3>5. Truthful => BookInv(i)'
        BY <1>1, <3>1, <3>2, <3>4 DEF BookInv, PermitsKept, RuntimeInv
      <3> QED
        BY <3>1, <3>3, <3>5
    <2> QED
      BY <2>1, <2>2
  <1>6. ASSUME NEW x \in Issuers, NEW j \in Intents
        PROVE  TicketInv(x)' /\ JobInv(x, j)' /\ (Truthful => RecordInv(x, j)')
    <2>0. TicketInv(x) /\ JobInv(x, j) /\ (Truthful => RecordInv(x, j))
      BY DEF RuntimeInv
    <2>1. TicketInv(x)' /\ (Truthful => RecordInv(x, j)')
      BY <1>1, <2>0 DEF TicketInv, RecordInv
    <2>2. CASE j # i
      <3>1. Untouched(j)
        BY <1>1, <1>2, <1>3, <2>2 DEF Untouched
      <3> QED
        BY <1>0, <1>1, <2>0, <2>1, <3>1, UntouchedJob
    <2>3. CASE j = i
      <3>1. PermitsKept(i) /\ row[i].state # "PROPOSED"
        BY <1>0, <1>3 DEF Terminal
      <3> QED
        BY <1>1, <2>0, <2>1, <2>3, <3>1 DEF JobInv, PermitsKept
    <2> QED
      BY <2>2, <2>3
  <1> QED
    BY <1>4, <1>5, <1>6 DEF RuntimeInv

\* The venue moves the order of an intent: rows, permits and processes do not see it.
LEMMA OrderMoves ==
  ASSUME LedgerInv, RuntimeInv, NEW i \in Intents, Idle, UNCHANGED ledgerVars,
         order' \in [Intents -> Order], \A j \in Intents \ {i} : order'[j] = order[j],
         Truthful => BookInv(i)' /\ \A x \in Issuers : RecordInv(x, i)'
  PROVE  RuntimeInv'
  <1>1. /\ UNCHANGED <<row, usage, job, lease, wire, faults, rejected, taken>>
        /\ ticket' = ticket /\ permits' = permits /\ clock' = clock /\ RuntimeTypeOK
    BY DEF Idle, RowKept, ledgerVars, RuntimeInv
  <1>2. RuntimeTypeOK'
    BY <1>1 DEF RuntimeTypeOK
  <1>3. ASSUME NEW j \in Intents
        PROVE  IntentInv(j)' /\ (Truthful => BookInv(j)')
    <2>1. PermitsKept(j) /\ IntentInv(j) /\ (Truthful => BookInv(j))
      BY <1>1, TableKept DEF RuntimeInv
    <2>2. IntentInv(j)'
      BY <1>1, <2>1 DEF IntentInv, PermitsKept
    <2>3. CASE j # i
      BY <1>1, <2>1, <2>2, <2>3 DEF BookInv, PermitsKept
    <2> QED
      BY <2>2, <2>3
  <1>4. ASSUME NEW x \in Issuers, NEW j \in Intents
        PROVE  TicketInv(x)' /\ JobInv(x, j)' /\ (Truthful => RecordInv(x, j)')
    <2>1. /\ PermitsKept(j) /\ TicketInv(x) /\ JobInv(x, j) /\ (Truthful => RecordInv(x, j))
      BY <1>1, TableKept DEF RuntimeInv
    <2>2. TicketInv(x)'
      BY <1>1, <2>1 DEF TicketInv
    <2>3. JobInv(x, j)'
      BY <1>1, <2>1 DEF JobInv, PermitsKept
    <2>4. CASE j # i
      BY <1>1, <2>1, <2>2, <2>3, <2>4 DEF RecordInv
    <2> QED
      BY <2>2, <2>3, <2>4
  <1> QED
    BY <1>2, <1>3, <1>4 DEF RuntimeInv

\* Executing an admitted request, filling and cancelling keep what is known of the
\* book: a report a process still holds is about a final order or claims only that
\* the order exists.
LEMMA BookKeeps ==
  ASSUME LedgerInv, RuntimeInv, NEW i \in Intents,
         VenueExecute(i) \/ VenueFill(i) \/ VenueCancel(i)
  PROVE  RuntimeInv'
  <1>0. /\ RuntimeTypeOK /\ order \in [Intents -> Order] /\ Idle /\ UNCHANGED ledgerVars
        /\ permits' = permits /\ usage' = usage /\ row' = row /\ job' = job
        /\ order[i].status \in {"none", "open", "filled", "cancelled"}
        /\ order[i].fill \in 0 .. Size /\ Size \in Nat \ {0}
    BY RuntimeConstants DEF RuntimeInv, RuntimeTypeOK, Order, VenueExecute, VenueFill, VenueCancel,
       Idle, RowKept, ledgerVars
  <1>k. PermitsKept(i)
    BY <1>0, TableKept
  <1>b. Truthful => BookInv(i) /\ \A x \in Issuers : RecordInv(x, i)
    BY DEF RuntimeInv
  <1>1. ASSUME NEW o \in Order, order' = [order EXCEPT ![i] = o], o.status # "none",
               o.status = "filled" => o.fill = Size,
               order[i].status \in {"none", "open"},
               ConsumedRows(i) # {} \/ order[i].status = "open"
        PROVE  RuntimeInv'
    <2>1. /\ order' \in [Intents -> Order] /\ order'[i] = o
          /\ \A j \in Intents \ {i} : order'[j] = order[j]
      BY <1>0, <1>1
    <2>2. Truthful => BookInv(i)'
      BY <1>0, <1>k, <1>b, <1>1, <2>1 DEF BookInv, PermitsKept
    <2>3. ASSUME Truthful, NEW x \in Issuers
          PROVE  RecordInv(x, i)'
      <3>1. RecordInv(x, i) /\ job' = job /\ order'[i].status # "none"
        BY <1>0, <1>b, <1>1, <2>1, <2>3
      <3> QED
        BY <1>1, <3>1 DEF RecordInv
    <2> QED
      BY <1>0, <2>1, <2>2, <2>3, OrderMoves
  <1>2. CASE VenueExecute(i)
    <2>1. PICK o \in {[status |-> "filled", fill |-> Size]} \cup
                     {[status |-> "open", fill |-> f] :
                        f \in IF Primitive = "TRADE" THEN 0 .. Size - 1 ELSE {}} :
            order' = [order EXCEPT ![i] = o]
      BY <1>2 DEF VenueExecute
    <2>2. o \in Order /\ o.status # "none" /\ (o.status = "filled" => o.fill = Size)
      BY <1>0, <2>1 DEF Order
    <2> QED
      BY <1>1, <1>2, <2>1, <2>2 DEF VenueExecute
  <1>3. CASE VenueFill(i)
    <2> DEFINE o == [status |-> IF order[i].fill + 1 = Size THEN "filled" ELSE "open",
                     fill |-> order[i].fill + 1]
    <2>1. order' = [order EXCEPT ![i] = o] /\ order[i].status = "open"
      BY <1>0, <1>3 DEF VenueFill
    <2>2. order[i].fill < Size
      BY <1>0, <2>1 DEF Order
    <2>3. o \in Order /\ o.status # "none" /\ (o.status = "filled" => o.fill = Size)
      BY <1>0, <2>2 DEF Order
    <2> HIDE DEF o
    <2> QED
      BY <1>1, <2>1, <2>3
  <1>4. CASE VenueCancel(i)
    <2> DEFINE o == [status |-> "cancelled", fill |-> order[i].fill]
    <2>1. order[i] = [status |-> order[i].status, fill |-> order[i].fill]
      BY <1>0 DEF Order
    <2>2. order' = [order EXCEPT ![i] = [order[i] EXCEPT !.status = "cancelled"]]
      BY <1>4 DEF VenueCancel
    <2>3. [order[i] EXCEPT !.status = "cancelled"] = o
      BY <2>1
    <2>4. o \in Order /\ o.status = "cancelled"
      BY <1>0 DEF Order
    <2>5. order[i].status = "open"
      BY <1>4 DEF VenueCancel
    <2> HIDE DEF o
    <2> QED
      BY <1>1, <2>2, <2>3, <2>4, <2>5
  <1> QED
    BY <1>2, <1>3, <1>4

\* The gateway reads, and admits a permit of, a request on the wire; what the runtime
\* knows of permits survives an admission.
LEMMA GatewayKeeps ==
  ASSUME LedgerInv, LedgerTypeOK', RuntimeInv, NEW r \in wire, VenueVerify(r) \/ VenueConsume(r)
  PROVE  RuntimeInv'
  <1>1. r \in DOMAIN permits /\ RuntimeTypeOK /\ LedgerTypeOK
    BY DEF RuntimeInv, RuntimeTypeOK, LedgerInv
  <1>2. /\ UNCHANGED <<row, usage, lease, job, wire, order, faults, rejected, taken>>
        /\ ticket' = ticket /\ clock' = clock
    BY DEF VenueVerify, VenueConsume, VerifyPermit, ConsumePermit, Idle, RowKept
  <1>3. DOMAIN permits' = DOMAIN permits /\ \A j \in Intents : PermitsKept(j)
    <2>1. CASE VenueVerify(r)
      BY <2>1, TableKept DEF VenueVerify, VerifyPermit
    <2>2. CASE VenueConsume(r)
      BY <1>1, <2>2, KeptByConsume, ConsumedTable DEF VenueConsume, ConsumePermit, LedgerTypeOK
    <2> QED
      BY <2>1, <2>2
  <1>4. RuntimeTypeOK' /\ \A j \in Intents : Untouched(j)
    BY <1>1, <1>2, <1>3 DEF RuntimeTypeOK, Untouched
  <1>5. clock <= clock'
    BY <1>2 DEF LedgerInv, LedgerTypeOK
  <1> QED
    BY <1>2, <1>4, <1>5, Bystanding, {} \in SUBSET Issuers

\* A lease that its dead owner left behind may be cleared: no process relies on it.
LEMMA ClearKeeps ==
  ASSUME LedgerInv, RuntimeInv, NEW i \in Intents, ClearStaleLease(i)
  PROVE  RuntimeInv'
  <1>1. /\ RuntimeTypeOK /\ LedgerTypeOK /\ clock \in Int /\ "DEAD" \notin Issuers
        /\ UNCHANGED <<row, usage, job, wire, order, faults, rejected, taken>>
        /\ ticket' = ticket /\ permits' = permits /\ clock' = clock
        /\ grant' = grant /\ halted' = halted /\ verified' = verified /\ stops' = stops
    BY RuntimeConstants
    DEF RuntimeInv, LedgerInv, LedgerTypeOK, ClearStaleLease, RowKept, ledgerVars
  <1>2. /\ lease' \in [Intents -> Issuers \cup {"FREE", "DEAD"}]
        /\ \A x \in Issuers, j \in Intents : lease[j] = x => lease'[j] = x
    BY <1>1 DEF RuntimeTypeOK, ClearStaleLease
  <1>3. RuntimeTypeOK' /\ LedgerTypeOK'
    BY <1>1, <1>2 DEF RuntimeTypeOK, LedgerTypeOK
  <1>4. \A j \in Intents : Untouched(j)
    BY <1>1, TableKept DEF Untouched
  <1> QED
    BY <1>1, <1>2, <1>3, <1>4, clock <= clock', Bystanding, {} \in SUBSET Issuers

\* Operators, the clock, intents of other stores' rows, and a step of nobody leave
\* every intent of the runtime alone.
LEMMA EnvironmentKeeps ==
  ASSUME LedgerInv, LedgerTypeOK', RuntimeInv,
         \/ EnvironmentStep
         \/ UNCHANGED vars
         \/ \E effect \in Rivals : SettledElsewhere(effect)
  PROVE  RuntimeInv'
  <1>1. /\ UNCHANGED <<row, usage, lease, job, wire, order, faults, rejected>>
        /\ taken' \subseteq taken \cup Rivals
        /\ ticket' = ticket /\ permits' = permits /\ clock' \in {clock, clock + 1}
    BY DEF EnvironmentStep, OperatorStep, SetGrantStatus, Halt, Resume, Tick, vars, runtimeVars,
       ledgerVars, SettledElsewhere, RowKept
  <1>2. RuntimeTypeOK /\ LedgerTypeOK /\ clock <= clock'
    BY <1>1 DEF RuntimeInv, LedgerInv, LedgerTypeOK
  <1>3. RuntimeTypeOK'
    BY <1>1, <1>2 DEF RuntimeTypeOK
  <1>4. \A j \in Intents : Untouched(j)
    BY <1>1, TableKept DEF Untouched
  <1> QED
    BY <1>1, <1>2, <1>3, <1>4, Bystanding, {} \in SUBSET Issuers

-----------------------------------------------------------------------------
(* The runtime drives the ledger *)

\* Whatever a process, the venue, an operator or a fault does to the tables of grants
\* and permits is a transaction of PermitLedger.
LEMMA DrivesLedger ==
  ASSUME LedgerInv, RuntimeInv, [Next]_vars
  PROVE  [LedgerNext]_ledgerVars
  <1>1. ASSUME NEW w \in Issuers, CallStep(w)
        PROVE  UNCHANGED ledgerVars
    BY <1>1 DEF CallStep, Register, StartReconcile, PresentWrongGrant, Quiet
  <1>2. ASSUME NEW w \in Issuers, ProcessStep(w)
        PROVE  UNCHANGED ledgerVars
    BY <1>2 DEF ProcessStep, AcquireLease, IntentBusy, ReleaseLease, ProcessFinished,
       ProcessInactive, ProcessActive, GateRefuses, RecoveryRefused, ReserveUsage,
       ReservationDenied, Authorize, Reserve, Quiet
  <1>3. ASSUME NEW w \in Issuers, job[w] # NoJob, SubmitStep(w)
        PROVE  [LedgerNext]_ledgerVars
    <2>1. CASE IssueFence(w)
      <3>1. PICK i \in Intents : i = job[w].intent
        BY <1>3, JobTyped DEF RuntimeInv
      <3>2. job[w].now \in 0 .. clock
        BY <1>3, <3>1, JobTyped DEF RuntimeInv, JobInv, LedgerInv, LedgerTypeOK
      <3>3. \E exp \in job[w].now .. Deadline[i] : AllocateFence(w, i, job[w].now, exp)
        BY <2>1, <3>1 DEF IssueFence, TheIntent
      <3> QED
        BY <3>2, <3>3 DEF LedgerNext, IssuerStep
    <2>2. CASE IssueRecheck(w) \/ IssueRecord(w) \/ IssueRefused(w)
      BY <2>2 DEF IssueRecheck, IssueRecord, IssueRefused, LedgerNext, IssuerStep
    <2>3. CASE \/ Submit(w) \/ SubmitRefused(w) \/ BeginSubmission(w)
               \/ Send(w) \/ AdapterReturns(w) \/ AdapterRejects(w)
      BY <2>3 DEF Submit, SubmitRefused, BeginSubmission, Send, AdapterReturns, AdapterRejects, Quiet
    <2> QED
      BY <1>3, <2>1, <2>2, <2>3 DEF SubmitStep
  <1>4. ASSUME NEW w \in Issuers, job[w] # NoJob, ReconcileStep(w)
        PROVE  [LedgerNext]_ledgerVars
    <2>1. CASE SettleCancelled(w) \/ SettleNone(w) \/ StopVoid(w)
      <3>1. job[w].intent \in Intents /\ VoidUnconsumedPermits(job[w].intent)
        BY <1>4, <2>1, JobTyped DEF RuntimeInv, SettleCancelled, SettleNone, StopVoid, TheIntent
      <3> QED
        BY <3>1 DEF LedgerNext
    <2>2. CASE ~(SettleCancelled(w) \/ SettleNone(w) \/ StopVoid(w))
      BY <1>4, <2>2 DEF ReconcileStep, Reconcile, ReconcileNotApplicable, ReconcileUnconfigured,
         Verify, SettleDisputed, SettleUnknown, SettleEffect, CloseCancelled, SettleNoneEarly,
         NoneAfterConsumption, ResubmissionBlocked, Resubmit, StopTransition, Quiet
    <2> QED
      BY <2>1, <2>2
  <1>5. ASSUME NEW w \in Issuers, FaultStep(w)
        PROVE  [LedgerNext]_ledgerVars
    BY <1>5 DEF FaultStep, Crash, Abort, ReleaseFails, LedgerNext, IssuerStep
  <1>6. ASSUME NEW i \in Intents, ReplayTerminal(i) \/ ClearStaleLease(i)
        PROVE  UNCHANGED ledgerVars
    BY <1>6 DEF ReplayTerminal, ClearStaleLease, Quiet
  <1>7. ASSUME NEW effect \in Rivals, SettledElsewhere(effect)
        PROVE  UNCHANGED ledgerVars
    BY <1>7 DEF SettledElsewhere
  <1>8. ASSUME VenueStep
        PROVE  [LedgerNext]_ledgerVars
    <2>1. ASSUME NEW r \in wire, VenueVerify(r) \/ VenueConsume(r)
          PROVE  LedgerNext
      <3>1. r \in DOMAIN permits
        BY DEF RuntimeInv, RuntimeTypeOK
      <3> QED
        BY <2>1, <3>1 DEF VenueVerify, VenueConsume, LedgerNext, GatewayStep
    <2>2. ASSUME NEW i \in Intents, VenueExecute(i) \/ VenueFill(i) \/ VenueCancel(i)
          PROVE  UNCHANGED ledgerVars
      BY <2>2 DEF VenueExecute, VenueFill, VenueCancel
    <2> QED
      BY <1>8, <2>1, <2>2 DEF VenueStep
  <1>9. ASSUME EnvironmentStep
        PROVE  LedgerNext
    BY <1>9 DEF EnvironmentStep, LedgerNext
  <1>10. CASE UNCHANGED vars
    BY <1>10 DEF vars
  <1> QED
    BY <1>1, <1>2, <1>3, <1>4, <1>5, <1>6, <1>7, <1>8, <1>9, <1>10 DEF Next

\* Hence the ledger's invariant is an invariant of the runtime's specification.
LEMMA LedgerKept ==
  ASSUME LedgerInv, RuntimeInv, [Next]_vars
  PROVE  LedgerInv'
  BY DrivesLedger, LedgerInvStep

-----------------------------------------------------------------------------
(* The inductive invariant *)

\* No call, permit, reservation or order is there in the beginning.
LEMMA RuntimeInvInit == Init => RuntimeInv
  <1> SUFFICES ASSUME Init PROVE RuntimeInv
    OBVIOUS
  <1>1. RuntimeInit /\ permits = << >> /\ ticket = [w \in Issuers |-> NoTicket]
    BY DEF Init, LedgerInit
  <1>2. \A w \in Issuers : job[w] = NoJob /\ ticket[w] = NoTicket /\ job[w].pc = "idle"
    BY <1>1 DEF RuntimeInit, NoJob
  <1>3. RuntimeTypeOK
    <2>1. NewRow \in Row
      BY RuntimeConstants DEF NewRow, Row, EffectIds, Amounts, None
    <2>2. [status |-> "none", fill |-> 0] \in Order
      BY RuntimeConstants DEF Order
    <2> QED
      BY <1>1, <2>1, <2>2 DEF RuntimeInit, RuntimeTypeOK
  <1>4. ASSUME NEW i \in Intents
        PROVE  IntentInv(i) /\ BookInv(i)
    <2>1. /\ row[i] = NewRow /\ usage[i] = "NONE" /\ rejected = {}
          /\ order[i].status = "none" /\ order[i].fill = 0
      BY <1>1 DEF RuntimeInit
    <2>2. NoPermits(i) /\ DOMAIN permits = {}
      BY <1>1 DEF NoPermits
    <2>3. OneAlive(i)
      BY <2>2, NothingIssued
    <2> QED
      BY <2>1, <2>2, <2>3 DEF IntentInv, BookInv, NewRow, Unsent, InFlight, Terminal, None
  <1>5. \A w \in Issuers : TicketInv(w)
    BY <1>2 DEF TicketInv
  <1>6. \A w \in Issuers, i \in Intents : JobInv(w, i) /\ RecordInv(w, i)
    BY <1>2 DEF JobInv, RecordInv
  <1> QED
    BY <1>3, <1>4, <1>5, <1>6 DEF RuntimeInv

\* Every step of a process keeps it: the lemmas above, one for each part of the code.
LEMMA WorkerKeeps ==
  ASSUME LedgerInv, RuntimeInv, NEW w \in Issuers, job[w] # NoJob,
         \/ PresentWrongGrant(w) \/ ProcessStep(w) \/ SubmitStep(w)
         \/ ReconcileStep(w) \/ FaultStep(w)
  PROVE  RuntimeInv'
  <1>1. PICK i \in Intents : i = job[w].intent
    BY JobTyped DEF RuntimeInv
  <1>2. Working(w, i)
    BY <1>1 DEF Working
  <1>3. CASE PresentWrongGrant(w)
    BY <1>2, <1>3, WrongGrantKeeps
  <1>4. CASE ProcessStep(w)
    <2>1. \/ AcquireLease(w) \/ IntentBusy(w) \/ ReleaseLease(w)
          \/ ProcessFinished(w) \/ ProcessInactive(w) \/ ProcessActive(w)
          \/ \E verdict \in {"DENIED", "DEFERRED", "STOPPED"} : GateRefuses(w, verdict)
          \/ RecoveryRefused(w) \/ ReserveUsage(w) \/ ReservationDenied(w)
          \/ Authorize(w) \/ Reserve(w)
      BY <1>4 DEF ProcessStep
    <2> QED
      BY <1>2, <2>1, LeaseKeeps, DispatchKeeps, GatesKeep
  <1>5. CASE SubmitStep(w)
    <2>1. \/ Submit(w) \/ SubmitRefused(w) \/ BeginSubmission(w)
          \/ IssueFence(w) \/ IssueRecheck(w) \/ IssueRecord(w) \/ IssueRefused(w)
          \/ Send(w) \/ AdapterReturns(w) \/ AdapterRejects(w)
      BY <1>5 DEF SubmitStep
    <2> QED
      BY <1>2, <2>1, SubmitKeeps, IssueKeeps, AdapterKeeps
  <1>6. CASE ReconcileStep(w)
    <2>1. \/ Reconcile(w) \/ ReconcileNotApplicable(w) \/ ReconcileUnconfigured(w)
          \/ \E rec \in Truth(TheIntent(w)) \cup Lies \cup {Silence} : Verify(w, rec)
          \/ SettleDisputed(w) \/ SettleUnknown(w) \/ SettleEffect(w)
          \/ SettleCancelled(w) \/ CloseCancelled(w)
          \/ SettleNoneEarly(w) \/ SettleNone(w)
          \/ NoneAfterConsumption(w) \/ ResubmissionBlocked(w) \/ Resubmit(w)
          \/ StopVoid(w) \/ StopTransition(w)
      BY <1>6 DEF ReconcileStep
    <2> QED
      BY <1>2, <2>1, ReconcileKeeps, VerifyKeeps, UnsettledKeeps, SettleEffectKeeps, VoidKeeps,
         CountKeeps, CloseKeeps
  <1>7. CASE FaultStep(w)
    BY <1>2, <1>7, FaultKeeps
  <1> QED
    BY <1>3, <1>4, <1>5, <1>6, <1>7

\* So does a new call, a call for an intent that has ended, and everybody else.
LEMMA RuntimeKept ==
  ASSUME LedgerInv, RuntimeInv, [Next]_vars
  PROVE  RuntimeInv'
  <1>0. LedgerTypeOK'
    BY LedgerKept DEF LedgerInv
  <1>1. ASSUME NEW w \in Issuers, NEW i \in Intents, Register(w, i)
        PROVE  RuntimeInv'
    <2>1. /\ job[w] = NoJob /\ job' = [job EXCEPT ![w] = Call(i, "process", TRUE)]
          /\ Quiet /\ usage' = usage
          /\ \/ row' = row /\ row[i].state # "ABSENT"
             \/ row[i].state = "ABSENT" /\ row' = Moved(i, "PROPOSED", FALSE)
      BY <1>1 DEF Register
    <2> DEFINE v == Call(i, "process", TRUE)
    <2>2. v \in Job /\ v.pc = "acquire" /\ v.intent = i /\ v.block = "none" /\ v.now = 0
      BY SilenceTyped DEF Call, Job, PCs
    <2> HIDE DEF v
    <2>3. job' = [job EXCEPT ![w] = v]
      BY <2>1 DEF v
    <2> QED
      BY <2>1, <2>2, <2>3, CallKeeps
  <1>2. ASSUME NEW w \in Issuers, NEW i \in Intents, NEW fresh \in BOOLEAN,
               StartReconcile(w, i, fresh)
        PROVE  RuntimeInv'
    <2>1. /\ job[w] = NoJob /\ job' = [job EXCEPT ![w] = Call(i, "reconcile", fresh)]
          /\ Quiet /\ usage' = usage /\ row' = row /\ row[i].state # "ABSENT"
      BY <1>2 DEF StartReconcile, RowKept
    <2> DEFINE v == Call(i, "reconcile", fresh)
    <2>2. v \in Job /\ v.pc = "acquire" /\ v.intent = i /\ v.block = "none" /\ v.now = 0
      BY SilenceTyped DEF Call, Job, PCs
    <2> HIDE DEF v
    <2>3. job' = [job EXCEPT ![w] = v]
      BY <2>1 DEF v
    <2> QED
      BY <2>1, <2>2, <2>3, CallKeeps
  <1>3. ASSUME NEW w \in Issuers, job[w] # NoJob,
               \/ PresentWrongGrant(w) \/ ProcessStep(w) \/ SubmitStep(w)
               \/ ReconcileStep(w) \/ FaultStep(w)
        PROVE  RuntimeInv'
    BY <1>3, WorkerKeeps
  <1>4. ASSUME NEW i \in Intents, ReplayTerminal(i) \/ ClearStaleLease(i)
        PROVE  RuntimeInv'
    BY <1>4, ReplayKeeps, ClearKeeps
  <1>5. ASSUME VenueStep
        PROVE  RuntimeInv'
    BY <1>0, <1>5, GatewayKeeps, BookKeeps DEF VenueStep
  <1>6. ASSUME \/ EnvironmentStep \/ UNCHANGED vars
               \/ \E effect \in Rivals : SettledElsewhere(effect)
        PROVE  RuntimeInv'
    BY <1>0, <1>6, EnvironmentKeeps
  <1> QED
    BY <1>1, <1>2, <1>3, <1>4, <1>5, <1>6 DEF Next, CallStep

\* The inductive invariant of the composed system, for any number of intents,
\* processes, attempts, faults and lies: the ledger's tables stay consistent under
\* the runtime that drives them.
THEOREM RuntimeInvariant == Spec => [](LedgerInv /\ RuntimeInv)
  <1>1. Init => LedgerInv /\ RuntimeInv
    BY LedgerInvInit, RuntimeInvInit DEF Init
  <1>2. LedgerInv /\ RuntimeInv /\ [Next]_vars => (LedgerInv /\ RuntimeInv)'
    BY LedgerKept, RuntimeKept
  <1> QED
    BY <1>1, <1>2, PTL DEF Spec

-----------------------------------------------------------------------------
(* Who writes an intent's history *)

\* The attempts, the recorded effect and the recorded fill of every intent are kept.
KeepsHistory ==
  \A j \in Intents :
    row'[j].count = row[j].count /\ row'[j].effect = row[j].effect /\ row'[j].fill = row[j].fill

\* A transition writes the state and the block, no history.
LEMMA MovedHistory ==
  ASSUME RuntimeTypeOK, NEW i \in Intents, NEW state, NEW block, row' = Moved(i, state, block)
  PROVE  KeepsHistory
  <1>1. row \in [Intents -> Row] /\ \A j \in Intents : row[j] \in Row
    BY DEF RuntimeTypeOK
  <1> QED
    BY <1>1 DEF Moved, Row, KeepsHistory

\* A step that leaves the table alone, or makes one transition, keeps all history.
LEMMA TransitHistory ==
  ASSUME RuntimeTypeOK, NEW i \in Intents,
         row' = row \/ \E state, block : row' = Moved(i, state, block)
  PROVE  KeepsHistory
  <1>1. CASE row' = row
    BY <1>1 DEF KeepsHistory
  <1>2. ASSUME NEW state, NEW block, row' = Moved(i, state, block)
        PROVE  KeepsHistory
    BY <1>2, MovedHistory
  <1> QED
    BY <1>1, <1>2

\* The step of process w about intent i that writes its history.
Writes(w, i) == Working(w, i) /\ (BeginSubmission(w) \/ SettleEffect(w) \/ CloseCancelled(w))

\* Only begin_submission, an accepted settlement and a cancellation write history,
\* and only for the intent whose lease their process holds.
LEMMA HistoryFrame ==
  ASSUME LedgerInv, RuntimeInv, [Next]_vars
  PROVE  KeepsHistory \/ \E w \in Issuers, i \in Intents : Writes(w, i)
  <1>0. RuntimeTypeOK
    BY DEF RuntimeInv
  <1>1. CASE row' = row
    BY <1>1 DEF KeepsHistory
  <1>2. ASSUME NEW w \in Issuers, job[w] # NoJob,
               \/ PresentWrongGrant(w) \/ ProcessStep(w) \/ SubmitStep(w)
               \/ ReconcileStep(w) \/ FaultStep(w)
        PROVE  KeepsHistory \/ \E i \in Intents : Writes(w, i)
    <2>0. PICK i \in Intents : i = job[w].intent
      BY <1>0, <1>2, JobTyped
    <2>1. Working(w, i) /\ TheIntent(w) = i
      BY <1>2, <2>0 DEF Working, TheIntent
    <2>2. CASE BeginSubmission(w) \/ SettleEffect(w) \/ CloseCancelled(w)
      BY <2>1, <2>2 DEF Writes
    <2>3. CASE IssueRecord(w)
      <3>1. row' = Moved(i, "UNKNOWN", FALSE) \/ row' = [row EXCEPT ![i].amb = ticket[w].expires]
        BY <2>1, <2>3 DEF IssueRecord
      <3>2. row \in [Intents -> Row] /\ \A j \in Intents : row[j] \in Row
        BY <1>0 DEF RuntimeTypeOK
      <3> QED
        BY <3>1, <3>2 DEF Moved, Row, KeepsHistory
    <2>4. CASE StopTransition(w)
      <3>1. \/ row' = row
            \/ row' = [Moved(i, "STOPPED", FALSE) EXCEPT ![i].disputed = job[w].stop = "disputed"]
        BY <2>1, <2>4 DEF StopTransition
      <3>2. row \in [Intents -> Row] /\ \A j \in Intents : row[j] \in Row
        BY <1>0 DEF RuntimeTypeOK
      <3> QED
        BY <3>1, <3>2 DEF Moved, Row, KeepsHistory
    <2>5. CASE PresentWrongGrant(w) \/ ProcessStep(w) \/ FaultStep(w)
      <3>1. row' = row \/ \E state, block : row' = Moved(i, state, block)
        BY <2>1, <2>5 DEF PresentWrongGrant, ProcessStep, FaultStep, AcquireLease, IntentBusy,
           ReleaseLease, ProcessFinished, ProcessInactive, ProcessActive, GateRefuses,
           RecoveryRefused, ReserveUsage, ReservationDenied, Authorize, Reserve, Crash, Abort,
           ReleaseFails, CloseReleased, RowKept
      <3> QED
        BY <1>0, <3>1, TransitHistory
    <2>6. CASE SubmitStep(w) /\ ~BeginSubmission(w) /\ ~IssueRecord(w)
      <3>1. row' = row \/ \E state, block : row' = Moved(i, state, block)
        BY <2>1, <2>6 DEF SubmitStep, Submit, SubmitRefused, IssueFence, IssueRecheck,
           IssueRefused, Send, AdapterReturns, AdapterRejects, CloseReleased, RowKept
      <3> QED
        BY <1>0, <3>1, TransitHistory
    <2>7. CASE ReconcileStep(w) /\ ~SettleEffect(w) /\ ~CloseCancelled(w) /\ ~StopTransition(w)
      <3>1. row' = row \/ \E state, block : row' = Moved(i, state, block)
        BY <2>1, <2>7 DEF ReconcileStep, Reconcile, ReconcileNotApplicable, ReconcileUnconfigured,
           Verify, SettleDisputed, SettleUnknown, SettleCancelled, SettleNoneEarly, SettleNone,
           BackToUnknown, NoneAfterConsumption, ResubmissionBlocked, Resubmit, StopVoid,
           CloseReleased, RowKept
      <3> QED
        BY <1>0, <3>1, TransitHistory
    <2> QED
      BY <1>2, <2>2, <2>3, <2>4, <2>5, <2>6, <2>7
  <1>3. ASSUME NEW w \in Issuers, NEW i \in Intents, Register(w, i)
        PROVE  KeepsHistory
    <2>1. row' = row \/ row' = Moved(i, "PROPOSED", FALSE)
      BY <1>3 DEF Register
    <2> QED
      BY <1>0, <2>1, TransitHistory
  <1>4. ASSUME \/ \E w \in Issuers, i \in Intents, fresh \in BOOLEAN : StartReconcile(w, i, fresh)
               \/ \E i \in Intents : ReplayTerminal(i) \/ ClearStaleLease(i)
               \/ \E effect \in Rivals : SettledElsewhere(effect)
               \/ VenueStep \/ EnvironmentStep \/ UNCHANGED vars
        PROVE  row' = row
    BY <1>4 DEF StartReconcile, ReplayTerminal, ClearStaleLease, SettledElsewhere, VenueStep,
       VenueVerify, VenueConsume, VenueExecute, VenueFill, VenueCancel, Idle, EnvironmentStep,
       RowKept, vars, runtimeVars
  <1> QED
    BY <1>1, <1>2, <1>3, <1>4 DEF Next, CallStep

\* Identities of other intents come in with their own settlement only.
LEMMA ClaimFrame ==
  ASSUME [Next]_vars
  PROVE  taken' = taken \/ \E effect \in Rivals : SettledElsewhere(effect)
  <1>1. ASSUME NEW w \in Issuers, CallStep(w) \/ ProcessStep(w) \/ FaultStep(w)
        PROVE  taken' = taken
    BY <1>1 DEF CallStep, Register, StartReconcile, PresentWrongGrant, ProcessStep, AcquireLease,
       IntentBusy, ReleaseLease, ProcessFinished, ProcessInactive, ProcessActive, GateRefuses,
       RecoveryRefused, ReserveUsage, ReservationDenied, Authorize, Reserve, FaultStep, Crash,
       Abort, ReleaseFails, Quiet, NoRuntimeStep
  <1>2. ASSUME NEW w \in Issuers, SubmitStep(w)
        PROVE  taken' = taken
    BY <1>2 DEF SubmitStep, Submit, SubmitRefused, BeginSubmission, IssueFence, IssueRecheck,
       IssueRecord, IssueRefused, Send, AdapterReturns, AdapterRejects, Quiet, NoRuntimeStep
  <1>3. ASSUME NEW w \in Issuers, ReconcileStep(w)
        PROVE  taken' = taken
    BY <1>3 DEF ReconcileStep, Reconcile, ReconcileNotApplicable, ReconcileUnconfigured, Verify,
       SettleDisputed, SettleUnknown, SettleEffect, SettleCancelled, CloseCancelled,
       SettleNoneEarly, SettleNone, NoneAfterConsumption, ResubmissionBlocked, Resubmit, StopVoid,
       StopTransition, Quiet, NoRuntimeStep
  <1>4. ASSUME \/ \E i \in Intents : ReplayTerminal(i) \/ ClearStaleLease(i)
               \/ VenueStep \/ EnvironmentStep \/ UNCHANGED vars
        PROVE  taken' = taken
    BY <1>4 DEF ReplayTerminal, ClearStaleLease, VenueStep, VenueVerify, VenueConsume,
       VenueExecute, VenueFill, VenueCancel, Idle, EnvironmentStep, Quiet, NoRuntimeStep, vars,
       runtimeVars
  <1> QED
    BY <1>1, <1>2, <1>3, <1>4 DEF Next

\* What the three of them write.
LEMMA WrittenHistory ==
  ASSUME NEW w \in Issuers, NEW i \in Intents, Writes(w, i)
  PROVE  /\ \A j \in Intents \ {i} : row'[j] = row[j]
         /\ \/ /\ BeginSubmission(w) /\ row'[i].count = row[i].count + 1
               /\ row'[i].effect = row[i].effect /\ row'[i].fill = row[i].fill
            \/ /\ row'[i].count = row[i].count
               /\ \/ row'[i].effect = row[i].effect
                  \/ row'[i].effect = job[w].record.effect /\ ~Claimed(i, row'[i].effect)
               /\ row[i].effect # "none" => row'[i].effect = row[i].effect
               /\ Primitive # "CONTROL" => row'[i].fill >= row[i].fill
         /\ taken' = taken
  <1> DEFINE rec == job[w].record
             final == rec.status \in {"FINALIZED", "CANCELLED"}
             fill == IF rec.status = "PARTIALLY_FILLED" /\ rec.amount = None THEN 0 ELSE rec.amount
  <1>0. /\ Working(w, i) /\ TheIntent(w) = i /\ RuntimeTypeOK /\ JobInv(w, i)
        /\ job[w] # NoJob /\ job[w].intent = i
        /\ row \in [Intents -> Row] /\ row[i] \in Row /\ row[i].fill \in Amounts
        /\ row[i].fill \in Int /\ rec \in Record /\ rec.amount \in Int
    BY WorkingFacts, JobTyped, RuntimeConstants
    DEF Writes, Working, TheIntent, RuntimeTypeOK, Row, Amounts, Record, None
  <1>1. CASE BeginSubmission(w)
    <2>1. /\ row' = [row EXCEPT ![i].state = "SUBMITTED", ![i].count = @ + 1,
                                ![i].block = FALSE, ![i].amb = None]
          /\ taken' = taken
      BY <1>0, <1>1 DEF BeginSubmission, Quiet, NoRuntimeStep
    <2> QED
      BY <1>0, <1>1, <2>1 DEF Row
  <1>2. CASE row' = row /\ taken' = taken
    BY <1>0, <1>2
  <1>3. CASE SettleEffect(w) /\ row' # row
    <2>1. /\ row' = [row EXCEPT ![i].state = IF final THEN "FINALIZED" ELSE "CONFIRMED",
                                ![i].effect = rec.effect, ![i].block = FALSE,
                                ![i].fill = IF fill = None THEN @ ELSE fill]
          /\ ~Claimed(i, rec.effect) /\ taken' = taken
          /\ rec.status \in Reporting /\ ~Weak(rec) /\ ~Disputed(i, rec)
      BY <1>0, <1>3 DEF SettleEffect, Quiet, NoRuntimeStep, RowKept
    <2>2. /\ row'[i].effect = rec.effect /\ row'[i].count = row[i].count
          /\ row'[i].fill = IF fill = None THEN row[i].fill ELSE fill
          /\ \A j \in Intents \ {i} : row'[j] = row[j]
      BY <1>0, <2>1 DEF Row
    <2>3. /\ row[i].effect \in {"none", rec.effect}
          /\ ~AmountDisputed(rec) /\ ~FillDisputed(i, rec)
      BY <2>1, AcceptedReport
    <2>4. Primitive # "CONTROL" => ~(rec.status = "PARTIALLY_FILLED" /\ rec.amount = None)
      BY <2>3 DEF AmountDisputed
    <2>5. rec.amount # None /\ row[i].fill # None => rec.amount >= row[i].fill
      BY <1>0, <2>1, <2>3 DEF FillDisputed
    <2>6. Primitive # "CONTROL" => row'[i].fill >= row[i].fill
      BY <1>0, <2>2, <2>4, <2>5 DEF None, Amounts, Record
    <2> QED
      BY <2>1, <2>2, <2>3, <2>6
  <1>4. CASE CloseCancelled(w) /\ row' # row
    <2>1. /\ row' = [Moved(i, "FAILED_SAFE", FALSE) EXCEPT ![i].effect = rec.effect]
          /\ ~Claimed(i, rec.effect) /\ taken' = taken /\ job[w].pc = "cancelled"
      BY <1>0, <1>4 DEF CloseCancelled, Quiet, NoRuntimeStep, RowKept, At
    <2>2. /\ row'[i].effect = rec.effect /\ row'[i].count = row[i].count
          /\ row'[i].fill = row[i].fill
          /\ \A j \in Intents \ {i} : row'[j] = row[j]
      BY <1>0, <2>1 DEF Moved, Row
    <2>3. row[i].effect \in {"none", rec.effect}
      BY <1>0, <2>1 DEF JobInv
    <2>4. row'[i].fill >= row[i].fill
      BY <1>0, <2>2
    <2> QED
      BY <2>1, <2>2, <2>3, <2>4
  <1>5. taken' = taken
    BY DEF Writes, BeginSubmission, SettleEffect, CloseCancelled, Quiet, NoRuntimeStep
  <1> QED
    BY <1>1, <1>2, <1>3, <1>4, <1>5 DEF Writes

-----------------------------------------------------------------------------
(* Whatever the verifier says *)

\* The type invariant, of the ledger and of the runtime.
THEOREM RuntimeTypeCorrect == Spec => []TypeOK
  <1>1. LedgerInv /\ RuntimeInv => TypeOK
    BY DEF LedgerInv, RuntimeInv, TypeOK
  <1> QED
    BY <1>1, RuntimeInvariant, PTL

\* The inductive invariants by themselves, as the runs check them.
THEOREM RuntimeKeepsLedger == Spec => []LedgerInv /\ []RuntimeInv
  BY RuntimeInvariant, PTL

\* What is proved of the ledger alone holds where the runtime drives it: no two
\* permits of a grant version carry one fence, and the counter is never behind the
\* authority events it is compared with after a restore.
THEOREM RuntimeFencesSound == Spec => []FencesUnique /\ []FenceCountsEvents
  <1> DEFINE Inv == LedgerInv /\ RuntimeInv
  <1>1. Init => CountInv
    BY CountInit DEF Init
  <1>2. Inv /\ [Next]_vars => [LedgerNext]_ledgerVars
    BY DrivesLedger
  <1>3. CountInv /\ Inv /\ [Next]_vars => CountInv'
    BY <1>2, CountStep
  <1>4. Inv => FencesUnique
    BY DEF LedgerInv
  <1>5. CountInv => FenceCountsEvents
    BY DEF CountInv, FenceCountsEvents, Events, RowsOf, UsedOf, OpenOf, IssuingIn, GrantAt
  <1> HIDE DEF Inv
  <1>6. Spec => []Inv
    BY RuntimeInvariant, PTL DEF Inv
  <1> QED
    BY <1>1, <1>3, <1>4, <1>5, <1>6, PTL DEF Spec

\* The venue's gateway consumes no permit of the runtime's after a pause, revocation
\* or halt hit its grant since the fence was allocated, whatever was resumed since.
THEOREM StopsReachTheVenue == Spec => NoConsumptionAcrossAStop
  <1> DEFINE Unstopped == \A r \in DOMAIN permits :
                            ConsumedPermit(r) => permits[r].born = stops[GrantAt(r)]
  <1>1. ASSUME LedgerInv, RuntimeInv, [Next]_vars
        PROVE  [Unstopped]_ledgerVars
    BY <1>1, DrivesLedger, ConsumptionStep DEF LedgerInv
  <1>2. LedgerInv /\ RuntimeInv /\ [Next]_vars => [Unstopped]_ledgerVars
    BY <1>1
  <1> QED
    BY <1>2, RuntimeInvariant, PTL DEF Spec, NoConsumptionAcrossAStop

\* Of the permits of an intent the venue admits at most one, whatever the crashes,
\* retries, delays, duplicate deliveries, operator commands and verifier answers:
\* a retry permit is issued only when all earlier ones are void.
THEOREM AdmittedOnce == Spec => []AtMostOneAdmission
  <1>1. ASSUME LedgerInv, RuntimeInv
        PROVE  AtMostOneAdmission
    <2> SUFFICES ASSUME NEW i \in Intents
                 PROVE  Cardinality(ConsumedRows(i)) <= 1
      BY DEF AtMostOneAdmission
    <2>1. OneAlive(i) /\ VoidOrConsumedNotBoth
      BY <1>1 DEF LedgerInv, RuntimeInv, IntentInv
    <2>2. ASSUME NEW r \in ConsumedRows(i), NEW q \in ConsumedRows(i)
          PROVE  r = q
      BY <2>1 DEF ConsumedRows, OneAlive, VoidOrConsumedNotBoth
    <2>3. CASE ConsumedRows(i) = {}
      BY <2>3, FS_EmptySet
    <2>4. CASE ConsumedRows(i) # {}
      <3>1. PICK r : r \in ConsumedRows(i)
        BY <2>4
      <3>2. ConsumedRows(i) = {r}
        BY <2>2, <3>1
      <3>3. Cardinality({r}) = 1
        BY FS_Singleton
      <3> QED
        BY <3>2, <3>3
    <2> QED
      BY <2>3, <2>4
  <1> QED
    BY <1>1, RuntimeInvariant, PTL

\* A new attempt is counted only when every permit of the earlier ones is void: the
\* process that begins it has held the lease since it voided them.
THEOREM RetriesOnDeadPermits == Spec => RetryOnDeadPermits
  <1> DEFINE Kept == \A i \in Intents : row'[i].count > row[i].count =>
                       \A r \in DOMAIN permits : permits[r].intent = i => permits[r].voided
  <1>1. ASSUME LedgerInv, RuntimeInv, [Next]_vars, NEW i \in Intents, row'[i].count > row[i].count
        PROVE  \A r \in DOMAIN permits : permits[r].intent = i => permits[r].voided
    <2>0. row[i].count \in Nat
      BY <1>1 DEF RuntimeInv, RuntimeTypeOK, Row
    <2>1. ~KeepsHistory
      BY <1>1, <2>0 DEF KeepsHistory
    <2>2. PICK w \in Issuers, j \in Intents : Writes(w, j)
      BY <1>1, <2>1, HistoryFrame
    <2>3. j = i /\ BeginSubmission(w)
      BY <1>1, <2>0, <2>2, WrittenHistory
    <2>4. AllVoided(i)
      BY <2>2, <2>3, WorkingFacts DEF Writes, Working, JobInv, BeginSubmission, At
    <2> QED
      BY <2>4 DEF AllVoided
  <1>2. LedgerInv /\ RuntimeInv /\ [Next]_vars => [Kept]_vars
    BY <1>1
  <1> QED
    BY <1>2, RuntimeInvariant, PTL DEF Spec, RetryOnDeadPermits

\* After an adapter's deterministic failure no further attempt is ever counted: the
\* block survives every path by which the intent comes back to a submission.
THEOREM BlocksAreDurable == Spec => BlockIsDurable
  <1> DEFINE Kept == \A i \in rejected : row'[i].count = row[i].count
  <1>1. ASSUME LedgerInv, RuntimeInv, [Next]_vars, NEW i \in rejected
        PROVE  row'[i].count = row[i].count
    <2>0. i \in Intents
      BY <1>1 DEF RuntimeInv, RuntimeTypeOK
    <2>1. CASE KeepsHistory
      BY <2>0, <2>1 DEF KeepsHistory
    <2>2. ASSUME NEW w \in Issuers, NEW j \in Intents, Writes(w, j)
          PROVE  row'[i].count = row[i].count
      <3>1. CASE j # i
        BY <2>0, <2>2, <3>1, WrittenHistory
      <3>2. CASE j = i
        <4>1. ~BeginSubmission(w)
          BY <2>0, <2>2, <3>2, WorkingFacts
          DEF Writes, Working, JobInv, BeginSubmission, At, Submitting
        <4> QED
          BY <2>0, <2>2, <3>2, <4>1, WrittenHistory
      <3> QED
        BY <3>1, <3>2
    <2> QED
      BY <1>1, <2>1, <2>2, HistoryFrame
  <1>2. LedgerInv /\ RuntimeInv /\ [Next]_vars => [Kept]_vars
    BY <1>1
  <1> QED
    BY <1>2, RuntimeInvariant, PTL DEF Spec, BlockIsDurable

\* One order settles one intent, whoever the verifier reports it to: the unique index
\* is checked in the transaction that writes the identity.
THEOREM EffectsSettleOnce == Spec => []EffectsUnique
  <1>1. Init => EffectsUnique
    BY DEF Init, RuntimeInit, NewRow, EffectsUnique
  <1>2. ASSUME LedgerInv, RuntimeInv, EffectsUnique, [Next]_vars
        PROVE  EffectsUnique'
    <2>0. \A i \in Intents : row[i].effect \notin taken
      BY <1>2 DEF EffectsUnique
    <2>1. CASE KeepsHistory
      <3>1. \A i \in Intents : row'[i].effect \notin taken'
        <4>1. taken' = taken \/ \E effect \in Rivals : SettledElsewhere(effect)
          BY <1>2, ClaimFrame
        <4> QED
          BY <2>0, <2>1, <4>1 DEF KeepsHistory, SettledElsewhere
      <3> QED
        BY <1>2, <2>1, <3>1 DEF EffectsUnique, KeepsHistory
    <2>2. ASSUME NEW w \in Issuers, NEW i \in Intents, Writes(w, i)
          PROVE  EffectsUnique'
      <3>1. /\ \A j \in Intents \ {i} : row'[j] = row[j]
            /\ taken' = taken
            /\ row'[i].effect = row[i].effect \/ ~Claimed(i, row'[i].effect)
        BY <2>2, WrittenHistory
      <3>2. CASE row'[i].effect = row[i].effect
        BY <1>2, <3>1, <3>2 DEF EffectsUnique
      <3>3. CASE ~Claimed(i, row'[i].effect)
        BY <1>2, <3>1, <3>3 DEF EffectsUnique, Claimed
      <3> QED
        BY <3>1, <3>2, <3>3
    <2> QED
      BY <1>2, <2>1, <2>2, HistoryFrame
  <1> QED
    BY <1>1, <1>2, RuntimeInvariant, PTL DEF Spec

\* Settled history, for an intent of a monetary primitive: the recorded identity is
\* never replaced and the recorded fill never shrinks.
THEOREM HistoryKept ==
  ASSUME Primitive # "CONTROL"
  PROVE  Spec => SettledHistoryKept
  <1> DEFINE Kept == \A i \in Intents :
                       /\ row[i].effect # "none" => row'[i].effect = row[i].effect
                       /\ row'[i].fill >= row[i].fill
  <1>1. ASSUME LedgerInv, RuntimeInv, [Next]_vars, NEW i \in Intents
        PROVE  /\ row[i].effect # "none" => row'[i].effect = row[i].effect
               /\ row'[i].fill >= row[i].fill
    <2>0. row[i].fill \in Int
      BY <1>1, RuntimeConstants DEF RuntimeInv, RuntimeTypeOK, Row, Amounts, None
    <2>1. CASE KeepsHistory
      BY <2>0, <2>1 DEF KeepsHistory
    <2>2. ASSUME NEW w \in Issuers, NEW j \in Intents, Writes(w, j)
          PROVE  /\ row[i].effect # "none" => row'[i].effect = row[i].effect
                 /\ row'[i].fill >= row[i].fill
      BY <2>0, <2>2, WrittenHistory
    <2> QED
      BY <1>1, <2>1, <2>2, HistoryFrame
  <1>2. LedgerInv /\ RuntimeInv /\ [Next]_vars => [Kept]_vars
    BY <1>1
  <1> QED
    BY <1>2, RuntimeInvariant, PTL DEF Spec, SettledHistoryKept

-----------------------------------------------------------------------------
(* When every runtime has the venue's adapter *)

\* Budget follows settlement: a recorded fill, or a stop over a dispute, keeps the
\* reservation held or committed, whatever the verifier says later.
THEOREM FillsKeepBudget ==
  ASSUME Configured = Issuers
  PROVE  Spec => []RecordedFillKeepsBudget
  <1>1. RuntimeInv => RecordedFillKeepsBudget
    BY DEF RuntimeInv, IntentInv, RecordedFillKeepsBudget
  <1> QED
    BY <1>1, RuntimeInvariant, PTL

\* No budget is stranded: an intent that ended without an attempt and without a
\* dispute holds no reservation.
THEOREM NothingStranded ==
  ASSUME Configured = Issuers
  PROVE  Spec => []NoStrandedHold
  <1>1. RuntimeInv => NoStrandedHold
    BY DEF RuntimeInv, IntentInv, NoStrandedHold
  <1> QED
    BY <1>1, RuntimeInvariant, PTL

-----------------------------------------------------------------------------
(* When the verifier is truthful *)

\* An order at the venue is a use of budget that was taken and not given back.
LEMMA OrderBacked ==
  ASSUME Truthful, LedgerInv, RuntimeInv, NEW i \in Intents, ConsumedRows(i) # {},
         order[i].status \in {"none", "open"} \/ order[i].fill > 0
  PROVE  /\ usage[i] \in {"HELD", "COMMITTED"}
         /\ order[i].status \in {"none", "open"} => usage[i] = "HELD"
  <1>1. /\ IntentInv(i) /\ BookInv(i) /\ VoidOrConsumedNotBoth
        /\ usage[i] \in {"NONE", "HELD", "COMMITTED", "RELEASED"} /\ row[i].count \in Nat
        /\ order[i].fill \in Nat
    BY RuntimeConstants DEF RuntimeInv, RuntimeTypeOK, LedgerInv, Row, Order
  <1>2. ~AllVoided(i) /\ ~NoPermits(i)
    BY <1>1, AdmittedDisarmed DEF IntentInv
  <1>3. usage[i] # "NONE"
    BY <1>1, <1>2 DEF IntentInv
  <1> QED
    BY <1>1, <1>2, <1>3 DEF BookInv

\* With a truthful verifier a fill is always backed by budget, held or committed.
THEOREM FillsBacked ==
  ASSUME Truthful
  PROVE  Spec => []EffectsAreBacked
  <1>1. ASSUME LedgerInv, RuntimeInv
        PROVE  EffectsAreBacked
    <2> SUFFICES ASSUME NEW i \in Intents, order[i].fill > 0
                 PROVE  usage[i] \in {"HELD", "COMMITTED"}
      BY DEF EffectsAreBacked
    <2>1. ConsumedRows(i) # {}
      BY <1>1 DEF RuntimeInv, BookInv
    <2> QED
      BY <1>1, <2>1, OrderBacked
  <1> QED
    BY <1>1, RuntimeInvariant, PTL

\* With a truthful verifier an intent that ended leaves no live permit behind: nothing
\* still travelling can be admitted for it.
THEOREM EndsDisarmed ==
  ASSUME Truthful
  PROVE  Spec => []TerminalDisarmed
  <1>1. ASSUME LedgerInv, RuntimeInv
        PROVE  TerminalDisarmed
    <2>1. \A r \in DOMAIN permits : permits[r].intent \in Intents
      BY <1>1, BindingTypes DEF LedgerInv
    <2> QED
      BY <1>1, <2>1 DEF RuntimeInv, BookInv, Disarmed, TerminalDisarmed
  <1> QED
    BY <1>1, RuntimeInvariant, PTL

\* The reservation of an intent after a call took it.
Taken(i) == [usage EXCEPT ![i] = IF @ = "NONE" THEN "HELD" ELSE @]

\* A step leaves budgets, admissions and the book alone, writes the budget of one
\* intent and nothing else of the three, or is a step of the venue.
LEMMA BudgetFrame ==
  ASSUME LedgerInv, RuntimeInv, [Next]_vars
  PROVE  \/ /\ usage' = usage /\ order' = order
            /\ \A i \in Intents : ConsumedRows(i)' = ConsumedRows(i)
         \/ /\ order' = order /\ permits' = permits
            /\ \E i \in Intents : usage' \in {Taken(i), Released(i), Committed(i)}
         \/ \E r \in DOMAIN permits : VenueConsume(r)
         \/ \E i \in Intents : VenueExecute(i) \/ VenueFill(i) \/ VenueCancel(i)
  <1> DEFINE Same == /\ usage' = usage /\ order' = order
                     /\ \A i \in Intents : ConsumedRows(i)' = ConsumedRows(i)
             Budget == /\ order' = order /\ permits' = permits
                       /\ \E i \in Intents : usage' \in {Taken(i), Released(i), Committed(i)}
  <1>0. RuntimeTypeOK /\ LedgerTypeOK /\ wire \subseteq DOMAIN permits
    BY DEF RuntimeInv, LedgerInv, RuntimeTypeOK
  <1>1. ASSUME usage' = usage, order' = order, permits' = permits
        PROVE  Same
    BY <1>1 DEF ConsumedRows
  <1>2. ASSUME NEW i \in Intents, VoidUnconsumedPermits(i), usage' = usage, order' = order
        PROVE  Same
    <2>1. /\ DOMAIN permits' = DOMAIN permits
          /\ \A q \in DOMAIN permits :
               permits'[q] = IF permits[q].intent = i /\ ~permits[q].consumed
                               THEN [permits[q] EXCEPT !.voided = TRUE] ELSE permits[q]
      BY <1>0, <1>2, VoidedTable DEF LedgerTypeOK
    <2>2. \A q \in DOMAIN permits : permits[q] \in Permit
      BY <1>0 DEF LedgerTypeOK
    <2>3. \A q \in DOMAIN permits :
            permits'[q].intent = permits[q].intent /\ permits'[q].consumed = permits[q].consumed
      BY <2>1, <2>2 DEF Permit
    <2> QED
      BY <1>2, <2>1, <2>3 DEF ConsumedRows
  <1>3. ASSUME NEW w \in Issuers, RecordPermit(w), usage' = usage, order' = order
        PROVE  Same
    <2>1. ticket[w] \in Ticket
      BY <1>0, <1>3 DEF RecordPermit, LedgerTypeOK, NoTicket
    <2>2. NewPermit(ticket[w]) \in Permit /\ NewPermit(ticket[w]).consumed = FALSE
      BY <2>1 DEF NewPermit, Permit, Ticket
    <2>3. /\ DOMAIN permits' = DOMAIN permits \cup {Len(permits) + 1}
          /\ \A q \in DOMAIN permits : permits'[q] = permits[q]
          /\ permits'[Len(permits) + 1].consumed = FALSE
      BY <1>0, <1>3, <2>2, AppendedTable DEF RecordPermit, LedgerTypeOK
    <2> QED
      BY <1>3, <2>3 DEF ConsumedRows
  <1> HIDE DEF Same
  <1>4. ASSUME NEW w \in Issuers, job[w] # NoJob,
               \/ PresentWrongGrant(w) \/ ProcessStep(w) \/ SubmitStep(w)
               \/ ReconcileStep(w) \/ FaultStep(w)
        PROVE  Same \/ Budget
    <2>0. PICK i \in Intents : i = job[w].intent
      BY <1>0, <1>4, JobTyped
    <2>1. TheIntent(w) = i
      BY <2>0 DEF TheIntent
    <2>2. CASE SettleCancelled(w) \/ SettleNone(w) \/ StopVoid(w)
      BY <1>2, <2>1, <2>2 DEF SettleCancelled, SettleNone, StopVoid, RowKept, NoRuntimeStep
    <2>3. CASE IssueRecord(w)
      <3>1. usage' = usage /\ order' = order /\ (RecordPermit(w) \/ AbandonIssue(w))
        BY <2>3 DEF IssueRecord, NoRuntimeStep
      <3> QED
        BY <1>1, <1>3, <3>1 DEF AbandonIssue
    <2>4. CASE PresentWrongGrant(w) \/ ProcessStep(w) \/ FaultStep(w)
      <3>1. /\ order' = order /\ permits' = permits
            /\ usage' = usage \/ usage' = Taken(i) \/ usage' = Released(i)
        BY <2>1, <2>4 DEF PresentWrongGrant, ProcessStep, FaultStep, AcquireLease, IntentBusy,
           ReleaseLease, ProcessFinished, ProcessInactive, ProcessActive, GateRefuses,
           RecoveryRefused, ReserveUsage, ReservationDenied, Authorize, Reserve, Crash, Abort,
           ReleaseFails, CloseReleased, RowKept, Quiet, NoRuntimeStep, ledgerVars, AbandonIssue,
           Taken
      <3> QED
        BY <1>1, <3>1
    <2>5. CASE SubmitStep(w) /\ ~IssueRecord(w)
      <3>1. /\ order' = order /\ permits' = permits
            /\ usage' = usage \/ usage' = Released(i)
        BY <2>1, <2>5 DEF SubmitStep, Submit, SubmitRefused, BeginSubmission, IssueFence,
           IssueRecheck, IssueRefused, Send, AdapterReturns, AdapterRejects, CloseReleased,
           RowKept, Quiet, NoRuntimeStep, ledgerVars, AbandonIssue, AllocateFence, Recheck
      <3> QED
        BY <1>1, <3>1
    <2>6. CASE ReconcileStep(w) /\ ~SettleCancelled(w) /\ ~SettleNone(w) /\ ~StopVoid(w)
      <3>1. /\ order' = order /\ permits' = permits
            /\ usage' = usage \/ usage' = Released(i) \/ usage' = Committed(i)
        BY <2>1, <2>6 DEF ReconcileStep, Reconcile, ReconcileNotApplicable, ReconcileUnconfigured,
           Verify, SettleDisputed, SettleUnknown, SettleEffect, CloseCancelled, SettleNoneEarly,
           BackToUnknown, NoneAfterConsumption, ResubmissionBlocked, Resubmit, StopTransition,
           CloseReleased, RowKept, Quiet, NoRuntimeStep, ledgerVars
      <3> QED
        BY <1>1, <3>1
    <2> QED
      BY <1>4, <2>2, <2>3, <2>4, <2>5, <2>6
  <1>5. ASSUME NEW i \in Intents, ReplayTerminal(i)
        PROVE  Same \/ Budget
    <2>1. /\ order' = order /\ permits' = permits
          /\ usage' = usage \/ usage' = Released(i) \/ usage' = Committed(i)
      BY <1>5 DEF ReplayTerminal, Quiet, NoRuntimeStep, ledgerVars
    <2> QED
      BY <1>1, <2>1
  <1>6. ASSUME \/ \E w \in Issuers, i \in Intents : Register(w, i)
               \/ \E w \in Issuers, i \in Intents, fresh \in BOOLEAN : StartReconcile(w, i, fresh)
               \/ \E i \in Intents : ClearStaleLease(i)
               \/ \E effect \in Rivals : SettledElsewhere(effect)
               \/ \E r \in wire : VenueVerify(r)
               \/ EnvironmentStep \/ UNCHANGED vars
        PROVE  Same
    <2>1. usage' = usage /\ order' = order /\ permits' = permits
      BY <1>6 DEF Register, StartReconcile, ClearStaleLease, SettledElsewhere, VenueVerify,
         VerifyPermit, Idle, EnvironmentStep, OperatorStep, SetGrantStatus, Halt, Resume, Tick,
         RowKept, Quiet, NoRuntimeStep, vars, runtimeVars, ledgerVars
    <2> QED
      BY <1>1, <2>1
  <1>7. Same \/ Budget \/ (\E r \in DOMAIN permits : VenueConsume(r))
        \/ \E i \in Intents : VenueExecute(i) \/ VenueFill(i) \/ VenueCancel(i)
    BY <1>0, <1>4, <1>5, <1>6 DEF Next, CallStep, VenueStep
  <1> QED
    BY <1>7 DEF Same

-----------------------------------------------------------------------------
(* The refinement of EffectOnce *)

\* The abstract state, as the INSTANCE defines it.
Admissions == [i \in Intents |-> Cardinality(ConsumedRows(i))]
Filled == [i \in Intents |-> order[i].fill]
Closed == [i \in Intents |-> order[i].status \in {"filled", "cancelled"}]

\* A budget statement is the abstract reservation, commit or release of its intent:
\* what the abstract step requires of the venue is what BookInv says of the state the
\* statement leaves.
LEMMA BudgetStepRefines ==
  ASSUME Truthful, LedgerInv, RuntimeInv, RuntimeInv', order' = order, permits' = permits,
         NEW i \in Intents, usage' \in {Taken(i), Released(i), Committed(i)}
  PROVE  [Once!EffectNext]_(Once!effectVars)
  <1>1. /\ usage \in [Intents -> {"NONE", "HELD", "COMMITTED", "RELEASED"}]
        /\ VoidOrConsumedNotBoth /\ OneAlive(i) /\ BookInv(i)' /\ BookInv(i)
        /\ order[i] \in Order /\ order[i].fill \in Nat
    BY RuntimeConstants DEF RuntimeInv, RuntimeTypeOK, LedgerInv, IntentInv, Order
  <1>2. Admissions' = Admissions /\ Filled' = Filled /\ Closed' = Closed
    BY DEF Admissions, Filled, Closed, ConsumedRows
  <1>3. CASE usage' = usage
    BY <1>2, <1>3 DEF Once!effectVars, Admissions, Filled, Closed
  <1>4. CASE usage' # usage /\ usage' = Taken(i)
    <2>1. usage[i] = "NONE" /\ usage' = [usage EXCEPT ![i] = "HELD"]
      BY <1>1, <1>4 DEF Taken
    <2>2. Once!Reserve(i)
      BY <1>2, <2>1 DEF Once!Reserve, Admissions, Filled, Closed
    <2> QED
      BY <2>2 DEF Once!EffectNext
  <1>5. CASE usage' # usage /\ usage' = Released(i)
    <2>1. usage[i] = "HELD" /\ usage' = [usage EXCEPT ![i] = "RELEASED"] /\ usage'[i] = "RELEASED"
      BY <1>1, <1>5 DEF Released
    <2>2. AllVoided(i)' \/ (order[i].status = "cancelled" /\ order[i].fill = 0)
      BY <1>1, <2>1 DEF BookInv
    <2>3. AllVoided(i)' => AllVoided(i)
      BY DEF AllVoided
    <2>4. AllVoided(i) => ConsumedRows(i) = {} /\ order[i].fill = 0
      BY <1>1, AdmittedDisarmed DEF BookInv
    <2>5. Filled[i] = 0 /\ (Admissions[i] = 0 \/ Closed[i])
      BY <2>2, <2>3, <2>4, FS_EmptySet DEF Filled, Admissions, Closed
    <2>6. Once!Release(i)
      BY <1>2, <2>1, <2>5 DEF Once!Release, Admissions, Filled, Closed
    <2> QED
      BY <2>6 DEF Once!EffectNext
  <1>6. CASE usage' # usage /\ usage' = Committed(i)
    <2>1. /\ usage[i] = "HELD" /\ usage' = [usage EXCEPT ![i] = "COMMITTED"]
          /\ usage'[i] = "COMMITTED"
      BY <1>1, <1>6 DEF Committed
    <2>2. Closed[i] /\ Filled[i] > 0
      BY <1>1, <2>1 DEF BookInv, Closed, Filled
    <2>3. Once!Commit(i)
      BY <1>2, <2>1, <2>2 DEF Once!Commit, Admissions, Filled, Closed
    <2> QED
      BY <2>3 DEF Once!EffectNext
  <1> QED
    BY <1>3, <1>4, <1>5, <1>6

\* An admission is the abstract one: it is the intent's first, and its budget is held.
LEMMA AdmissionRefines ==
  ASSUME Truthful, LedgerInv, RuntimeInv, LedgerInv', RuntimeInv', NEW r \in DOMAIN permits,
         VenueConsume(r)
  PROVE  Once!EffectNext
  <1>1. /\ LedgerTypeOK /\ ConsumePermit(r) /\ order' = order /\ usage' = usage
        /\ ~permits[r].consumed /\ ~permits[r].voided
    BY DEF LedgerInv, VenueConsume, Idle, RowKept, ConsumePermit, Consumable
  <1>2. \A q \in DOMAIN permits : permits[q] \in Permit
    BY <1>1 DEF LedgerTypeOK
  <1>3. PICK i \in Intents : i = permits[r].intent
    BY <1>2 DEF Permit
  <1>4. /\ IntentInv(i) /\ BookInv(i) /\ VoidOrConsumedNotBoth /\ row[i].count \in Nat
        /\ usage[i] \in {"NONE", "HELD", "COMMITTED", "RELEASED"}
    BY DEF RuntimeInv, RuntimeTypeOK, LedgerInv, Row
  <1>5. ConsumedRows(i) = {} /\ ~AllVoided(i) /\ ~NoPermits(i)
    <2>1. ~Disarmed(i) /\ ~AllVoided(i) /\ ~NoPermits(i)
      BY <1>1, <1>3 DEF Disarmed, AllVoided, NoPermits
    <2> QED
      BY <1>4, <2>1, AdmittedDisarmed DEF IntentInv
  <1>6. usage[i] = "HELD"
    BY <1>4, <1>5 DEF IntentInv, BookInv
  <1>7. /\ DOMAIN permits' = DOMAIN permits
        /\ \A q \in DOMAIN permits :
             permits'[q] = IF q = r THEN [permits[r] EXCEPT !.consumed = TRUE] ELSE permits[q]
    BY <1>1, ConsumedTable DEF LedgerTypeOK, ConsumePermit
  <1>8. ConsumedRows(i)' = {r} /\ \A j \in Intents \ {i} : ConsumedRows(j)' = ConsumedRows(j)
    <2>1. \A q \in DOMAIN permits :
            /\ permits'[q].intent = permits[q].intent
            /\ permits'[q].consumed = (q = r \/ permits[q].consumed)
      BY <1>2, <1>7, ZenonT(40) DEF Permit
    <2> QED
      BY <1>3, <1>5, <1>7, <2>1 DEF ConsumedRows
  <1>9. Admissions[i] = 0 /\ Admissions' = [Admissions EXCEPT ![i] = 1]
    <2>1. Cardinality(ConsumedRows(i)') = 1 /\ Cardinality(ConsumedRows(i)) = 0
      BY <1>5, <1>8, FS_Singleton, FS_EmptySet
    <2> QED
      BY <1>8, <2>1 DEF Admissions
  <1>10. Filled' = Filled /\ Closed' = Closed
    BY <1>1 DEF Filled, Closed
  <1>11. Once!Admit(i)
    BY <1>1, <1>6, <1>9, <1>10 DEF Once!Admit, Admissions, Filled, Closed
  <1> QED
    BY <1>11 DEF Once!EffectNext

\* Executing, filling and cancelling an order is the abstract execution.
LEMMA ExecutionRefines ==
  ASSUME Truthful, LedgerInv, RuntimeInv, NEW i \in Intents,
         VenueExecute(i) \/ VenueFill(i) \/ VenueCancel(i)
  PROVE  Once!EffectNext
  <1>1. /\ usage' = usage /\ permits' = permits /\ order \in [Intents -> Order]
        /\ order[i].status \in {"none", "open"} /\ order[i].fill \in 0 .. Size
        /\ BookInv(i) /\ OneAlive(i) /\ VoidOrConsumedNotBoth /\ Size \in Nat
    BY RuntimeConstants DEF RuntimeInv, RuntimeTypeOK, LedgerInv, IntentInv, Order, VenueExecute,
       VenueFill, VenueCancel, Idle, RowKept, ledgerVars
  <1>2. ConsumedRows(i) # {}
    BY <1>1 DEF VenueExecute, VenueFill, VenueCancel, BookInv
  <1>3. usage[i] = "HELD"
    BY <1>1, <1>2, OrderBacked
  <1>4. Admissions[i] = 1 /\ Admissions' = Admissions
    <2>1. PICK r : r \in ConsumedRows(i)
      BY <1>2
    <2>2. ConsumedRows(i) = {r}
      BY <1>1, <2>1 DEF ConsumedRows, OneAlive, VoidOrConsumedNotBoth
    <2>3. Cardinality(ConsumedRows(i)) = 1
      BY <2>2, FS_Singleton
    <2>4. \A j \in Intents : ConsumedRows(j)' = ConsumedRows(j)
      BY <1>1 DEF ConsumedRows
    <2> QED
      BY <2>3, <2>4 DEF Admissions
  <1>5. /\ order' \in [Intents -> Order] /\ \A j \in Intents \ {i} : order'[j] = order[j]
        /\ order'[i].fill \in order[i].fill .. Size
    <2>1. CASE VenueExecute(i)
      <3>1. PICK o \in {[status |-> "filled", fill |-> Size]} \cup
                       {[status |-> "open", fill |-> f] :
                          f \in IF Primitive = "TRADE" THEN 0 .. Size - 1 ELSE {}} :
              order' = [order EXCEPT ![i] = o]
        BY <2>1 DEF VenueExecute
      <3>2. o \in Order /\ order[i].status = "none"
        BY <1>1, <2>1, <3>1 DEF Order, VenueExecute
      <3>3. order[i].fill = 0 /\ o.fill \in 0 .. Size
        BY <1>1, <3>2 DEF BookInv, Order
      <3> QED
        BY <1>1, <3>1, <3>2, <3>3
    <2>2. CASE VenueFill(i)
      <3> DEFINE o == [status |-> IF order[i].fill + 1 = Size THEN "filled" ELSE "open",
                       fill |-> order[i].fill + 1]
      <3>1. order' = [order EXCEPT ![i] = o] /\ order[i].status = "open"
        BY <1>1, <2>2 DEF VenueFill
      <3>2. order[i].fill < Size
        BY <1>1, <3>1 DEF Order
      <3>3. o \in Order /\ o.fill \in order[i].fill .. Size
        BY <1>1, <3>2 DEF Order
      <3> HIDE DEF o
      <3> QED
        BY <1>1, <3>1, <3>3
    <2>3. CASE VenueCancel(i)
      <3> DEFINE o == [status |-> "cancelled", fill |-> order[i].fill]
      <3>1. order[i] = [status |-> order[i].status, fill |-> order[i].fill]
        BY <1>1 DEF Order
      <3>2. order' = [order EXCEPT ![i] = [order[i] EXCEPT !.status = "cancelled"]]
        BY <2>3 DEF VenueCancel
      <3>3. [order[i] EXCEPT !.status = "cancelled"] = o
        BY <3>1
      <3>4. o \in Order /\ o.fill = order[i].fill
        BY <1>1 DEF Order
      <3> HIDE DEF o
      <3> QED
        BY <1>1, <3>2, <3>3, <3>4
    <2> QED
      BY <2>1, <2>2, <2>3
  <1>6. /\ ~Closed[i]
        /\ \E total \in Filled[i] .. Size : Filled' = [Filled EXCEPT ![i] = total]
        /\ \E final \in BOOLEAN : Closed' = [Closed EXCEPT ![i] = final]
    <2>1. ~Closed[i]
      BY <1>1 DEF Closed
    <2>2. Filled' = [Filled EXCEPT ![i] = order'[i].fill] /\ order'[i].fill \in Filled[i] .. Size
      BY <1>5 DEF Filled
    <2>3. Closed' = [Closed EXCEPT ![i] = order'[i].status \in {"filled", "cancelled"}]
      BY <1>5 DEF Closed
    <2> DEFINE final == order'[i].status \in {"filled", "cancelled"}
    <2>4. final \in BOOLEAN
      OBVIOUS
    <2>5. Closed' = [Closed EXCEPT ![i] = final]
      BY <2>3
    <2> HIDE DEF final
    <2> QED
      BY <2>1, <2>2, <2>4, <2>5
  <1>7. Once!Execute(i)
    BY <1>1, <1>3, <1>4, <1>6 DEF Once!Execute, Admissions, Filled, Closed
  <1> QED
    BY <1>7 DEF Once!EffectNext

\* With a truthful verifier the runtime, its store and the venue implement EffectOnce:
\* the budget of an intent is taken once, its request is admitted at most once and only
\* while the budget is held, and the budget is committed or released as what the venue
\* filled demands.
THEOREM RefinesEffectOnce ==
  ASSUME Truthful
  PROVE  Spec => ImplementsEffectOnce
  <1>1. Init => Once!EffectInit
    <2> SUFFICES ASSUME Init PROVE Once!EffectInit
      OBVIOUS
    <2>1. /\ usage = [i \in Intents |-> "NONE"]
          /\ \A i \in Intents : order[i] = [status |-> "none", fill |-> 0]
          /\ \A i \in Intents : ConsumedRows(i) = {}
      BY DEF Init, LedgerInit, RuntimeInit, ConsumedRows
    <2>2. \A i \in Intents : Cardinality(ConsumedRows(i)) = 0
      BY <2>1, FS_EmptySet
    <2>3. \A i \in Intents : order[i].fill = 0
      BY <2>1
    <2>4. \A i \in Intents : (order[i].status \in {"filled", "cancelled"}) = FALSE
      BY <2>1
    <2>5. [i \in Intents |-> order[i].status \in {"filled", "cancelled"}]
            = [i \in Intents |-> FALSE]
      BY <2>4, Zenon
    <2>6. /\ [i \in Intents |-> Cardinality(ConsumedRows(i))] = [i \in Intents |-> 0]
          /\ [i \in Intents |-> order[i].fill] = [i \in Intents |-> 0]
      BY <2>2, <2>3, Zenon
    <2> QED
      BY <2>1, <2>5, <2>6 DEF Once!EffectInit
  <1>2. ASSUME LedgerInv, RuntimeInv, [Next]_vars
        PROVE  [Once!EffectNext]_(Once!effectVars)
    <2>1. LedgerInv' /\ RuntimeInv'
      BY <1>2, LedgerKept, RuntimeKept
    <2>2. CASE /\ usage' = usage /\ order' = order
               /\ \A i \in Intents : ConsumedRows(i)' = ConsumedRows(i)
      <3>1. Admissions' = Admissions /\ Filled' = Filled /\ Closed' = Closed
        BY <2>2 DEF Admissions, Filled, Closed
      <3> QED
        BY <2>2, <3>1 DEF Once!effectVars, Admissions, Filled, Closed
    <2>3. CASE /\ order' = order /\ permits' = permits
               /\ \E i \in Intents : usage' \in {Taken(i), Released(i), Committed(i)}
      BY <1>2, <2>1, <2>3, BudgetStepRefines
    <2>4. CASE \E r \in DOMAIN permits : VenueConsume(r)
      BY <1>2, <2>1, <2>4, AdmissionRefines
    <2>5. CASE \E i \in Intents : VenueExecute(i) \/ VenueFill(i) \/ VenueCancel(i)
      BY <1>2, <2>5, ExecutionRefines
    <2> QED
      BY <1>2, <2>2, <2>3, <2>4, <2>5, BudgetFrame
  <1>3. LedgerInv /\ RuntimeInv /\ [Next]_vars => [Once!EffectNext]_(Once!effectVars)
    BY <1>2
  <1> QED
    BY <1>1, <1>3, RuntimeInvariant, PTL DEF Spec, ImplementsEffectOnce, Once!EffectSpec

=============================================================================
