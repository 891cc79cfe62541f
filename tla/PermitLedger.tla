----------------------------- MODULE PermitLedger -----------------------------
(***************************************************************************)
(* The authority side of the FAAR store: the row of every provisioned      *)
(* grant version (status, runtime epoch, fence counter), the emergency     *)
(* controls (kill switch), and the table of execution permits with its two *)
(* writers: the permit authority, which issues a permit in three           *)
(* transactions (allocate a fence, re-read the grant, record the permit),  *)
(* and the venue gateway, which verifies a permit and then consumes it in  *)
(* a second transaction.  Operators pause, revoke, halt and resume between *)
(* any two of these steps.                                                 *)
(*                                                                         *)
(* Every store method is one BEGIN IMMEDIATE .. COMMIT transaction and is  *)
(* one action here.  A sequence index of `permits' is the SQLite rowid.    *)
(***************************************************************************)
EXTENDS Integers, Sequences, FiniteSets

CONSTANTS
  Grants,        \* provisioned grant versions
  Principals,    \* principals that own grants
  Global,        \* the 'global' control scope
  PrincipalOf,   \* [Grants -> Principals]
  Intents,       \* intent ids
  GrantOf,       \* [Intents -> Grants], the grant version an intent is bound to
  Issuers,       \* processes that may be inside ConstrainedPermitAuthority.issue
  Deadline,      \* [Intents -> Nat], min of intent expiry and grant valid_until
  MaxPermitTTL,  \* max_permit_ttl_seconds of the permit authority
  MaxClockSkew,  \* grant.limits.max_clock_skew_seconds, also the gateway's
  VenueSkew,     \* how far the venue's clock may really be from the store's
  MaxEpoch,      \* bound on the epoch, which begins at 1
  MaxFence,      \* bound on authority events of one grant
  MaxClock       \* bound on time

ASSUME LedgerConstants ==
  /\ PrincipalOf \in [Grants -> Principals]
  /\ GrantOf \in [Intents -> Grants]
  /\ Deadline \in [Intents -> Nat]
  /\ MaxPermitTTL \in Nat \ {0}
  /\ MaxClockSkew \in Nat /\ VenueSkew \in Nat
  /\ MaxEpoch \in Nat /\ MaxFence \in Nat /\ MaxClock \in Nat
  /\ Global \notin Principals

VARIABLES
  grant,     \* the grants table: status, epoch and fence of every grant version
  halted,    \* the control scopes whose kill switch is on
  permits,   \* the execution_permits table, in rowid order
  ticket,    \* what an issuer carries between the transactions of issue()
  verified,  \* rows that a gateway call has verified and may still try to consume
  clock,     \* the store's and the runtime's trusted clock
  stops      \* history: how many halts, pauses and revocations hit the grant

ledgerVars == <<grant, halted, permits, ticket, verified, clock, stops>>

Scopes == {Global} \cup Principals
Statuses == {"ACTIVE", "PAUSED", "REVOKED"}

GrantRow == [status : Statuses, epoch : Nat, fence : Nat]

\* `born' is history: the value of stops when the permit's fence was allocated.
Permit == [intent : Intents, epoch : Nat, fence : Nat, issued : Nat, expires : Nat,
           born : Nat, consumed : BOOLEAN, voided : BOOLEAN]

NoTicket == [phase |-> "none"]
Ticket == [phase : {"fenced", "checked"}, intent : Intents, epoch : Nat,
           fence : Nat, now : Nat, expires : Nat, born : Nat]

LedgerTypeOK ==
  /\ grant \in [Grants -> GrantRow]
  /\ halted \subseteq Scopes
  /\ permits \in Seq(Permit)
  /\ ticket \in [Issuers -> Ticket \cup {NoTicket}]
  /\ verified \subseteq DOMAIN permits
  /\ clock \in Nat
  /\ stops \in [Grants -> Nat]

-----------------------------------------------------------------------------
(* Reading the tables *)

Covers(s, g) == s = Global \/ s = PrincipalOf[g]

Halted(g) == \E s \in halted : Covers(s, g)

\* The effective status: a halted scope is as inactive as a paused grant.
EffectivelyActive(g) == grant[g].status = "ACTIVE" /\ ~Halted(g)

GrantAt(r) == GrantOf[permits[r].intent]

\* Permits of the intent that a venue may still accept at `now'.
Live(i, now) ==
  {r \in DOMAIN permits :
     /\ permits[r].intent = i
     /\ ~permits[r].consumed
     /\ ~permits[r].voided
     /\ permits[r].expires + MaxClockSkew > now}

Superseded(r) ==
  \E q \in DOMAIN permits : q > r /\ permits[q].intent = permits[r].intent

ConsumedRows(i) == {r \in DOMAIN permits : permits[r].intent = i /\ permits[r].consumed}

\* Slip: the permit's epoch is not compared.
ConsumableInAnyEpoch(r) ==
  /\ ~permits[r].consumed
  /\ ~permits[r].voided
  /\ ~Superseded(r)
  /\ EffectivelyActive(GrantAt(r))

Consumable(r) ==
  /\ ~permits[r].consumed
  /\ ~permits[r].voided
  /\ ~Superseded(r)
  /\ EffectivelyActive(GrantAt(r))
  /\ permits[r].epoch = grant[GrantAt(r)].epoch

-----------------------------------------------------------------------------
LedgerInit ==
  /\ grant = [g \in Grants |-> [status |-> "ACTIVE", epoch |-> 1, fence |-> 0]]
  /\ halted = {}
  /\ permits = << >>
  /\ ticket = [w \in Issuers |-> NoTicket]
  /\ verified = {}
  /\ clock = 0
  /\ stops = [g \in Grants |-> 0]

(* The permit authority *)

\* issue() starts from the decision time `now' of the caller, read some time
\* ago, and allocates a fence.  The permit lives for at most the TTL, the
\* intent's and the grant's deadline; the attestations may shorten that.
AllocateFence(w, i, now, exp) ==
  LET g == GrantOf[i] IN
  /\ ticket[w] = NoTicket
  /\ EffectivelyActive(g)
  /\ grant[g].fence < MaxFence
  /\ exp \in now .. Deadline[i]
  /\ exp <= now + MaxPermitTTL
  /\ grant' = [grant EXCEPT ![g].fence = @ + 1]
  /\ ticket' = [ticket EXCEPT ![w] =
       [phase |-> "fenced", intent |-> i, epoch |-> grant[g].epoch,
        fence |-> grant[g].fence + 1, now |-> now, expires |-> exp,
        born |-> stops[g]]]
  /\ UNCHANGED <<halted, permits, verified, clock, stops>>

\* The re-read after the allocation, and the refusal of an empty lifetime.
RecheckPasses(w) ==
  LET t == ticket[w] IN
  /\ EffectivelyActive(GrantOf[t.intent])
  /\ grant[GrantOf[t.intent]].epoch = t.epoch
  /\ t.expires > t.now

Recheck(w) ==
  /\ ticket[w].phase = "fenced"
  /\ RecheckPasses(w)
  /\ ticket' = [ticket EXCEPT ![w].phase = "checked"]
  /\ UNCHANGED <<grant, halted, permits, verified, clock, stops>>

NewPermit(t) ==
  [intent |-> t.intent, epoch |-> t.epoch, fence |-> t.fence, issued |-> t.now,
   expires |-> t.expires, born |-> t.born, consumed |-> FALSE, voided |-> FALSE]

RecordPermit(w) ==
  LET t == ticket[w] IN
  /\ ticket[w].phase = "checked"
  /\ Live(t.intent, t.now) = {}
  /\ permits' = Append(permits, NewPermit(t))
  /\ ticket' = [ticket EXCEPT ![w] = NoTicket]
  /\ UNCHANGED <<grant, halted, verified, clock, stops>>

\* issue() raises (failed re-read, PermitConflict, signer or store error) or
\* its process dies: the fence is lost, nothing was recorded.
AbandonIssue(w) ==
  /\ ticket[w] # NoTicket
  /\ ticket' = [ticket EXCEPT ![w] = NoTicket]
  /\ UNCHANGED <<grant, halted, permits, verified, clock, stops>>

(* The venue gateway *)

\* ExecutionPermitVerifier.verify at the venue's own clock `v'.  The result is
\* used by a later transaction, so a verified row stays usable.
VerifyPermit(r, v) ==
  /\ permits[r].issued <= v + MaxClockSkew
  /\ v <= permits[r].expires
  /\ EffectivelyActive(GrantAt(r))
  /\ permits[r].epoch = grant[GrantAt(r)].epoch
  /\ verified' = verified \cup {r}
  /\ UNCHANGED <<grant, halted, permits, ticket, clock, stops>>

\* Slip: consumption is not counted as an authority event.
ConsumeWithoutFence(r) ==
  /\ r \in verified
  /\ Consumable(r)
  /\ permits' = [permits EXCEPT ![r].consumed = TRUE]
  /\ UNCHANGED <<grant, halted, ticket, verified, clock, stops>>

ConsumePermit(r) ==
  /\ r \in verified
  /\ Consumable(r)
  /\ grant[GrantAt(r)].fence < MaxFence
  /\ permits' = [permits EXCEPT ![r].consumed = TRUE]
  /\ grant' = [grant EXCEPT ![GrantAt(r)].fence = @ + 1]
  /\ UNCHANGED <<halted, ticket, verified, clock, stops>>

(* The runtime *)

VoidUnconsumedPermits(i) ==
  /\ permits' = [r \in DOMAIN permits |->
       IF permits[r].intent = i /\ ~permits[r].consumed
         THEN [permits[r] EXCEPT !.voided = TRUE] ELSE permits[r]]
  /\ UNCHANGED <<grant, halted, ticket, verified, clock, stops>>

(* Operators *)

SetGrantStatus(g, s) ==
  /\ grant[g].status # s
  /\ grant[g].status # "REVOKED"
  /\ grant[g].epoch < MaxEpoch
  /\ grant' = [grant EXCEPT ![g].status = s, ![g].epoch = @ + 1]
  /\ stops' = [stops EXCEPT ![g] = IF s = "ACTIVE" THEN @ ELSE @ + 1]
  /\ UNCHANGED <<halted, permits, ticket, verified, clock>>

\* Slip: the kill switch only sets its flag and fences no grant.
HaltWithoutEpoch(s) ==
  /\ halted' = halted \cup {s}
  /\ stops' = [g \in Grants |-> IF Covers(s, g) THEN stops[g] + 1 ELSE stops[g]]
  /\ UNCHANGED <<grant, permits, ticket, verified, clock>>

\* The kill switch fences every grant of the scope in the same transaction.
Halt(s) ==
  /\ \A g \in Grants : Covers(s, g) => grant[g].epoch < MaxEpoch
  /\ halted' = halted \cup {s}
  /\ grant' = [g \in Grants |->
       IF Covers(s, g) THEN [grant[g] EXCEPT !.epoch = @ + 1] ELSE grant[g]]
  /\ stops' = [g \in Grants |-> IF Covers(s, g) THEN stops[g] + 1 ELSE stops[g]]
  /\ UNCHANGED <<permits, ticket, verified, clock>>

Resume(s) ==
  /\ s \in halted
  /\ halted' = halted \ {s}
  /\ UNCHANGED <<grant, permits, ticket, verified, clock, stops>>

Tick ==
  /\ clock < MaxClock
  /\ clock' = clock + 1
  /\ UNCHANGED <<grant, halted, permits, ticket, verified, stops>>

IssuerStep(w) ==
  \/ \E i \in Intents : \E now \in 0 .. clock : \E exp \in now .. Deadline[i] :
       AllocateFence(w, i, now, exp)
  \/ Recheck(w)
  \/ RecordPermit(w)
  \/ AbandonIssue(w)

GatewayStep(r) ==
  \/ \E v \in clock - VenueSkew .. clock + VenueSkew : VerifyPermit(r, v)
  \/ ConsumePermit(r)

OperatorStep ==
  \/ \E g \in Grants, s \in Statuses : SetGrantStatus(g, s)
  \/ \E s \in Scopes : Halt(s) \/ Resume(s)

LedgerNext ==
  \/ \E w \in Issuers : IssuerStep(w)
  \/ \E r \in DOMAIN permits : GatewayStep(r)
  \/ \E i \in Intents : VoidUnconsumedPermits(i)
  \/ OperatorStep
  \/ Tick

LedgerSpec == LedgerInit /\ [][LedgerNext]_ledgerVars

-----------------------------------------------------------------------------
(* Properties *)

\* A permit dies with the first pause, revocation or halt that hits its grant
\* after its fence was allocated, and no resume or re-activation brings it
\* back: consumption happens only while no stop has come in between.  The code
\* compares epochs (consume_execution_permit); this counts the stops
\* themselves.
ConsumedPermit(r) == ~permits[r].consumed /\ permits'[r].consumed

NoConsumptionAcrossAStop ==
  [][\A r \in DOMAIN permits :
       ConsumedPermit(r) => permits[r].born = stops[GrantAt(r)]]_ledgerVars

\* Fence tokens order authority: no two permits of one grant version carry the
\* same fence (the permit id, a primary key, is derived from it), although the
\* allocation and the insertion are separate transactions of concurrent
\* issuers.
FencesUnique ==
  \A r, q \in DOMAIN permits :
    (r # q /\ GrantAt(r) = GrantAt(q)) => permits[r].fence # permits[q].fence

\* The claim of void_unconsumed_permits: either the venue consumed first or
\* the void wins, never both, whatever order the two transactions came in.
VoidOrConsumedNotBoth ==
  \A r \in DOMAIN permits : ~(permits[r].consumed /\ permits[r].voided)

\* One live permit per intent (I-30): when a retry permit exists, the validity
\* of every earlier permit that was neither consumed nor voided ended, clock
\* skew included, before the retry's decision time.
WindowsDisjoint ==
  \A r, q \in DOMAIN permits :
    ( /\ r < q
      /\ permits[r].intent = permits[q].intent
      /\ ~permits[r].consumed
      /\ ~permits[r].voided ) => permits[r].expires + MaxClockSkew <= permits[q].issued

\* What makes NoConsumptionAcrossAStop hold: an epoch dates the stops.  A permit,
\* or an issue in progress, whose epoch is still the grant's has seen no stop
\* since its fence was allocated.
Dated(p) ==
  LET g == GrantOf[p.intent] IN
  /\ p.epoch <= grant[g].epoch
  /\ p.epoch = grant[g].epoch => p.born = stops[g]

EpochsDateStops ==
  /\ \A r \in DOMAIN permits : Dated(permits[r])
  /\ \A w \in Issuers : ticket[w] # NoTicket => Dated(ticket[w])

\* What makes FencesUnique hold: a fence in use, recorded or carried by an
\* issuer, is at most the counter and in use only once.
SameGrant(p, q) == GrantOf[p.intent] = GrantOf[q.intent]

FencesAllocated ==
  /\ \A r \in DOMAIN permits : permits[r].fence <= grant[GrantAt(r)].fence
  /\ \A w \in Issuers : ticket[w] # NoTicket =>
       /\ ticket[w].fence <= grant[GrantOf[ticket[w].intent]].fence
       /\ \A r \in DOMAIN permits :
            SameGrant(ticket[w], permits[r]) => ticket[w].fence # permits[r].fence
       /\ \A x \in Issuers \ {w} :
            (ticket[x] # NoTicket /\ SameGrant(ticket[w], ticket[x]))
              => ticket[w].fence # ticket[x].fence

\* The inductive invariant behind the proofs.
LedgerInv ==
  /\ LedgerTypeOK
  /\ EpochsDateStops
  /\ FencesAllocated
  /\ FencesUnique
  /\ VoidOrConsumedNotBoth
  /\ WindowsDisjoint

\* The fence counter counts authority events: it is at least the number of
\* permits recorded, consumptions, and issues in progress under the grant, so
\* a restored row that lost any of them is behind its anchor.
FenceCountsEvents ==
  \A g \in Grants :
    LET rows == {r \in DOMAIN permits : GrantAt(r) = g} IN
    Cardinality(rows) + Cardinality({r \in rows : permits[r].consumed})
      + Cardinality({w \in Issuers : ticket[w] # NoTicket /\ GrantOf[ticket[w].intent] = g})
      <= grant[g].fence
=============================================================================
