---------------------------- MODULE EvidenceChain ----------------------------
(***************************************************************************)
(* The evidence of an intent: a chain of hash-linked events, each with a   *)
(* MAC, and a signed head that commits to the length and the tail.  The    *)
(* runtime checks that the chain can be extended, then alternates between  *)
(* moving the intent's state and recording the move, in transactions of    *)
(* their own.  A database may be older than heads: its chains have none    *)
(* and an operator adopts them.                                            *)
(*                                                                         *)
(* Whoever has the database and not the key may lose or alter any event,   *)
(* lose a head or write one without a signature, and, because no MAC       *)
(* covers which row is the latest, what its id is or when heads began:     *)
(* put back any head the store ever signed, put an event that was written  *)
(* back in under any id the table has given out and no row has, and        *)
(* rewrite or lose heads_since.                                            *)
(*                                                                         *)
(* A hash is the sequence of what it covers (no collisions), a MAC the     *)
(* hash it was computed over (nobody without the key makes one).           *)
(***************************************************************************)
EXTENDS Integers, FiniteSetsExt, SequencesExt

CONSTANTS
  Intents,    \* intent ids
  Keys,       \* evidence_key of the instances in use: TRUE (keyed), FALSE (none)
  MaxId,      \* bound on events ever written
  MaxDamage   \* bound on losses and alterations

ASSUME EvidenceConstants == Keys \subseteq BOOLEAN /\ MaxId \in Nat /\ MaxDamage \in Nat

VARIABLES
  known,      \* the rows of the intents table
  chain,      \* the rows of evidence, per intent
  head,       \* evidence_head
  nextId,     \* AUTOINCREMENT
  since,      \* store_settings.heads_since, 0 when unbound
  heads,      \* the build in use writes heads
  call,       \* the process() or reconcile() call on the intent
  written,    \* history: all events ever written
  commits,    \* history: all heads ever signed
  born,       \* history: intents registered with an event and a head
  erased,     \* history: intents that at some time had neither events nor a head
  harmed,     \* history: intents with damaged rows or events of an unkeyed instance
  unrecorded, \* history: intents moved by a call that could not record the move
  uncovered,  \* history: intents with damage to what no MAC covers
  damage      \* how much damage there was

history == <<born, erased, harmed, unrecorded, uncovered, damage>>
rows == <<known, chain, head, nextId, written, commits>>
settings == <<since, heads>>
vars == <<rows, settings, call, history>>

Types == {"intent_registered", "event", "altered"}
Hash == Seq(Types)                     \* <<>> is NULL
NoHash == <<>>

Event == [id : Nat, type : Types, prev : Hash, hash : Hash, mac : Hash]
NoHead == [seq |-> -1]
HeadRow == [seq : Nat, hash : Hash, signed : BOOLEAN]
NoCall == [phase |-> "none"]
Call == [phase : {"open", "moved"}, keyed : BOOLEAN]

TypeOK ==
  /\ known \subseteq Intents
  /\ chain \in [Intents -> Seq(Event)] /\ written \in [Intents -> Seq(Event)]
  /\ head \in [Intents -> HeadRow \cup {NoHead}]
  /\ commits \in [Intents -> SUBSET HeadRow]
  /\ nextId \in Nat /\ since \in Nat /\ heads \in BOOLEAN
  /\ call \in [Intents -> Call \cup {NoCall}]
  /\ damage \in Nat
  /\ born \subseteq known /\ erased \subseteq known
  /\ harmed \subseteq known /\ unrecorded \subseteq known /\ uncovered \subseteq Intents

Init ==
  /\ known = {} /\ chain = [i \in Intents |-> <<>>] /\ written = [i \in Intents |-> <<>>]
  /\ head = [i \in Intents |-> NoHead] /\ commits = [i \in Intents |-> {}]
  /\ nextId = 1 /\ since = 0 /\ heads = FALSE
  /\ call = [i \in Intents |-> NoCall]
  /\ born = {} /\ erased = {} /\ harmed = {} /\ unrecorded = {} /\ uncovered = {}
  /\ damage = 0

-----------------------------------------------------------------------------
(* Reading a chain *)

LastHash(i) == IF chain[i] = <<>> THEN NoHash ELSE chain[i][Len(chain[i])].hash

\* The head row is the signed commitment to the chain's length and tail.
HeadMatches(i) ==
  /\ head[i] # NoHead /\ head[i].signed
  /\ head[i].seq = Len(chain[i]) - 1 /\ head[i].hash = LastHash(i)

\* Slip: a chain without a head counts as one that never had any.
AppendableHeadless(i, keyed) == keyed => head[i] = NoHead \/ HeadMatches(i)

\* An unkeyed instance extends anything; a keyed one a chain that matches its head,
\* or one that has neither events nor a head.
Appendable(i, keyed) ==
  keyed => IF chain[i] = <<>> THEN head[i] = NoHead ELSE HeadMatches(i)

ChainVerifies(i, keyed) ==
  \A n \in DOMAIN chain[i] :
    LET e == chain[i][n] IN
    /\ e.prev = IF n = 1 THEN NoHash ELSE chain[i][n - 1].hash
    /\ e.hash = Append(e.prev, e.type)
    /\ keyed => e.mac = e.hash

BornWithHead(i) == chain[i] # <<>> /\ chain[i][1].id >= since

\* evidence_status, as a keyed instance answers it.
Status(i) ==
  CASE i \notin known -> "unknown_intent"
    [] i \in known /\ ~ChainVerifies(i, TRUE) -> "chain_invalid"
    [] i \in known /\ ChainVerifies(i, TRUE) /\ head[i] = NoHead ->
         IF chain[i] = <<>> THEN "chain_empty"
         ELSE IF BornWithHead(i) THEN "head_deleted" ELSE "head_missing"
    [] i \in known /\ ChainVerifies(i, TRUE) /\ head[i] # NoHead ->
         IF chain[i] # <<>> /\ HeadMatches(i) THEN "ok" ELSE "head_mismatch"

-----------------------------------------------------------------------------
(* Writing a chain *)

NewEvent(i, type, keyed) ==
  LET hash == Append(LastHash(i), type) IN
  [id |-> nextId, type |-> type, prev |-> LastHash(i), hash |-> hash,
   mac |-> IF keyed THEN hash ELSE NoHash]

Harmed(i, keyed) == harmed' = IF keyed THEN harmed ELSE harmed \cup {i}

\* Slip: the head commits to the number of events, not to the last one's place.
HeadOneTooFar(i, e, keyed) == [seq |-> Len(chain[i]) + 1, hash |-> e.hash, signed |-> keyed]

NewHead(i, e, keyed) == [seq |-> Len(chain[i]), hash |-> e.hash, signed |-> keyed]

\* What is signed can be put back later.
Committed(i, h) == commits' = IF h.signed THEN [commits EXCEPT ![i] = @ \cup {h}] ELSE commits

\* _append_evidence_in_txn: the event and the head that commits to it.
AppendInTxn(i, type, keyed) ==
  LET e == NewEvent(i, type, keyed)
      h == NewHead(i, e, keyed)
  IN
  /\ Appendable(i, keyed)
  /\ nextId <= MaxId
  /\ chain' = [chain EXCEPT ![i] = Append(@, e)]
  /\ written' = [written EXCEPT ![i] = Append(@, e)]
  /\ head' = [head EXCEPT ![i] = h] /\ Committed(i, h)
  /\ nextId' = nextId + 1
  /\ Harmed(i, keyed)

\* register: the intent row and the first event, in one transaction.
Register(i, keyed) ==
  /\ heads /\ i \notin known
  /\ known' = known \cup {i}
  /\ AppendInTxn(i, "intent_registered", keyed)
  /\ born' = born \cup {i}
  /\ UNCHANGED <<settings, call, erased, unrecorded, uncovered, damage>>

-----------------------------------------------------------------------------
(* A call of the runtime *)

\* Slip: assert_evidence_appendable is forgotten.
BeginCallUnchecked(i, keyed) ==
  /\ heads /\ i \in known /\ call[i] = NoCall
  /\ call' = [call EXCEPT ![i] = [phase |-> "open", keyed |-> keyed]]
  /\ UNCHANGED <<rows, settings, history>>

\* The lease is taken and assert_evidence_appendable did not raise.
BeginCall(i, keyed) ==
  /\ heads /\ i \in known /\ call[i] = NoCall
  /\ Appendable(i, keyed)
  /\ call' = [call EXCEPT ![i] = [phase |-> "open", keyed |-> keyed]]
  /\ UNCHANGED <<rows, settings, history>>

\* The state transition, committed before its event is written.
Transition(i) ==
  /\ call[i].phase = "open"
  /\ nextId <= MaxId
  /\ call' = [call EXCEPT ![i].phase = "moved"]
  /\ UNCHANGED <<rows, settings, history>>

AddEvidence(i) ==
  /\ call[i].phase = "moved"
  /\ AppendInTxn(i, "event", call[i].keyed)
  /\ call' = [call EXCEPT ![i].phase = "open"]
  /\ UNCHANGED <<known, settings, born, erased, unrecorded, uncovered, damage>>

\* EvidenceIntegrityError: the call ends with EVIDENCE_INTEGRITY_FAILURE.
AddEvidenceRefused(i) ==
  /\ call[i].phase = "moved"
  /\ ~Appendable(i, call[i].keyed)
  /\ call' = [call EXCEPT ![i] = NoCall]
  /\ unrecorded' = unrecorded \cup {i}
  /\ UNCHANGED <<rows, settings, born, erased, harmed, uncovered, damage>>

\* The call returns, or its process dies: between two moves, or before the second
\* transaction of one.
EndCall(i) ==
  /\ call[i] # NoCall
  /\ call' = [call EXCEPT ![i] = NoCall]
  /\ UNCHANGED <<rows, settings, history>>

-----------------------------------------------------------------------------
(* Older builds, the upgrade, and the operator's rebuild *)

\* A build without heads registers an intent without an event.
LegacyRegister(i) ==
  /\ ~heads /\ i \notin known
  /\ known' = known \cup {i}
  /\ erased' = erased \cup {i}
  /\ UNCHANGED <<chain, head, nextId, written, commits, settings, call,
                 born, harmed, unrecorded, uncovered, damage>>

\* It writes events with their MACs and no head.
LegacyAppend(i) ==
  LET e == NewEvent(i, "event", TRUE) IN
  /\ ~heads /\ i \in known /\ nextId <= MaxId
  /\ chain' = [chain EXCEPT ![i] = Append(@, e)]
  /\ written' = [written EXCEPT ![i] = Append(@, e)]
  /\ nextId' = nextId + 1
  /\ UNCHANGED <<known, head, commits, settings, call, history>>

\* Every process is replaced by one of a build that writes heads.
Upgrade ==
  /\ ~heads /\ heads' = TRUE
  /\ UNCHANGED <<rows, since, call, history>>

RegisteredFirst ==
  {chain[i][1].id : i \in {j \in Intents : chain[j] # <<>> /\ chain[j][1].type = "intent_registered"}}
AllIds == UNION {{chain[i][n].id : n \in DOMAIN chain[i]} : i \in Intents}

\* Slip: only the events still to come count, not those of an earlier build with heads.
HeadsSinceNow == Max(AllIds \cup {0}) + 1

HeadsSince ==
  IF RegisteredFirst # {} THEN Min(RegisteredFirst) ELSE Max(AllIds \cup {0}) + 1

\* _bind_heads_since, by the first instance of this build that opens the database.
Open ==
  /\ heads /\ since = 0
  /\ since' = HeadsSince
  /\ UNCHANGED <<rows, heads, call, history>>

\* rebuild_evidence_head over a chain that has events.
RebuildEvidenceHead(i) ==
  /\ since # 0 /\ i \in known /\ head[i] = NoHead /\ chain[i] # <<>>
  /\ ~BornWithHead(i)
  /\ ChainVerifies(i, TRUE)
  /\ LET h == [seq |-> Len(chain[i]) - 1, hash |-> LastHash(i), signed |-> TRUE]
     IN  head' = [head EXCEPT ![i] = h] /\ Committed(i, h)
  /\ UNCHANGED <<known, chain, nextId, written, settings, call, history>>

\* rebuild_evidence_head(allow_empty): the adoption is the first event.
AdoptEmpty(i) ==
  /\ since # 0 /\ i \in known /\ head[i] = NoHead /\ chain[i] = <<>>
  /\ AppendInTxn(i, "event", TRUE)
  /\ UNCHANGED <<known, settings, call, born, erased, unrecorded, uncovered, damage>>

-----------------------------------------------------------------------------
(* What may happen to the rows without the key: what the MACs cover *)

Altered(e, rehashed) ==
  [e EXCEPT !.type = "altered", !.hash = IF rehashed THEN Append(e.prev, "altered") ELSE @]

Damaged(i) ==
  /\ damage < MaxDamage /\ damage' = damage + 1
  /\ harmed' = harmed \cup {i}
  /\ erased' = IF chain'[i] = <<>> /\ head'[i] = NoHead THEN erased \cup {i} ELSE erased
  /\ UNCHANGED <<known, nextId, written, commits, settings, call, born, unrecorded>>

\* An event is lost (the last one: the tail is truncated) or altered.
EventDamaged(i) ==
  /\ \E n \in DOMAIN chain[i] :
       \/ chain' = [chain EXCEPT ![i] = RemoveAt(@, n)]
       \/ \E rehashed \in BOOLEAN : chain' = [chain EXCEPT ![i][n] = Altered(@, rehashed)]
  /\ head' = head
  /\ Damaged(i) /\ uncovered' = uncovered

\* The head is lost, or rewritten over the present tail without a signature.
HeadDamaged(i) ==
  /\ head[i] # NoHead
  /\ \/ head' = [head EXCEPT ![i] = NoHead]
     \/ /\ chain[i] # <<>>
        /\ head' = [head EXCEPT ![i] =
             [seq |-> Len(chain[i]) - 1, hash |-> LastHash(i), signed |-> FALSE]]
  /\ chain' = chain
  /\ Damaged(i) /\ uncovered' = uncovered

-----------------------------------------------------------------------------
(* What may happen to the rows without the key: what no MAC covers *)

\* A head that was signed once is put back.
HeadPutBack(i) ==
  /\ \E h \in commits[i] : head' = [head EXCEPT ![i] = h]
  /\ chain' = chain
  /\ Damaged(i) /\ uncovered' = uncovered \cup {i}

\* An event that was written is put in, under a free id and at the place that the id gives
\* it: a row that was lost comes back, is moved (lost before, it has a new id) or doubled.
EventPutBack(i) ==
  /\ \E m \in DOMAIN written[i], n \in 1 .. Len(chain[i]) + 1, k \in 1 .. nextId - 1 :
       /\ k \notin AllIds
       /\ \A p \in DOMAIN chain[i] : IF p < n THEN chain[i][p].id < k ELSE chain[i][p].id > k
       /\ chain' = [chain EXCEPT ![i] = InsertAt(@, n, [written[i][m] EXCEPT !.id = k])]
  /\ head' = head
  /\ Damaged(i) /\ uncovered' = uncovered \cup {i}

\* heads_since is lost, or rewritten to anything up to a mark above all ids: every chain,
\* those to come included, is told from a legacy one by it.
MarkRewritten ==
  /\ since # 0 /\ damage < MaxDamage /\ damage' = damage + 1
  /\ since' \in 0 .. MaxId + 2
  /\ uncovered' = Intents
  /\ UNCHANGED <<rows, heads, call, born, erased, harmed, unrecorded>>

-----------------------------------------------------------------------------
CallStep(i) ==
  \/ \E keyed \in Keys : Register(i, keyed) \/ BeginCall(i, keyed)
  \/ Transition(i) \/ AddEvidence(i) \/ AddEvidenceRefused(i) \/ EndCall(i)

Next ==
  \/ \E i \in Intents :
       \/ CallStep(i)
       \/ LegacyRegister(i) \/ LegacyAppend(i)
       \/ RebuildEvidenceHead(i) \/ AdoptEmpty(i)
       \/ EventDamaged(i) \/ HeadDamaged(i) \/ HeadPutBack(i) \/ EventPutBack(i)
  \/ Upgrade \/ Open \/ MarkRewritten

Spec == Init /\ [][Next]_vars

-----------------------------------------------------------------------------
(* Properties *)

\* What an event says, its row id apart.
Content(e) == [e EXCEPT !.id = 0]

\* I-19, "truncation cannot be laundered by later activity".  Whatever is lost, altered, put
\* back or appended, a chain verifies only as one the store itself wrote: each event says
\* what some event written to this intent said, and a head signed under the key stood at
\* this length and tail.  And a chain that was born with its head verifies only when it is
\* everything that was ever written, in order, except where all its events and its head
\* were gone at once or what no MAC covers was put back or rewritten: a truncated chain
\* under an earlier head that is put back is one the store wrote, and verifies.
LossNeverLaundered ==
  \A i \in known : Status(i) = "ok" =>
    /\ \A n \in DOMAIN chain[i] : \E m \in DOMAIN written[i] :
         Content(chain[i][n]) = Content(written[i][m])
    /\ \E h \in commits[i] : h.seq = Len(chain[i]) - 1 /\ h.hash = LastHash(i)
    /\ i \in born \ (erased \cup uncovered) => chain[i] = written[i]

\* "... instead of a state transition without evidence": the event of a committed
\* transition is refused only where rows were damaged or an instance had no key, so
\* neither a legacy chain nor an upgrade or a rebuild in mid-call leads there.
MovesRecorded == unrecorded \subseteq harmed

\* The tables are well formed, and no false alarm: a chain that nothing happened to, and
\* that has a head, born with it or adopted, verifies and can be extended.
HeadsHold ==
  /\ TypeOK
  /\ \A i \in known \ harmed : head[i] # NoHead => Status(i) = "ok" /\ Appendable(i, TRUE)

\* "head_missing ... not tampering": a chain that lost its head is never taken for one
\* that predates heads, whichever build wrote it and whenever the mark was bound, as long
\* as its row ids and the mark are as they were written.
DeletionIsNotLegacy ==
  \A i \in born \ (erased \cup uncovered) : since # 0 => Status(i) # "head_missing"

-----------------------------------------------------------------------------
(* The inductive invariant *)

\* The event carries the MAC of its content and its predecessor.
Sound(e) == e.hash = Append(e.prev, e.type) /\ e.mac = e.hash

\* No MAC covers an alteration, and an event that was not altered says what was written,
\* under its own id unless it was put back.
EventInv(i, e) ==
  /\ e.id \in 1 .. nextId - 1
  /\ e.hash # NoHash
  /\ e.mac # NoHash => e.mac[Len(e.mac)] # "altered"
  /\ e.type # "altered" => \E m \in DOMAIN written[i] :
       /\ Content(e) = Content(written[i][m])
       /\ i \notin uncovered => e = written[i][m]

\* What was written carries no MAC of an alteration, so it can be put back as it was.
WrittenInv(i) ==
  \A m \in DOMAIN written[i] :
    LET e == written[i][m] IN
    e.hash # NoHash /\ (e.mac # NoHash => e.mac[Len(e.mac)] # "altered")

\* What the damage did not touch is in order, and a keyed call that found it so can record.
UnharmedInv(i) ==
  /\ ChainVerifies(i, TRUE)
  /\ head[i] = NoHead \/ HeadMatches(i)
  /\ call[i] # NoCall /\ call[i].keyed => Appendable(i, TRUE)

\* Of a chain born with its head: only the registration begins a chain under the key,
\* and a signature stands for all that was written, in order.
BornInv(i) ==
  /\ \A n \in DOMAIN chain[i] : Sound(chain[i][n]) /\ chain[i][n].prev = NoHash =>
       n = 1 /\ chain[i][1].type = "intent_registered" /\ chain[i][1].id >= since
  /\ head[i] # NoHead /\ head[i].signed =>
       /\ head[i].seq = Len(written[i]) - 1
       /\ head[i].hash = written[i][Len(written[i])].hash
       /\ \A m \in DOMAIN written[i] : Len(written[i][m].hash) = m

ChainInv(i) ==
  /\ i \notin known => /\ chain[i] = <<>> /\ written[i] = <<>> /\ head[i] = NoHead
                       /\ call[i] = NoCall /\ commits[i] = {}
  /\ i \in known /\ chain[i] = <<>> /\ head[i] = NoHead => i \in erased
  /\ WrittenInv(i) /\ \A n \in DOMAIN chain[i] : EventInv(i, chain[i][n])
  /\ ~heads => head[i] = NoHead /\ call[i] = NoCall /\ i \notin born /\ commits[i] = {}
  /\ head[i] # NoHead /\ head[i].signed => head[i] \in commits[i]
  /\ i \notin harmed => UnharmedInv(i)
  /\ i \in born \ (erased \cup uncovered) => BornInv(i)

EvidenceInv ==
  /\ TypeOK
  /\ nextId >= 1 /\ (~heads => since = 0)
  /\ since <= nextId \/ uncovered = Intents
  /\ \A i \in Intents : ChainInv(i)
  /\ MovesRecorded
=============================================================================
