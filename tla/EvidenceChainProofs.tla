-------------------------- MODULE EvidenceChainProofs --------------------------
(***************************************************************************)
(* What the evidence chains promise for any set of intents, any number of  *)
(* events and any amount of damage by whoever has no key: what the MACs    *)
(* cover may be lost or altered, and what no MAC covers (which signed head *)
(* is the latest, the row ids, heads_since) may be put back or rewritten.  *)
(* The inductive invariant is EvidenceInv: a MAC never covers an           *)
(* alteration, so an event that carries its MAC says what was written;     *)
(* a signed head was signed by the store.  Where nothing was put back or   *)
(* rewritten, only the registration begins a chain under the key, and the  *)
(* signed head was handed on from signature to signature since then, so it *)
(* counts all that was written.                                            *)
(***************************************************************************)
EXTENDS EvidenceChain, FiniteSums

-----------------------------------------------------------------------------
(* Rows *)

\* The rows of one intent are of their types, and its tail hash tells an empty chain.
LEMMA RowTypes ==
  ASSUME TypeOK, NEW i \in Intents
  PROVE  /\ chain[i] \in Seq(Event) /\ written[i] \in Seq(Event)
         /\ Len(chain[i]) \in Nat /\ Len(written[i]) \in Nat
         /\ DOMAIN chain[i] = 1 .. Len(chain[i]) /\ DOMAIN written[i] = 1 .. Len(written[i])
         /\ \A n \in DOMAIN chain[i] : chain[i][n] \in Event
         /\ \A m \in DOMAIN written[i] : written[i][m] \in Event
         /\ head[i] \in HeadRow \cup {NoHead}
         /\ call[i] \in Call \cup {NoCall}
  BY DEF TypeOK

\* A sequence is empty or has a last element.
LEMMA EmptyOrLast ==
  ASSUME NEW T, NEW s \in Seq(T)
  PROVE  s # <<>> <=> Len(s) \in DOMAIN s /\ Len(s) > 0
  OBVIOUS

\* Hashes are nonempty, so the hash of the tail tells whether there are events.
LEMMA LastHashFacts ==
  ASSUME TypeOK, NEW i \in Intents, ChainInv(i)
  PROVE  /\ LastHash(i) \in Hash
         /\ LastHash(i) = NoHash <=> chain[i] = <<>>
  <1>1. chain[i] \in Seq(Event)
    BY RowTypes
  <1>2. CASE chain[i] = <<>>
    BY <1>2 DEF LastHash, NoHash, Hash
  <1>3. CASE chain[i] # <<>>
    <2>1. Len(chain[i]) \in DOMAIN chain[i]
      BY <1>1, <1>3, EmptyOrLast
    <2>2. chain[i][Len(chain[i])] \in Event /\ EventInv(i, chain[i][Len(chain[i])])
      BY <2>1, RowTypes DEF ChainInv
    <2> QED
      BY <1>3, <2>2 DEF LastHash, Event, EventInv
  <1> QED
    BY <1>2, <1>3

\* What NewEvent makes of the tail.
LEMMA NewEventFacts ==
  ASSUME TypeOK, NEW i \in Intents, ChainInv(i),
         NEW type \in {"intent_registered", "event"}, NEW keyed \in BOOLEAN,
         nextId >= 1, NEW e, e = NewEvent(i, type, keyed)
  PROVE  /\ e \in Event
         /\ e.id = nextId /\ e.type = type /\ e.prev = LastHash(i)
         /\ e.hash = Append(LastHash(i), type) /\ e.hash # NoHash
         /\ Len(e.hash) = Len(LastHash(i)) + 1
         /\ e.mac = IF keyed THEN e.hash ELSE NoHash
         /\ e.mac # NoHash => e.mac[Len(e.mac)] # "altered"
         /\ Sound(e) <=> keyed
  <1>0. LastHash(i) \in Seq(Types) /\ type \in Types /\ nextId \in Nat
    BY LastHashFacts DEF Hash, Types, TypeOK
  <1> DEFINE h == Append(LastHash(i), type)
  <1>1. /\ h \in Seq(Types) /\ h # <<>>
        /\ Len(h) = Len(LastHash(i)) + 1 /\ Len(LastHash(i)) \in Nat /\ h[Len(h)] = type
    <2>1. Len(LastHash(i)) \in Nat /\ h \in Seq(Types)
      BY <1>0
    <2>2. Len(h) = Len(LastHash(i)) + 1 /\ h # <<>> /\ h[Len(LastHash(i)) + 1] = type
      BY <1>0, AppendFacts
    <2> HIDE DEF h
    <2> QED
      BY <2>1, <2>2
  <1> HIDE DEF h
  <1>2. e = [id |-> nextId, type |-> type, prev |-> LastHash(i), hash |-> h,
             mac |-> IF keyed THEN h ELSE NoHash]
    BY DEF NewEvent, h
  <1>3. (IF keyed THEN h ELSE NoHash) \in Hash
    BY <1>1 DEF Hash, NoHash
  <1>4. e \in Event
    BY <1>0, <1>1, <1>2, <1>3 DEF Event, Hash
  <1>5. /\ e.id = nextId /\ e.type = type /\ e.prev = LastHash(i)
        /\ e.hash = h /\ e.mac = IF keyed THEN h ELSE NoHash
    BY <1>2
  <1>6. e.mac # NoHash => e.mac[Len(e.mac)] # "altered"
    BY <1>1, <1>5
  <1>7. Sound(e) <=> keyed
    BY <1>1, <1>5 DEF Sound, h, NoHash
  <1> QED
    BY <1>1, <1>4, <1>5, <1>6, <1>7 DEF h, NoHash

-----------------------------------------------------------------------------
(* Steps that leave an intent alone *)

\* Nothing about intent j changes.
Untouched(j) ==
  /\ chain'[j] = chain[j] /\ written'[j] = written[j] /\ head'[j] = head[j] /\ call'[j] = call[j]
  /\ (j \in known' <=> j \in known) /\ (j \in born' <=> j \in born)
  /\ (j \in erased' <=> j \in erased) /\ (j \in harmed' <=> j \in harmed)
  /\ commits'[j] = commits[j] /\ (j \in uncovered' <=> j \in uncovered)

\* The table may grow and the marks stand.
SameBuild == nextId' \in Nat /\ nextId' >= nextId /\ since' = since /\ heads' = heads

\* An event stays what it is while events are added elsewhere.
LEMMA EventFrame ==
  ASSUME NEW i, NEW e, EventInv(i, e), nextId \in Nat, nextId' \in Nat, nextId' >= nextId,
         i \in uncovered => i \in uncovered',
         \A m \in DOMAIN written[i] : m \in DOMAIN written'[i] /\ written'[i][m] = written[i][m]
  PROVE  EventInv(i, e)'
  BY DEF EventInv

\* What was written stays as it was.
LEMMA WrittenFrame ==
  ASSUME NEW j, WrittenInv(j), written'[j] = written[j]
  PROVE  WrittenInv(j)'
  BY DEF WrittenInv

\* The invariant of an intent that a step does not touch is kept.
LEMMA ChainFrame ==
  ASSUME NEW j, nextId \in Nat, ChainInv(j), Untouched(j), SameBuild
  PROVE  ChainInv(j)'
  <1>1. \A n \in DOMAIN chain'[j] : EventInv(j, chain[j][n])'
    <2>1. \A n \in DOMAIN chain[j] : EventInv(j, chain[j][n])
      BY DEF ChainInv
    <2> QED
      BY <2>1, EventFrame DEF Untouched, SameBuild
  <1>2. LastHash(j)' = LastHash(j) /\ (HeadMatches(j)' <=> HeadMatches(j))
    BY DEF LastHash, HeadMatches, Untouched
  <1>3. ChainVerifies(j, TRUE)' <=> ChainVerifies(j, TRUE)
    BY DEF ChainVerifies, Untouched
  <1>4. Appendable(j, TRUE)' <=> Appendable(j, TRUE)
    BY <1>2 DEF Appendable, Untouched
  <1>5. UnharmedInv(j) => UnharmedInv(j)'
    BY <1>2, <1>3, <1>4 DEF UnharmedInv, Untouched
  <1>6. BornInv(j) => BornInv(j)'
    BY DEF BornInv, Untouched, SameBuild
  <1> QED
    BY <1>1, <1>5, <1>6, WrittenFrame DEF ChainInv, Untouched, SameBuild

-----------------------------------------------------------------------------
(* Appending *)

\* Event e was appended to the chain of intent i.
EventAppended(i, e) ==
  /\ chain' = [chain EXCEPT ![i] = Append(chain[i], e)]
  /\ written' = [written EXCEPT ![i] = Append(written[i], e)]
  /\ nextId' = nextId + 1 /\ uncovered' = uncovered

\* It was appended under a new head.
Appended(i, e, keyed) ==
  /\ EventAppended(i, e)
  /\ head' = [head EXCEPT ![i] = [seq |-> Len(chain[i]), hash |-> e.hash, signed |-> keyed]]
  /\ commits' = IF keyed THEN [commits EXCEPT ![i] = @ \cup {[seq |-> Len(chain[i]), hash |-> e.hash, signed |-> keyed]}]
                          ELSE commits
  /\ harmed' = IF keyed THEN harmed ELSE harmed \cup {i}

\* _append_evidence_in_txn writes an event and its head.
LEMMA AppendedBy ==
  ASSUME NEW i, NEW type, NEW keyed, AppendInTxn(i, type, keyed), uncovered' = uncovered
  PROVE  Appended(i, NewEvent(i, type, keyed), keyed) /\ Appendable(i, keyed)
  BY DEF AppendInTxn, Appended, EventAppended, NewHead, Committed, Harmed

\* What the appended event leaves as it was and what it adds.
LEMMA AppendedSequences ==
  ASSUME TypeOK, NEW i \in Intents, NEW e \in Event, EventAppended(i, e)
  PROVE  /\ chain' \in [Intents -> Seq(Event)] /\ written' \in [Intents -> Seq(Event)]
         /\ \A j \in Intents \ {i} : chain'[j] = chain[j] /\ written'[j] = written[j]
         /\ chain'[i] # <<>> /\ Len(chain'[i]) = Len(chain[i]) + 1
         /\ DOMAIN chain'[i] = 1 .. Len(chain[i]) + 1 /\ chain'[i][Len(chain[i]) + 1] = e
         /\ \A n \in DOMAIN chain[i] : chain'[i][n] = chain[i][n]
         /\ Len(written'[i]) = Len(written[i]) + 1
         /\ DOMAIN written'[i] = 1 .. Len(written[i]) + 1 /\ written'[i][Len(written[i]) + 1] = e
         /\ \A m \in DOMAIN written[i] : written'[i][m] = written[i][m]
         /\ LastHash(i)' = e.hash
  <1>1. /\ chain[i] \in Seq(Event) /\ written[i] \in Seq(Event)
        /\ Len(chain[i]) \in Nat /\ Len(written[i]) \in Nat
    BY RowTypes
  <1>2. chain'[i] = Append(chain[i], e) /\ written'[i] = Append(written[i], e)
    BY DEF EventAppended, TypeOK
  <1>3. /\ Len(chain'[i]) = Len(chain[i]) + 1 /\ DOMAIN chain'[i] = 1 .. Len(chain[i]) + 1
        /\ chain'[i][Len(chain[i]) + 1] = e /\ chain'[i] # <<>>
        /\ \A n \in DOMAIN chain[i] : chain'[i][n] = chain[i][n]
    BY <1>1, <1>2, AppendFacts
  <1>4. /\ Len(written'[i]) = Len(written[i]) + 1 /\ DOMAIN written'[i] = 1 .. Len(written[i]) + 1
        /\ written'[i][Len(written[i]) + 1] = e
        /\ \A m \in DOMAIN written[i] : written'[i][m] = written[i][m]
    BY <1>1, <1>2, AppendFacts
  <1>5. chain'[i] \in Seq(Event) /\ written'[i] \in Seq(Event)
    BY <1>1, <1>2
  <1>6. chain' \in [Intents -> Seq(Event)] /\ written' \in [Intents -> Seq(Event)]
    BY <1>2, <1>5 DEF EventAppended, TypeOK
  <1>7. \A j \in Intents \ {i} : chain'[j] = chain[j] /\ written'[j] = written[j]
    BY DEF EventAppended, TypeOK
  <1>8. LastHash(i)' = e.hash
    BY <1>3 DEF LastHash
  <1> QED
    BY <1>3, <1>4, <1>6, <1>7, <1>8

\* The head over the appended event.
LEMMA AppendedHead ==
  ASSUME TypeOK, NEW i \in Intents, NEW e \in Event, NEW keyed \in BOOLEAN, Appended(i, e, keyed)
  PROVE  /\ head' \in [Intents -> HeadRow \cup {NoHead}]
         /\ \A j \in Intents \ {i} : head'[j] = head[j]
         /\ head'[i] # NoHead /\ head'[i].seq = Len(chain[i])
         /\ head'[i].hash = e.hash /\ head'[i].signed = keyed
         /\ keyed => HeadMatches(i)'
         /\ commits' \in [Intents -> SUBSET HeadRow]
         /\ \A j \in Intents \ {i} : commits'[j] = commits[j]
         /\ keyed => head'[i] \in commits'[i]
  <1>1. Len(chain[i]) \in Nat
    BY RowTypes
  <1>2. head'[i] = [seq |-> Len(chain[i]), hash |-> e.hash, signed |-> keyed]
    BY DEF Appended, TypeOK
  <1>3. Len(chain'[i]) = Len(chain[i]) + 1 /\ LastHash(i)' = e.hash
    BY AppendedSequences DEF Appended
  <1>4. head'[i] \in HeadRow
    BY <1>1, <1>2 DEF HeadRow, Event
  <1>5. head' \in [Intents -> HeadRow \cup {NoHead}]
    BY <1>2, <1>4 DEF Appended, TypeOK
  <1>6. \A j \in Intents \ {i} : head'[j] = head[j]
    BY DEF Appended, TypeOK
  <1>7. head'[i].seq = Len(chain[i]) /\ head'[i].hash = e.hash /\ head'[i].signed = keyed
    BY <1>2
  <1>8. head'[i] # NoHead
    BY <1>1, <1>7 DEF NoHead
  <1>9. keyed => HeadMatches(i)'
    BY <1>1, <1>3, <1>7, <1>8 DEF HeadMatches
  <1>10. commits' = IF keyed THEN [commits EXCEPT ![i] = @ \cup {head'[i]}] ELSE commits
    BY <1>2 DEF Appended
  <1>11. /\ commits' \in [Intents -> SUBSET HeadRow]
         /\ \A j \in Intents \ {i} : commits'[j] = commits[j]
         /\ keyed => head'[i] \in commits'[i]
    BY <1>4, <1>10 DEF TypeOK
  <1> QED
    BY <1>5, <1>6, <1>7, <1>8, <1>9, <1>11

\* A keyed event goes on where the signed head stands, or begins a chain that has
\* neither events nor a head: the registration, or of an intent that once had neither.
LEMMA KeyedAppend ==
  ASSUME EvidenceInv, NEW i \in Intents, Appendable(i, TRUE), i \in known
  PROVE  \/ chain[i] = <<>> /\ i \in erased
         \/ chain[i] # <<>> /\ HeadMatches(i)
  BY DEF EvidenceInv, ChainInv, Appendable

\* The chain with the new event.
LEMMA AppendedEvents ==
  ASSUME EvidenceInv, NEW i \in Intents, NEW type \in {"intent_registered", "event"},
         NEW keyed \in BOOLEAN, NEW e, e = NewEvent(i, type, keyed), EventAppended(i, e)
  PROVE  /\ \A n \in DOMAIN chain'[i] : EventInv(i, chain[i][n])'
         /\ keyed /\ ChainVerifies(i, TRUE) => ChainVerifies(i, TRUE)'
         /\ WrittenInv(i)'
  <1>0. TypeOK /\ ChainInv(i) /\ nextId \in Nat /\ nextId >= 1 /\ nextId' = nextId + 1
    BY DEF EvidenceInv, TypeOK, EventAppended
  <1>a. uncovered' = uncovered
    BY DEF EventAppended
  <1>1. /\ e \in Event /\ e.id = nextId /\ e.type = type /\ e.prev = LastHash(i)
        /\ e.hash = Append(LastHash(i), type) /\ e.hash # NoHash
        /\ e.mac = IF keyed THEN e.hash ELSE NoHash
        /\ e.mac # NoHash => e.mac[Len(e.mac)] # "altered"
    BY <1>0, NewEventFacts
  <1> DEFINE n1 == Len(chain[i]) + 1
             m1 == Len(written[i]) + 1
  <1>2. /\ Len(chain[i]) \in Nat /\ Len(written[i]) \in Nat
        /\ DOMAIN chain[i] = 1 .. Len(chain[i]) /\ DOMAIN written[i] = 1 .. Len(written[i])
    BY <1>0, RowTypes
  <1>3. /\ DOMAIN chain'[i] = 1 .. n1 /\ chain'[i][n1] = e
        /\ \A n \in DOMAIN chain[i] : chain'[i][n] = chain[i][n]
        /\ DOMAIN written'[i] = 1 .. m1 /\ written'[i][m1] = e
        /\ \A m \in DOMAIN written[i] : written'[i][m] = written[i][m]
    BY <1>0, <1>1, AppendedSequences
  <1>4. /\ \A n \in DOMAIN chain'[i] : n = n1 \/ n \in DOMAIN chain[i]
        /\ m1 \in DOMAIN written'[i] /\ \A m \in DOMAIN written[i] : m \in DOMAIN written'[i]
    BY <1>2, <1>3
  <1>5. EventInv(i, e)'
    BY <1>0, <1>1, <1>3, <1>4 DEF EventInv
  <1>6. \A n \in DOMAIN chain[i] : EventInv(i, chain[i][n])'
    <2>1. ASSUME NEW n \in DOMAIN chain[i], NEW f, f = chain[i][n]
          PROVE  EventInv(i, f)'
      <3>1. EventInv(i, f)
        BY <1>0, <2>1 DEF ChainInv
      <3> QED
        BY <1>0, <1>a, <1>3, <1>4, <3>1, EventFrame
    <2>2. \A n \in DOMAIN chain[i] : chain'[i][n] = chain[i][n]
      BY <1>3
    <2> QED
      BY <2>1, <2>2 DEF EventInv
  <1>7. \A n \in DOMAIN chain'[i] : EventInv(i, chain[i][n])'
    BY <1>3, <1>4, <1>5, <1>6 DEF EventInv
  <1>8. ASSUME keyed, ChainVerifies(i, TRUE)
        PROVE  ChainVerifies(i, TRUE)'
    <2>1. ASSUME NEW n \in DOMAIN chain[i]
          PROVE  /\ chain'[i][n].prev = IF n = 1 THEN NoHash ELSE chain'[i][n - 1].hash
                 /\ chain'[i][n].hash = Append(chain'[i][n].prev, chain'[i][n].type)
                 /\ chain'[i][n].mac = chain'[i][n].hash
      <3>1. n # 1 => n - 1 \in DOMAIN chain[i]
        BY <1>2
      <3> QED
        BY <1>3, <1>8, <3>1 DEF ChainVerifies
    <2>2. /\ chain'[i][n1].prev = IF n1 = 1 THEN NoHash ELSE chain'[i][n1 - 1].hash
          /\ chain'[i][n1].hash = Append(chain'[i][n1].prev, chain'[i][n1].type)
          /\ chain'[i][n1].mac = chain'[i][n1].hash
      <3>1. CASE chain[i] = <<>>
        <4>1. n1 = 1 /\ LastHash(i) = NoHash
          BY <3>1 DEF LastHash
        <4> QED
          BY <1>1, <1>3, <1>8, <4>1
      <3>2. CASE chain[i] # <<>>
        <4>1. Len(chain[i]) \in DOMAIN chain[i] /\ n1 # 1 /\ n1 - 1 = Len(chain[i])
          BY <1>0, <1>2, <3>2, RowTypes, EmptyOrLast
        <4>2. LastHash(i) = chain'[i][n1 - 1].hash
          BY <1>3, <3>2, <4>1 DEF LastHash
        <4> HIDE DEF n1
        <4> QED
          BY <1>1, <1>3, <1>8, <4>1, <4>2
      <3> QED
        BY <3>1, <3>2
    <2> HIDE DEF n1
    <2> QED
      BY <1>4, <2>1, <2>2 DEF ChainVerifies
  <1>9. WrittenInv(i)'
    <2>1. \A m \in DOMAIN written'[i] : m = m1 \/ m \in DOMAIN written[i]
      BY <1>2, <1>3
    <2>2. WrittenInv(i)
      BY <1>0 DEF ChainInv
    <2> HIDE DEF m1
    <2> QED
      BY <1>1, <1>3, <2>1, <2>2 DEF WrittenInv
  <1> QED
    BY <1>7, <1>8, <1>9

\* A born chain with the new event.
LEMMA AppendedBorn ==
  ASSUME EvidenceInv, NEW i \in Intents, NEW type \in {"intent_registered", "event"},
         NEW keyed \in BOOLEAN, NEW e, e = NewEvent(i, type, keyed), Appended(i, e, keyed),
         Appendable(i, keyed), since' = since, i \notin erased \cup uncovered,
         \/ i \in known /\ i \in born
         \/ i \notin known /\ type = "intent_registered"
  PROVE  BornInv(i)'
  <1>0. /\ TypeOK /\ ChainInv(i) /\ nextId \in Nat /\ nextId >= 1
        /\ since \in Nat /\ since <= nextId
    BY DEF EvidenceInv, TypeOK
  <1>1. /\ e \in Event /\ e.id = nextId /\ e.type = type /\ e.prev = LastHash(i)
        /\ e.hash = Append(LastHash(i), type) /\ e.hash # NoHash
        /\ Len(e.hash) = Len(LastHash(i)) + 1
        /\ Sound(e) <=> keyed
    BY <1>0, NewEventFacts
  <1> DEFINE n1 == Len(chain[i]) + 1
             m1 == Len(written[i]) + 1
  <1>2. /\ Len(chain[i]) \in Nat /\ Len(written[i]) \in Nat
        /\ DOMAIN chain[i] = 1 .. Len(chain[i]) /\ DOMAIN written[i] = 1 .. Len(written[i])
    BY <1>0, RowTypes
  <1>3. /\ DOMAIN chain'[i] = 1 .. n1 /\ chain'[i][n1] = e
        /\ \A n \in DOMAIN chain[i] : chain'[i][n] = chain[i][n]
        /\ DOMAIN written'[i] = 1 .. m1 /\ written'[i][m1] = e /\ Len(written'[i]) = m1
        /\ \A m \in DOMAIN written[i] : written'[i][m] = written[i][m]
        /\ head'[i].seq = Len(chain[i]) /\ head'[i].hash = e.hash /\ head'[i].signed = keyed
    <2>1. EventAppended(i, e)
      BY DEF Appended
    <2>2. head'[i].seq = Len(chain[i]) /\ head'[i].hash = e.hash /\ head'[i].signed = keyed
      BY <1>0, <1>1, AppendedHead
    <2> HIDE DEF n1, m1
    <2>3. /\ DOMAIN chain'[i] = 1 .. n1 /\ chain'[i][n1] = e
          /\ \A n \in DOMAIN chain[i] : chain'[i][n] = chain[i][n]
      BY <1>0, <1>1, <2>1, AppendedSequences DEF n1
    <2>4. /\ DOMAIN written'[i] = 1 .. m1 /\ written'[i][m1] = e /\ Len(written'[i]) = m1
          /\ \A m \in DOMAIN written[i] : written'[i][m] = written[i][m]
      BY <1>0, <1>1, <2>1, AppendedSequences DEF m1
    <2> QED
      BY <2>2, <2>3, <2>4
  <1>4. /\ \A n \in DOMAIN chain'[i] : n = n1 \/ n \in DOMAIN chain[i]
        /\ \A m \in DOMAIN written'[i] : m = m1 \/ m \in DOMAIN written[i]
    BY <1>2, <1>3
  <1>5. i \in known => BornInv(i)
    BY <1>0 DEF ChainInv
  <1>6. i \notin known => chain[i] = <<>> /\ written[i] = <<>> /\ LastHash(i) = NoHash
    BY <1>0 DEF ChainInv, LastHash
  <1>7. keyed => \/ i \notin known
                 \/ i \in known /\ chain[i] # <<>> /\ HeadMatches(i)
    BY KeyedAppend
  <1>8. ASSUME NEW n \in DOMAIN chain'[i], Sound(chain'[i][n]), chain'[i][n].prev = NoHash
        PROVE  n = 1 /\ chain'[i][1].type = "intent_registered" /\ chain'[i][1].id >= since'
    <2>1. CASE n = n1
      <3>1. keyed /\ LastHash(i) = NoHash
        BY <1>1, <1>3, <1>8, <2>1
      <3>2. chain[i] = <<>>
        BY <1>0, <3>1, LastHashFacts
      <3>3. i \notin known /\ type = "intent_registered"
        BY <1>7, <3>1, <3>2
      <3>4. n1 = 1
        BY <3>2
      <3> QED
        BY <1>0, <1>1, <1>3, <2>1, <3>3, <3>4
    <2>2. CASE n \in DOMAIN chain[i]
      <3>1. chain[i] # <<>> /\ 1 \in DOMAIN chain[i]
        BY <1>2, <2>2
      <3>2. i \in known /\ BornInv(i)
        BY <1>5, <1>6, <3>1
      <3>3. chain'[i][n] = chain[i][n] /\ chain'[i][1] = chain[i][1]
        BY <1>3, <2>2, <3>1
      <3> QED
        BY <1>8, <2>2, <3>2, <3>3 DEF BornInv
    <2> QED
      BY <1>4, <2>1, <2>2
  <1>9. ASSUME head'[i].signed
        PROVE  /\ head'[i].seq = Len(written'[i]) - 1
               /\ head'[i].hash = written'[i][Len(written'[i])].hash
               /\ \A m \in DOMAIN written'[i] : Len(written'[i][m].hash) = m
    <2>0. keyed
      BY <1>3, <1>9
    <2>1. CASE i \notin known
      <3>1. Len(chain[i]) = 0 /\ Len(written[i]) = 0 /\ Len(LastHash(i)) = 0
        BY <1>6, <2>1 DEF NoHash
      <3>2. m1 = 1
        BY <3>1
      <3> HIDE DEF n1, m1
      <3> QED
        BY <1>1, <1>3, <3>1, <3>2
    <2>2. CASE i \in known
      <3>1. /\ HeadMatches(i) /\ BornInv(i) /\ chain[i] # <<>>
        BY <1>5, <1>7, <2>0, <2>2
      <3>2. /\ Len(chain[i]) - 1 = Len(written[i]) - 1
            /\ LastHash(i) = written[i][Len(written[i])].hash
            /\ \A m \in DOMAIN written[i] : Len(written[i][m].hash) = m
        BY <3>1 DEF HeadMatches, BornInv
      <3>3. Len(chain[i]) = Len(written[i]) /\ Len(chain[i]) > 0
        BY <1>0, <1>2, <3>1, <3>2, RowTypes, EmptyOrLast
      <3>4. Len(written[i]) \in DOMAIN written[i]
        BY <1>2, <3>3
      <3>5. Len(LastHash(i)) = Len(written[i])
        BY <3>2, <3>4
      <3>6. Len(e.hash) = m1 /\ m1 - 1 = Len(chain[i])
        BY <1>1, <1>2, <3>3, <3>5
      <3> HIDE DEF n1, m1
      <3> QED
        BY <1>3, <1>4, <3>2, <3>6
    <2> QED
      BY <2>1, <2>2
  <1> QED
    BY <1>8, <1>9 DEF BornInv, Sound

\* An appended event keeps the invariant, whoever appends it and why.
LEMMA AppendStep ==
  ASSUME EvidenceInv, NEW i \in Intents, NEW type \in {"intent_registered", "event"},
         NEW keyed \in BOOLEAN, AppendInTxn(i, type, keyed), heads, UNCHANGED settings,
         known' = known \cup {i}, erased' = erased, unrecorded' = unrecorded,
         uncovered' = uncovered, damage' = damage,
         \/ i \in known /\ born' = born
         \/ i \notin known /\ type = "intent_registered" /\ born' = born \cup {i},
         call' \in [Intents -> Call \cup {NoCall}], \A j \in Intents \ {i} : call'[j] = call[j]
  PROVE  EvidenceInv'
  <1> DEFINE e == NewEvent(i, type, keyed)
  <1>0. /\ TypeOK /\ nextId \in Nat /\ nextId >= 1 /\ since \in Nat
        /\ since <= nextId \/ uncovered = Intents
        /\ \A j \in Intents : ChainInv(j)
        /\ MovesRecorded /\ since' = since /\ heads' = heads
    BY DEF EvidenceInv, TypeOK, settings
  <1>1. Appended(i, e, keyed) /\ Appendable(i, keyed) /\ e \in Event
    BY <1>0, AppendedBy, NewEventFacts
  <1> HIDE DEF e
  <1>2. nextId' = nextId + 1 /\ harmed' = IF keyed THEN harmed ELSE harmed \cup {i}
    BY <1>1 DEF Appended, EventAppended
  <1>3. TypeOK'
    <2>1. /\ chain' \in [Intents -> Seq(Event)] /\ written' \in [Intents -> Seq(Event)]
          /\ head' \in [Intents -> HeadRow \cup {NoHead}]
          /\ commits' \in [Intents -> SUBSET HeadRow]
      BY <1>0, <1>1, AppendedSequences, AppendedHead DEF Appended
    <2>2. nextId' \in Nat /\ since' \in Nat /\ heads' \in BOOLEAN /\ damage' \in Nat
      BY <1>0, <1>2 DEF TypeOK
    <2>3. /\ known' \subseteq Intents /\ born' \subseteq known' /\ erased' \subseteq known'
          /\ harmed' \subseteq known' /\ unrecorded' \subseteq known'
          /\ uncovered' \subseteq Intents
      BY <1>0, <1>2 DEF TypeOK
    <2> QED
      BY <2>1, <2>2, <2>3 DEF TypeOK
  <1>4. ASSUME NEW j \in Intents, j # i
        PROVE  ChainInv(j)'
    <2>1. /\ chain'[j] = chain[j] /\ written'[j] = written[j] /\ head'[j] = head[j]
          /\ commits'[j] = commits[j]
      BY <1>0, <1>1, <1>4, AppendedSequences, AppendedHead DEF Appended
    <2>2. Untouched(j)
      BY <1>2, <1>4, <2>1 DEF Untouched
    <2>3. SameBuild
      BY <1>0, <1>2 DEF SameBuild
    <2> QED
      BY <1>0, <2>2, <2>3, ChainFrame
  <1>5. ChainInv(i)'
    <2>1. /\ \A n \in DOMAIN chain'[i] : EventInv(i, chain[i][n])'
          /\ keyed /\ ChainVerifies(i, TRUE) => ChainVerifies(i, TRUE)'
          /\ WrittenInv(i)'
      BY <1>1, AppendedEvents DEF e, Appended
    <2>2. chain'[i] # <<>> /\ (keyed => HeadMatches(i)')
      BY <1>0, <1>1, AppendedSequences, AppendedHead DEF Appended
    <2>3. ASSUME i \notin harmed'
          PROVE  UnharmedInv(i)'
      <3>1. keyed /\ i \notin harmed
        BY <1>2, <2>3
      <3>2. ChainVerifies(i, TRUE)'
        BY <1>0, <2>1, <3>1 DEF ChainInv, UnharmedInv
      <3> QED
        BY <2>2, <3>1, <3>2 DEF UnharmedInv, Appendable
    <2>4. ASSUME i \in born' \ (erased' \cup uncovered')
          PROVE  BornInv(i)'
      <3>1. \/ i \in known /\ i \in born
            \/ i \notin known /\ type = "intent_registered"
        BY <2>4
      <3> QED
        BY <1>0, <1>1, <2>4, <3>1, AppendedBorn DEF e
    <2>5. i \in known' /\ heads'
      BY <1>0
    <2>6. head'[i].signed => head'[i] \in commits'[i]
      BY <1>0, <1>1, AppendedHead
    <2> QED
      BY <2>1, <2>2, <2>3, <2>4, <2>5, <2>6, WrittenFrame DEF ChainInv
  <1>6. MovesRecorded'
    BY <1>0, <1>2 DEF MovesRecorded
  <1>7. nextId' >= 1 /\ (~heads' => since' = 0) /\ (since' <= nextId' \/ uncovered' = Intents)
    BY <1>0, <1>2
  <1> QED
    BY <1>3, <1>4, <1>5, <1>6, <1>7 DEF EvidenceInv

\* register
LEMMA RegisterStep ==
  ASSUME EvidenceInv, NEW i \in Intents, NEW keyed \in BOOLEAN, Register(i, keyed)
  PROVE  EvidenceInv'
  <1>1. /\ AppendInTxn(i, "intent_registered", keyed) /\ heads /\ i \notin known
        /\ UNCHANGED settings /\ known' = known \cup {i} /\ born' = born \cup {i}
        /\ call' = call /\ erased' = erased /\ unrecorded' = unrecorded
        /\ uncovered' = uncovered /\ damage' = damage
    BY DEF Register
  <1>2. call' \in [Intents -> Call \cup {NoCall}] /\ \A j \in Intents \ {i} : call'[j] = call[j]
    BY <1>1 DEF EvidenceInv, TypeOK
  <1> QED
    BY <1>1, <1>2, AppendStep

\* A call in progress has a build that writes heads and a registered intent.
LEMMA CallFacts ==
  ASSUME EvidenceInv, NEW i \in Intents, call[i] # NoCall
  PROVE  heads /\ i \in known /\ call[i] \in Call /\ call[i].keyed \in BOOLEAN
  <1>1. call[i] \in Call
    BY DEF EvidenceInv, TypeOK
  <1> QED
    BY <1>1 DEF EvidenceInv, ChainInv, Call

\* add_evidence
LEMMA AddEvidenceStep ==
  ASSUME EvidenceInv, NEW i \in Intents, AddEvidence(i)
  PROVE  EvidenceInv'
  <1>1. /\ call[i].phase = "moved" /\ AppendInTxn(i, "event", call[i].keyed)
        /\ call' = [call EXCEPT ![i].phase = "open"]
        /\ UNCHANGED settings /\ known' = known /\ born' = born
        /\ erased' = erased /\ unrecorded' = unrecorded
        /\ uncovered' = uncovered /\ damage' = damage
    BY DEF AddEvidence
  <1>2. call[i] # NoCall
    BY <1>1 DEF NoCall
  <1>3. heads /\ i \in known /\ call[i] \in Call /\ call[i].keyed \in BOOLEAN
    BY <1>2, CallFacts
  <1>4. call' \in [Intents -> Call \cup {NoCall}] /\ \A j \in Intents \ {i} : call'[j] = call[j]
    BY <1>1, <1>3 DEF EvidenceInv, TypeOK, Call
  <1>5. known' = known \cup {i}
    BY <1>1, <1>3
  <1> QED
    BY <1>1, <1>3, <1>4, <1>5, AppendStep

\* rebuild_evidence_head(allow_empty)
LEMMA AdoptEmptyStep ==
  ASSUME EvidenceInv, NEW i \in Intents, AdoptEmpty(i)
  PROVE  EvidenceInv'
  <1>1. /\ since # 0 /\ i \in known /\ AppendInTxn(i, "event", TRUE)
        /\ UNCHANGED settings /\ known' = known /\ call' = call /\ born' = born
        /\ erased' = erased /\ unrecorded' = unrecorded
        /\ uncovered' = uncovered /\ damage' = damage
    BY DEF AdoptEmpty
  <1>2. heads /\ call' \in [Intents -> Call \cup {NoCall}]
    BY <1>1 DEF EvidenceInv, TypeOK
  <1>3. known' = known \cup {i} /\ \A j \in Intents \ {i} : call'[j] = call[j]
    BY <1>1
  <1> QED
    BY <1>1, <1>2, <1>3, AppendStep

-----------------------------------------------------------------------------
(* Steps of a call that write no row *)

\* The call of intent i may go on as it stands.
CallFits(i, v) ==
  \/ v = NoCall
  \/ /\ v \in Call /\ heads /\ i \in known
     /\ i \notin harmed /\ v.keyed => Appendable(i, TRUE)

\* The call of an intent in the invariant fits.
LEMMA PresentCallFits ==
  ASSUME EvidenceInv, NEW i \in Intents
  PROVE  CallFits(i, call[i])
  <1>1. CASE call[i] = NoCall
    BY <1>1 DEF CallFits
  <1>2. CASE call[i] # NoCall
    <2>1. heads /\ i \in known /\ call[i] \in Call
      BY <1>2, CallFacts
    <2>2. i \notin harmed /\ call[i].keyed => Appendable(i, TRUE)
      BY <1>2 DEF EvidenceInv, ChainInv, UnharmedInv
    <2> QED
      BY <2>1, <2>2 DEF CallFits
  <1> QED
    BY <1>1, <1>2

\* A step that only moves calls keeps the invariant when the calls fit.
LEMMA CallsMove ==
  ASSUME EvidenceInv, NEW i \in Intents, NEW v, CallFits(i, v),
         call' = [call EXCEPT ![i] = v],
         UNCHANGED <<rows, settings, born, erased, harmed, uncovered, damage>>,
         unrecorded' \subseteq harmed
  PROVE  EvidenceInv'
  <1>0. /\ TypeOK /\ \A j \in Intents : ChainInv(j)
        /\ known' = known /\ chain' = chain /\ head' = head /\ nextId' = nextId
        /\ written' = written /\ commits' = commits /\ since' = since /\ heads' = heads
        /\ born' = born /\ erased' = erased /\ harmed' = harmed
        /\ uncovered' = uncovered /\ damage' = damage
    BY DEF EvidenceInv, rows, settings
  <1>1. v \in Call \cup {NoCall}
    BY DEF CallFits
  <1>2. /\ call' \in [Intents -> Call \cup {NoCall}] /\ call'[i] = v
        /\ \A j \in Intents \ {i} : call'[j] = call[j]
    BY <1>0, <1>1 DEF TypeOK
  <1>3. TypeOK'
    BY <1>0, <1>2 DEF TypeOK
  <1>4. ASSUME NEW j \in Intents
        PROVE  ChainInv(j)'
    <2>1. CallFits(j, call'[j])
      BY <1>2, PresentCallFits
    <2>2. \A n \in DOMAIN chain[j] : EventInv(j, chain[j][n])'
      BY <1>0 DEF ChainInv, EventInv
    <2>3. /\ ChainVerifies(j, TRUE)' <=> ChainVerifies(j, TRUE)
          /\ HeadMatches(j)' <=> HeadMatches(j)
          /\ Appendable(j, TRUE)' <=> Appendable(j, TRUE)
      BY <1>0 DEF ChainVerifies, HeadMatches, Appendable, LastHash
    <2>4. j \notin harmed => UnharmedInv(j)'
      BY <1>0, <2>1, <2>3 DEF ChainInv, UnharmedInv, CallFits
    <2>5. BornInv(j) => BornInv(j)'
      BY <1>0 DEF BornInv
    <2>6. call'[j] = NoCall \/ (heads /\ j \in known)
      BY <2>1 DEF CallFits
    <2> QED
      BY <1>0, <2>2, <2>4, <2>5, <2>6, WrittenFrame DEF ChainInv
  <1>5. MovesRecorded'
    BY <1>0 DEF MovesRecorded
  <1> QED
    BY <1>0, <1>3, <1>4, <1>5 DEF EvidenceInv

\* The lease is taken and assert_evidence_appendable did not raise.
LEMMA BeginCallStep ==
  ASSUME EvidenceInv, NEW i \in Intents, NEW keyed \in BOOLEAN, BeginCall(i, keyed)
  PROVE  EvidenceInv'
  <1> DEFINE v == [phase |-> "open", keyed |-> keyed]
  <1>1. /\ heads /\ i \in known /\ Appendable(i, keyed) /\ call' = [call EXCEPT ![i] = v]
        /\ UNCHANGED <<rows, settings, born, erased, harmed, uncovered, damage>> /\ unrecorded' = unrecorded
    BY DEF BeginCall, history
  <1>2. v \in Call /\ v.keyed = keyed
    BY DEF Call
  <1> HIDE DEF v
  <1>3. CallFits(i, v)
    BY <1>1, <1>2 DEF CallFits, Appendable
  <1>4. unrecorded' \subseteq harmed
    BY <1>1 DEF EvidenceInv, MovesRecorded
  <1> QED
    BY <1>1, <1>3, <1>4, CallsMove

\* The state transition.
LEMMA TransitionStep ==
  ASSUME EvidenceInv, NEW i \in Intents, Transition(i)
  PROVE  EvidenceInv'
  <1> DEFINE v == [call[i] EXCEPT !.phase = "moved"]
  <1>1. /\ call[i].phase = "open" /\ call' = [call EXCEPT ![i] = v]
        /\ UNCHANGED <<rows, settings, born, erased, harmed, uncovered, damage>> /\ unrecorded' = unrecorded
    BY DEF Transition, history
  <1>2. call[i] # NoCall
    BY <1>1 DEF NoCall
  <1>3. heads /\ i \in known /\ call[i] \in Call
    BY <1>2, CallFacts
  <1>4. v \in Call /\ v.keyed = call[i].keyed
    BY <1>3 DEF Call
  <1>5. i \notin harmed /\ call[i].keyed => Appendable(i, TRUE)
    BY <1>2, PresentCallFits DEF CallFits
  <1> HIDE DEF v
  <1>6. CallFits(i, v)
    BY <1>3, <1>4, <1>5 DEF CallFits
  <1>7. unrecorded' \subseteq harmed
    BY <1>1 DEF EvidenceInv, MovesRecorded
  <1> QED
    BY <1>1, <1>6, <1>7, CallsMove

\* The event is refused: an unharmed chain that a keyed call found appendable still is.
LEMMA AddEvidenceRefusedStep ==
  ASSUME EvidenceInv, NEW i \in Intents, AddEvidenceRefused(i)
  PROVE  EvidenceInv'
  <1>1. /\ call[i].phase = "moved" /\ ~Appendable(i, call[i].keyed)
        /\ call' = [call EXCEPT ![i] = NoCall]
        /\ UNCHANGED <<rows, settings, born, erased, harmed, uncovered, damage>>
        /\ unrecorded' = unrecorded \cup {i}
    BY DEF AddEvidenceRefused
  <1>2. call[i] # NoCall
    BY <1>1 DEF NoCall
  <1>3. call[i].keyed /\ call[i].keyed \in BOOLEAN
    BY <1>1, <1>2, CallFacts DEF Appendable
  <1>4. i \in harmed
    <2>1. call[i].keyed = TRUE
      BY <1>3
    <2>2. ~Appendable(i, TRUE)
      BY <1>1, <2>1
    <2> QED
      BY <1>2, <1>3, <2>2, PresentCallFits DEF CallFits
  <1>5. unrecorded' \subseteq harmed
    BY <1>1, <1>4 DEF EvidenceInv, MovesRecorded
  <1>6. CallFits(i, NoCall)
    BY DEF CallFits
  <1> QED
    BY <1>1, <1>5, <1>6, CallsMove

\* The call returns or its process dies.
LEMMA EndCallStep ==
  ASSUME EvidenceInv, NEW i \in Intents, EndCall(i)
  PROVE  EvidenceInv'
  <1>1. /\ call' = [call EXCEPT ![i] = NoCall]
        /\ UNCHANGED <<rows, settings, born, erased, harmed, uncovered, damage>> /\ unrecorded' = unrecorded
    BY DEF EndCall, history
  <1>2. unrecorded' \subseteq harmed
    BY <1>1 DEF EvidenceInv, MovesRecorded
  <1>3. CallFits(i, NoCall)
    BY DEF CallFits
  <1> QED
    BY <1>1, <1>2, <1>3, CallsMove

-----------------------------------------------------------------------------
(* Older builds and the upgrade *)

\* Before the upgrade no chain has a head, no call is open and no intent is born with one.
LEMMA LegacyFacts ==
  ASSUME EvidenceInv, ~heads, NEW j \in Intents
  PROVE  head[j] = NoHead /\ call[j] = NoCall /\ j \notin born /\ commits[j] = {} /\ since = 0
  BY DEF EvidenceInv, ChainInv

\* A build without heads registers an intent without an event.
LEMMA LegacyRegisterStep ==
  ASSUME EvidenceInv, NEW i \in Intents, LegacyRegister(i)
  PROVE  EvidenceInv'
  <1>0. /\ TypeOK /\ \A j \in Intents : ChainInv(j)
        /\ ~heads /\ i \notin known /\ known' = known \cup {i} /\ erased' = erased \cup {i}
        /\ chain' = chain /\ head' = head /\ nextId' = nextId /\ written' = written
        /\ commits' = commits /\ uncovered' = uncovered
        /\ since' = since /\ heads' = heads /\ call' = call /\ born' = born
        /\ harmed' = harmed /\ unrecorded' = unrecorded /\ damage' = damage
    BY DEF EvidenceInv, LegacyRegister, settings
  <1>1. TypeOK'
    BY <1>0 DEF TypeOK
  <1>2. SameBuild /\ nextId \in Nat
    BY <1>0 DEF SameBuild, TypeOK
  <1>3. ASSUME NEW j \in Intents, j # i
        PROVE  ChainInv(j)'
    <2>1. Untouched(j)
      BY <1>0, <1>3 DEF Untouched
    <2> QED
      BY <1>0, <1>2, <2>1, ChainFrame
  <1>4. ChainInv(i)'
    <2>1. chain[i] = <<>> /\ head[i] = NoHead /\ call[i] = NoCall /\ commits[i] = {}
      BY <1>0 DEF ChainInv
    <2>2. UnharmedInv(i)'
      BY <1>0, <2>1 DEF UnharmedInv, ChainVerifies
    <2>3. i \notin born'
      BY <1>0 DEF TypeOK
    <2> QED
      BY <1>0, <2>1, <2>2, <2>3, WrittenFrame DEF ChainInv
  <1> QED
    BY <1>0, <1>1, <1>3, <1>4 DEF EvidenceInv, MovesRecorded

\* It writes events with their MACs and no head.
LEMMA LegacyAppendStep ==
  ASSUME EvidenceInv, NEW i \in Intents, LegacyAppend(i)
  PROVE  EvidenceInv'
  <1> DEFINE e == NewEvent(i, "event", TRUE)
  <1>0. /\ TypeOK /\ nextId \in Nat /\ nextId >= 1 /\ since \in Nat
        /\ since <= nextId \/ uncovered = Intents
        /\ \A j \in Intents : ChainInv(j)
        /\ ~heads /\ i \in known /\ EventAppended(i, e) /\ nextId' = nextId + 1
        /\ known' = known /\ head' = head /\ since' = since /\ heads' = heads /\ call' = call
        /\ born' = born /\ erased' = erased /\ harmed' = harmed /\ commits' = commits
        /\ unrecorded' = unrecorded /\ uncovered' = uncovered /\ damage' = damage
    BY DEF EvidenceInv, TypeOK, LegacyAppend, EventAppended, settings, history
  <1>1. e \in Event
    BY <1>0, NewEventFacts
  <1>2. /\ \A n \in DOMAIN chain'[i] : EventInv(i, chain[i][n])'
        /\ ChainVerifies(i, TRUE) => ChainVerifies(i, TRUE)'
        /\ WrittenInv(i)'
    BY <1>0, AppendedEvents
  <1> HIDE DEF e
  <1>3. /\ chain' \in [Intents -> Seq(Event)] /\ written' \in [Intents -> Seq(Event)]
        /\ \A j \in Intents \ {i} : chain'[j] = chain[j] /\ written'[j] = written[j]
        /\ chain'[i] # <<>>
    BY <1>0, <1>1, AppendedSequences
  <1>4. TypeOK'
    <2>1. nextId' \in Nat /\ since' \in Nat
      BY <1>0
    <2> QED
      BY <1>0, <1>3, <2>1 DEF TypeOK
  <1>5. ASSUME NEW j \in Intents, j # i
        PROVE  ChainInv(j)'
    <2>1. Untouched(j) /\ SameBuild
      BY <1>0, <1>3, <1>5 DEF Untouched, SameBuild
    <2> QED
      BY <1>0, <2>1, ChainFrame
  <1>6. ChainInv(i)'
    <2>1. head'[i] = NoHead /\ call'[i] = NoCall /\ i \notin born' /\ commits'[i] = {}
      BY <1>0, LegacyFacts
    <2>2. i \notin harmed' => UnharmedInv(i)'
      BY <1>0, <1>2, <2>1 DEF ChainInv, UnharmedInv
    <2> QED
      BY <1>0, <1>2, <1>3, <2>1, <2>2, WrittenFrame DEF ChainInv
  <1>7. nextId' >= 1 /\ (since' <= nextId' \/ uncovered' = Intents)
    BY <1>0
  <1> QED
    BY <1>0, <1>4, <1>5, <1>6, <1>7 DEF EvidenceInv, MovesRecorded

\* Every process is replaced by one of a build that writes heads.
LEMMA UpgradeStep ==
  ASSUME EvidenceInv, Upgrade
  PROVE  EvidenceInv'
  <1>0. /\ TypeOK /\ \A j \in Intents : ChainInv(j)
        /\ heads' = TRUE /\ known' = known /\ erased' = erased
        /\ chain' = chain /\ head' = head /\ nextId' = nextId /\ written' = written
        /\ since' = since /\ call' = call /\ born' = born /\ commits' = commits
        /\ harmed' = harmed /\ unrecorded' = unrecorded /\ uncovered' = uncovered /\ damage' = damage
    BY DEF EvidenceInv, Upgrade, rows, history
  <1>1. TypeOK'
    BY <1>0 DEF TypeOK
  <1>2. ASSUME NEW j \in Intents
        PROVE  ChainInv(j)'
    <2>1. \A n \in DOMAIN chain[j] : EventInv(j, chain[j][n])'
      BY <1>0 DEF ChainInv, EventInv
    <2>2. /\ ChainVerifies(j, TRUE)' <=> ChainVerifies(j, TRUE)
          /\ HeadMatches(j)' <=> HeadMatches(j)
          /\ Appendable(j, TRUE)' <=> Appendable(j, TRUE)
      BY <1>0 DEF ChainVerifies, HeadMatches, Appendable, LastHash
    <2>3. UnharmedInv(j) => UnharmedInv(j)'
      BY <1>0, <2>2 DEF UnharmedInv
    <2>4. BornInv(j) => BornInv(j)'
      BY <1>0 DEF BornInv
    <2> QED
      BY <1>0, <2>1, <2>3, <2>4, WrittenFrame DEF ChainInv
  <1> QED
    BY <1>0, <1>1, <1>2 DEF EvidenceInv, MovesRecorded

\* The mark is not above the registration of any chain that still begins with one, and
\* never above the next id.
LEMMA HeadsSinceFacts ==
  ASSUME EvidenceInv
  PROVE  /\ HeadsSince \in 0 .. nextId
         /\ \A i \in Intents : chain[i] # <<>> /\ chain[i][1].type = "intent_registered" =>
              HeadsSince <= chain[i][1].id
  <1>0. /\ TypeOK /\ nextId \in Nat /\ nextId >= 1 /\ \A i \in Intents : ChainInv(i)
    BY DEF EvidenceInv, TypeOK
  <1>1. \A i \in Intents : \A n \in DOMAIN chain[i] : chain[i][n].id \in 1 .. nextId - 1
    BY <1>0 DEF ChainInv, EventInv
  <1>2. \A i \in Intents : chain[i] # <<>> => 1 \in DOMAIN chain[i]
    BY <1>0, RowTypes, EmptyOrLast
  <1>3. RegisteredFirst \subseteq 1 .. nextId - 1
    BY <1>1, <1>2 DEF RegisteredFirst
  <1>4. CASE RegisteredFirst # {}
    <2>1. RegisteredFirst \in SUBSET Nat
      BY <1>3
    <2>2. HeadsSince \in RegisteredFirst /\ \A y \in RegisteredFirst : HeadsSince <= y
      BY <1>4, <2>1, MinIn DEF HeadsSince
    <2>3. HeadsSince \in 0 .. nextId
      BY <1>0, <1>3, <2>2
    <2> QED
      BY <2>2, <2>3 DEF RegisteredFirst
  <1>5. CASE RegisteredFirst = {}
    <2> DEFINE ids == AllIds \cup {0}
    <2>1. AllIds \subseteq 1 .. nextId - 1
      BY <1>1 DEF AllIds
    <2>2. ids \subseteq 0 .. nextId - 1 /\ ids # {}
      BY <1>0, <2>1
    <2>3. HeadsSince = Max(ids) + 1
      BY <1>5 DEF HeadsSince
    <2> HIDE DEF ids
    <2>4. Max(ids) \in 0 .. nextId - 1
      <3>1. IsFiniteSet(0 .. nextId - 1)
        BY <1>0, FS_Interval
      <3>2. ids \in SUBSET Nat
        BY <2>2
      <3>3. Max(ids) \in ids
        <4>1. IsFiniteSet(ids)
          BY <2>2, <3>1, FS_Subset
        <4> QED
          BY <2>2, <3>2, <4>1, MaxOf
      <3> QED
        BY <2>2, <3>3
    <2>5. HeadsSince \in 0 .. nextId
      BY <1>0, <2>3, <2>4
    <2> QED
      BY <1>5, <2>5 DEF RegisteredFirst
  <1> QED
    BY <1>4, <1>5

\* _bind_heads_since
LEMMA OpenStep ==
  ASSUME EvidenceInv, Open
  PROVE  EvidenceInv'
  <1>0. /\ TypeOK /\ \A j \in Intents : ChainInv(j)
        /\ heads /\ since' = HeadsSince
        /\ heads' = heads /\ known' = known /\ erased' = erased
        /\ chain' = chain /\ head' = head /\ nextId' = nextId /\ written' = written
        /\ call' = call /\ born' = born /\ commits' = commits
        /\ harmed' = harmed /\ unrecorded' = unrecorded /\ uncovered' = uncovered /\ damage' = damage
    BY DEF EvidenceInv, Open, rows, history
  <1>a. since' \in Nat /\ since' <= nextId'
    BY <1>0, HeadsSinceFacts DEF TypeOK
  <1>1. TypeOK'
    BY <1>0, <1>a DEF TypeOK
  <1>2. ASSUME NEW j \in Intents
        PROVE  ChainInv(j)'
    <2>1. \A n \in DOMAIN chain[j] : EventInv(j, chain[j][n])'
      BY <1>0 DEF ChainInv, EventInv
    <2>2. /\ ChainVerifies(j, TRUE)' <=> ChainVerifies(j, TRUE)
          /\ HeadMatches(j)' <=> HeadMatches(j)
          /\ Appendable(j, TRUE)' <=> Appendable(j, TRUE)
      BY <1>0 DEF ChainVerifies, HeadMatches, Appendable, LastHash
    <2>3. UnharmedInv(j) => UnharmedInv(j)'
      BY <1>0, <2>2 DEF UnharmedInv
    <2>4. ASSUME BornInv(j) PROVE BornInv(j)'
      <3>1. chain[j] \in Seq(Event) /\ chain[j][1] = chain'[j][1]
        BY <1>0, RowTypes
      <3>2. \A n \in DOMAIN chain[j] : chain[j] # <<>>
        BY <3>1
      <3>3. chain[j] # <<>> /\ chain[j][1].type = "intent_registered" => chain[j][1].id >= HeadsSince
        <4>1. chain[j] # <<>> => chain[j][1].id \in Nat
          <5>1. chain[j] # <<>> => 1 \in DOMAIN chain[j]
            BY <3>1, EmptyOrLast
          <5> QED
            BY <1>0, <5>1, RowTypes DEF Event
        <4>2. HeadsSince \in Nat
          BY HeadsSinceFacts
        <4> QED
          BY <4>1, <4>2, HeadsSinceFacts
      <3> QED
        BY <1>0, <2>4, <3>2, <3>3 DEF BornInv, Sound
    <2> QED
      BY <1>0, <2>1, <2>3, <2>4, WrittenFrame DEF ChainInv
  <1> QED
    BY <1>0, <1>a, <1>1, <1>2 DEF EvidenceInv, MovesRecorded

\* A chain that verifies begins with an event under the key that has no predecessor.
LEMMA VerifiedBeginning ==
  ASSUME TypeOK, NEW i \in Intents, chain[i] # <<>>, ChainVerifies(i, TRUE)
  PROVE  1 \in DOMAIN chain[i] /\ Sound(chain[i][1]) /\ chain[i][1].prev = NoHash
  <1>1. 1 \in DOMAIN chain[i]
    BY RowTypes, EmptyOrLast
  <1> QED
    BY <1>1 DEF ChainVerifies, Sound

\* rebuild_evidence_head: a born chain is never taken for one that predates heads.
LEMMA RebuildStep ==
  ASSUME EvidenceInv, NEW i \in Intents, RebuildEvidenceHead(i)
  PROVE  EvidenceInv'
  <1> DEFINE h == [seq |-> Len(chain[i]) - 1, hash |-> LastHash(i), signed |-> TRUE]
  <1>0. /\ TypeOK /\ \A j \in Intents : ChainInv(j) /\ nextId \in Nat
        /\ since # 0 /\ i \in known /\ chain[i] # <<>> /\ ~BornWithHead(i)
        /\ ChainVerifies(i, TRUE) /\ head' = [head EXCEPT ![i] = h]
        /\ commits' = [commits EXCEPT ![i] = @ \cup {h}] /\ uncovered' = uncovered
        /\ known' = known /\ chain' = chain /\ nextId' = nextId /\ written' = written
        /\ since' = since /\ heads' = heads /\ call' = call /\ born' = born
        /\ erased' = erased /\ harmed' = harmed /\ unrecorded' = unrecorded /\ damage' = damage
    BY DEF EvidenceInv, TypeOK, RebuildEvidenceHead, Committed, settings, history
  <1>1. LastHash(i) \in Hash /\ Len(chain[i]) \in Nat /\ Len(chain[i]) > 0
    BY <1>0, LastHashFacts, RowTypes, EmptyOrLast
  <1>2. h \in HeadRow /\ h # NoHead
    BY <1>1 DEF HeadRow, NoHead
  <1>3. /\ head' \in [Intents -> HeadRow \cup {NoHead}] /\ head'[i] = h
        /\ \A j \in Intents \ {i} : head'[j] = head[j]
    BY <1>0, <1>2 DEF TypeOK
  <1>a. /\ commits' \in [Intents -> SUBSET HeadRow] /\ h \in commits'[i]
        /\ \A j \in Intents \ {i} : commits'[j] = commits[j]
    BY <1>0, <1>2 DEF TypeOK
  <1>4. TypeOK'
    BY <1>0, <1>3, <1>a DEF TypeOK
  <1>5. ASSUME NEW j \in Intents, j # i
        PROVE  ChainInv(j)'
    <2>1. Untouched(j) /\ SameBuild
      BY <1>0, <1>3, <1>a, <1>5 DEF Untouched, SameBuild
    <2> QED
      BY <1>0, <2>1, ChainFrame
  <1>6. ChainInv(i)'
    <2>1. heads
      BY <1>0 DEF EvidenceInv
    <2>2. LastHash(i)' = LastHash(i) /\ HeadMatches(i)'
      BY <1>0, <1>2, <1>3 DEF LastHash, HeadMatches
    <2>3. ChainVerifies(i, TRUE)'
      BY <1>0 DEF ChainVerifies
    <2>4. UnharmedInv(i)'
      BY <1>0, <2>2, <2>3 DEF UnharmedInv, Appendable
    <2>5. i \notin born \ (erased \cup uncovered)
      <3>1. 1 \in DOMAIN chain[i] /\ Sound(chain[i][1]) /\ chain[i][1].prev = NoHash
        BY <1>0, VerifiedBeginning
      <3> QED
        BY <1>0, <3>1 DEF ChainInv, BornInv, BornWithHead
    <2>6. \A n \in DOMAIN chain[i] : EventInv(i, chain[i][n])'
      BY <1>0 DEF ChainInv, EventInv
    <2> QED
      BY <1>0, <1>3, <1>a, <2>1, <2>4, <2>5, <2>6, WrittenFrame DEF ChainInv
  <1> QED
    BY <1>0, <1>4, <1>5, <1>6 DEF EvidenceInv, MovesRecorded

-----------------------------------------------------------------------------
(* Damage *)

\* An alteration, rehashed or not, is not under the key.
LEMMA AlteredFacts ==
  ASSUME NEW i, NEW e \in Event, EventInv(i, e), NEW rehashed \in BOOLEAN,
         NEW f, f = Altered(e, rehashed)
  PROVE  f \in Event /\ EventInv(i, f) /\ ~Sound(f)
  <1>0. /\ e.id \in Nat /\ e.prev \in Seq(Types) /\ e.hash \in Seq(Types) /\ e.mac \in Seq(Types)
        /\ "altered" \in Types
    BY DEF Event, Hash, Types
  <1> DEFINE h == Append(e.prev, "altered")
  <1>1. h \in Seq(Types) /\ h # <<>> /\ Len(h) = Len(e.prev) + 1 /\ h[Len(e.prev) + 1] = "altered"
    BY <1>0, AppendFacts
  <1>2. h[Len(h)] = "altered"
    <2> HIDE DEF h
    <2> QED
      BY <1>1
  <1> HIDE DEF h
  <1>3. f = [e EXCEPT !.type = "altered", !.hash = IF rehashed THEN h ELSE e.hash]
    BY DEF Altered, h
  <1>4. /\ f.id = e.id /\ f.type = "altered" /\ f.prev = e.prev /\ f.mac = e.mac
        /\ f.hash = IF rehashed THEN h ELSE e.hash
    BY <1>3 DEF Event
  <1>5. f \in Event
    <2>1. (IF rehashed THEN h ELSE e.hash) \in Hash
      BY <1>0, <1>1 DEF Hash
    <2> QED
      BY <1>0, <1>3, <2>1 DEF Event
  <1>6. EventInv(i, f)
    BY <1>1, <1>4 DEF EventInv, NoHash
  <1>7. ~Sound(f)
    <2> SUFFICES ASSUME Sound(f) PROVE FALSE
      OBVIOUS
    <2>1. e.mac = h
      BY <1>4 DEF Sound, h
    <2> QED
      BY <1>1, <1>2, <2>1 DEF EventInv, NoHash
  <1> QED
    BY <1>5, <1>6, <1>7

\* What damage leaves of a chain: each event was there, no earlier, or is an alteration.
Decayed(i) ==
  \A n \in DOMAIN chain'[i] : \E m \in DOMAIN chain[i] :
    /\ n <= m
    /\ \/ chain'[i][n] = chain[i][m]
       \/ \E rehashed \in BOOLEAN : chain'[i][n] = Altered(chain[i][m], rehashed)

\* Whatever rows of an intent are damaged, the invariant is kept.
LEMMA DamagedStep ==
  ASSUME EvidenceInv, NEW i \in Intents, Damaged(i), uncovered' = uncovered, Decayed(i),
         chain[i] # <<>> \/ head[i] # NoHead,
         chain' \in [Intents -> Seq(Event)], head' \in [Intents -> HeadRow \cup {NoHead}],
         \A j \in Intents \ {i} : chain'[j] = chain[j] /\ head'[j] = head[j],
         head'[i] = head[i] \/ head'[i] = NoHead \/ (head[i] # NoHead /\ ~head'[i].signed)
  PROVE  EvidenceInv'
  <1>0. /\ TypeOK /\ nextId \in Nat /\ damage \in Nat /\ \A j \in Intents : ChainInv(j)
        /\ damage' = damage + 1 /\ harmed' = harmed \cup {i}
        /\ erased' = IF chain'[i] = <<>> /\ head'[i] = NoHead THEN erased \cup {i} ELSE erased
        /\ known' = known /\ nextId' = nextId /\ written' = written /\ commits' = commits
        /\ since' = since /\ heads' = heads /\ call' = call /\ born' = born
        /\ unrecorded' = unrecorded
    BY DEF EvidenceInv, TypeOK, Damaged, settings
  <1>1. i \in known
    BY <1>0 DEF ChainInv
  <1>2. TypeOK'
    <2>1. damage' \in Nat
      BY <1>0
    <2>2. erased' \subseteq known' /\ harmed' \subseteq known'
      BY <1>0, <1>1 DEF TypeOK
    <2> QED
      BY <1>0, <2>1, <2>2 DEF TypeOK
  <1>3. ASSUME NEW j \in Intents, j # i
        PROVE  ChainInv(j)'
    <2>1. Untouched(j) /\ SameBuild
      BY <1>0, <1>3 DEF Untouched, SameBuild
    <2> QED
      BY <1>0, <2>1, ChainFrame
  <1>4. ASSUME NEW n \in DOMAIN chain'[i]
        PROVE  /\ EventInv(i, chain'[i][n])
               /\ Sound(chain'[i][n]) => \E m \in DOMAIN chain[i] : n <= m /\ chain'[i][n] = chain[i][m]
    <2>1. PICK m \in DOMAIN chain[i] :
            /\ n <= m
            /\ \/ chain'[i][n] = chain[i][m]
               \/ \E rehashed \in BOOLEAN : chain'[i][n] = Altered(chain[i][m], rehashed)
      BY DEF Decayed
    <2>2. EventInv(i, chain[i][m]) /\ chain[i][m] \in Event
      BY <1>0, RowTypes DEF ChainInv
    <2>3. CASE chain'[i][n] = chain[i][m]
      BY <2>1, <2>2, <2>3
    <2>4. CASE \E rehashed \in BOOLEAN : chain'[i][n] = Altered(chain[i][m], rehashed)
      BY <2>2, <2>4, AlteredFacts
    <2> QED
      BY <2>1, <2>3, <2>4
  <1>5. ChainInv(i)'
    <2>1. \A n \in DOMAIN chain'[i] : EventInv(i, chain[i][n])'
      BY <1>0, <1>4 DEF EventInv
    <2>2. chain'[i] = <<>> /\ head'[i] = NoHead => i \in erased'
      BY <1>0
    <2>3. ~heads' => /\ head'[i] = NoHead /\ call'[i] = NoCall /\ i \notin born'
                     /\ commits'[i] = {}
      BY <1>0 DEF ChainInv
    <2>a. head'[i] # NoHead /\ head'[i].signed => head'[i] \in commits'[i]
      BY <1>0 DEF ChainInv
    <2>4. ASSUME i \in born' \ (erased' \cup uncovered')
          PROVE  BornInv(i)'
      <3>1. i \in born \ (erased \cup uncovered) /\ BornInv(i)
        BY <1>0, <2>4 DEF ChainInv
      <3>2. ASSUME NEW n \in DOMAIN chain'[i], Sound(chain'[i][n]), chain'[i][n].prev = NoHash
            PROVE  n = 1 /\ chain'[i][1].type = "intent_registered" /\ chain'[i][1].id >= since
        <4>1. PICK m \in DOMAIN chain[i] : n <= m /\ chain'[i][n] = chain[i][m]
          BY <1>4, <3>2
        <4>2. m = 1 /\ chain[i][1].type = "intent_registered" /\ chain[i][1].id >= since
          BY <3>1, <3>2, <4>1 DEF BornInv
        <4>3. n = 1
          <5>1. chain'[i] \in Seq(Event)
            OBVIOUS
          <5> QED
            BY <4>1, <4>2, <5>1
        <4> QED
          BY <4>1, <4>2, <4>3
      <3>3. head'[i] # NoHead /\ head'[i].signed => head'[i] = head[i]
        OBVIOUS
      <3> QED
        BY <1>0, <3>1, <3>2, <3>3 DEF BornInv, Sound
    <2> QED
      BY <1>0, <1>1, <2>1, <2>2, <2>3, <2>a, <2>4, WrittenFrame DEF ChainInv
  <1> QED
    BY <1>0, <1>2, <1>3, <1>5 DEF EvidenceInv, MovesRecorded

\* An event that is lost leaves the others in order.
LEMMA RemovedFacts ==
  ASSUME NEW T, NEW s \in Seq(T), NEW n \in DOMAIN s, NEW r, r = RemoveAt(s, n)
  PROVE  /\ r \in Seq(T)
         /\ \A k \in DOMAIN r : \E m \in DOMAIN s : k <= m /\ r[k] = s[m]
  <1> DEFINE a == SubSeq(s, 1, n - 1)
             b == SubSeq(s, n + 1, Len(s))
  <1>0. Len(s) \in Nat /\ n \in 1 .. Len(s) /\ DOMAIN s = 1 .. Len(s)
    OBVIOUS
  <1>1. a \in Seq(T) /\ Len(a) = n - 1 /\ \A k \in 1 .. n - 1 : a[k] = s[k]
    BY <1>0
  <1>2. b \in Seq(T) /\ Len(b) = Len(s) - n /\ \A k \in 1 .. Len(s) - n : b[k] = s[n + k]
    BY <1>0
  <1>3. r = a \o b
    BY DEF RemoveAt
  <1> HIDE DEF a, b
  <1>4. /\ r \in Seq(T) /\ Len(r) = Len(s) - 1 /\ DOMAIN r = 1 .. Len(s) - 1
        /\ \A k \in 1 .. Len(s) - 1 : r[k] = IF k <= n - 1 THEN a[k] ELSE b[k - (n - 1)]
    <2>0. a \in Seq(T) /\ b \in Seq(T)
      BY <1>1, <1>2
    <2>1. /\ r \in Seq(T) /\ Len(r) = Len(a) + Len(b)
          /\ \A k \in 1 .. Len(a) + Len(b) : r[k] = IF k <= Len(a) THEN a[k] ELSE b[k - Len(a)]
      BY <1>3, <2>0
    <2>2. Len(a) + Len(b) = Len(s) - 1 /\ Len(a) = n - 1
      BY <1>0, <1>1, <1>2
    <2>3. DOMAIN r = 1 .. Len(r)
      BY <2>1
    <2> QED
      BY <2>1, <2>2, <2>3
  <1>5. ASSUME NEW k \in DOMAIN r
        PROVE  \E m \in DOMAIN s : k <= m /\ r[k] = s[m]
    <2>1. CASE k <= n - 1
      BY <1>0, <1>1, <1>4, <2>1
    <2>2. CASE ~(k <= n - 1)
      <3>1. k - (n - 1) \in 1 .. Len(s) - n /\ n + (k - (n - 1)) = k + 1
        BY <1>0, <1>4, <2>2
      <3>2. r[k] = s[k + 1] /\ k + 1 \in DOMAIN s /\ k <= k + 1
        BY <1>0, <1>2, <1>4, <2>2, <3>1
      <3> QED
        BY <3>2
    <2> QED
      BY <2>1, <2>2
  <1> QED
    BY <1>4, <1>5

\* An event is lost or altered.
LEMMA EventDamagedStep ==
  ASSUME EvidenceInv, NEW i \in Intents, EventDamaged(i)
  PROVE  EvidenceInv'
  <1>0. TypeOK /\ chain[i] \in Seq(Event) /\ chain \in [Intents -> Seq(Event)] /\ ChainInv(i)
    BY DEF EvidenceInv, TypeOK
  <1>1. head' = head /\ Damaged(i) /\ uncovered' = uncovered
    BY DEF EventDamaged
  <1>2. PICK n \in DOMAIN chain[i] :
          \/ chain' = [chain EXCEPT ![i] = RemoveAt(@, n)]
          \/ \E rehashed \in BOOLEAN : chain' = [chain EXCEPT ![i][n] = Altered(@, rehashed)]
    BY DEF EventDamaged
  <1>3. /\ chain' \in [Intents -> Seq(Event)] /\ Decayed(i)
        /\ \A j \in Intents \ {i} : chain'[j] = chain[j]
    <2>1. CASE chain' = [chain EXCEPT ![i] = RemoveAt(@, n)]
      <3> DEFINE r == RemoveAt(chain[i], n)
      <3>1. r \in Seq(Event) /\ \A k \in DOMAIN r : \E m \in DOMAIN chain[i] : k <= m /\ r[k] = chain[i][m]
        BY <1>0, RemovedFacts
      <3> HIDE DEF r
      <3>2. chain' = [chain EXCEPT ![i] = r]
        BY <2>1 DEF r
      <3>3. chain'[i] = r
        BY <1>0, <3>2
      <3>4. Decayed(i)
        BY <3>1, <3>3 DEF Decayed
      <3> QED
        BY <1>0, <3>1, <3>2, <3>4
    <2>2. CASE \E rehashed \in BOOLEAN : chain' = [chain EXCEPT ![i][n] = Altered(@, rehashed)]
      <3>1. PICK rehashed \in BOOLEAN : chain' = [chain EXCEPT ![i][n] = Altered(@, rehashed)]
        BY <2>2
      <3> DEFINE f == Altered(chain[i][n], rehashed)
                 r == [chain[i] EXCEPT ![n] = f]
      <3>2. f \in Event
        <4>1. chain[i][n] \in Event /\ EventInv(i, chain[i][n])
          BY <1>0, RowTypes DEF ChainInv
        <4> QED
          BY <4>1, AlteredFacts
      <3>3. chain' = [chain EXCEPT ![i] = r]
        BY <3>1
      <3> HIDE DEF f
      <3>4. r \in Seq(Event) /\ DOMAIN r = DOMAIN chain[i] /\ r[n] = f
            /\ \A k \in DOMAIN chain[i] : k # n => r[k] = chain[i][k]
        BY <1>0, <3>2
      <3> HIDE DEF r
      <3>5. chain'[i] = r
        BY <1>0, <3>3
      <3>6. Decayed(i)
        <4>1. ASSUME NEW k \in DOMAIN chain'[i]
              PROVE  /\ k \in DOMAIN chain[i] /\ k <= k
                     /\ \/ chain'[i][k] = chain[i][k]
                        \/ chain'[i][k] = Altered(chain[i][k], rehashed)
          <5>1. k \in DOMAIN chain[i]
            BY <3>4, <3>5
          <5>2. k <= k
            BY <1>0, <5>1
          <5> QED
            BY <3>4, <3>5, <5>1, <5>2 DEF f
        <4> QED
          BY <4>1 DEF Decayed
      <3> QED
        BY <1>0, <3>3, <3>4, <3>6
    <2> QED
      BY <1>2, <2>1, <2>2
  <1>4. chain[i] # <<>> /\ head' \in [Intents -> HeadRow \cup {NoHead}]
    BY <1>0, <1>1, <1>2 DEF TypeOK
  <1> QED
    BY <1>1, <1>3, <1>4, DamagedStep

\* The head is lost or rewritten without the key.
LEMMA HeadDamagedStep ==
  ASSUME EvidenceInv, NEW i \in Intents, HeadDamaged(i)
  PROVE  EvidenceInv'
  <1>0. /\ TypeOK /\ chain[i] \in Seq(Event) /\ chain \in [Intents -> Seq(Event)] /\ ChainInv(i)
        /\ head \in [Intents -> HeadRow \cup {NoHead}]
        /\ head[i] # NoHead /\ chain' = chain /\ Damaged(i) /\ uncovered' = uncovered
    BY DEF EvidenceInv, TypeOK, HeadDamaged
  <1> DEFINE h == [seq |-> Len(chain[i]) - 1, hash |-> LastHash(i), signed |-> FALSE]
  <1>1. \/ head' = [head EXCEPT ![i] = NoHead]
        \/ chain[i] # <<>> /\ head' = [head EXCEPT ![i] = h]
    BY DEF HeadDamaged
  <1>2. chain[i] # <<>> => h \in HeadRow /\ ~h.signed
    <2>1. LastHash(i) \in Hash
      BY <1>0, LastHashFacts
    <2>2. chain[i] # <<>> => Len(chain[i]) \in Nat /\ Len(chain[i]) > 0
      BY <1>0, EmptyOrLast
    <2> QED
      BY <2>1, <2>2 DEF HeadRow
  <1> HIDE DEF h
  <1>3. /\ head' \in [Intents -> HeadRow \cup {NoHead}]
        /\ \A j \in Intents \ {i} : head'[j] = head[j]
        /\ head'[i] = NoHead \/ ~head'[i].signed
    <2>1. PICK v \in HeadRow \cup {NoHead} :
            head' = [head EXCEPT ![i] = v] /\ (v = NoHead \/ ~v.signed)
      BY <1>1, <1>2
    <2>2. head'[i] = v
      BY <1>0, <2>1
    <2> QED
      BY <1>0, <2>1, <2>2
  <1>4. Decayed(i)
    <2>1. \A n \in DOMAIN chain[i] : n <= n
      BY <1>0
    <2> QED
      BY <1>0, <2>1 DEF Decayed
  <1>5. \A j \in Intents \ {i} : chain'[j] = chain[j] /\ head'[j] = head[j]
    BY <1>0, <1>3
  <1>6. chain' \in [Intents -> Seq(Event)]
    BY <1>0
  <1> QED
    BY <1>0, <1>3, <1>4, <1>5, <1>6, DamagedStep

\* What is put back, and damage where something was, keep what is known of an intent of
\* which only the contents are claimed.
LEMMA PutBackStep ==
  ASSUME EvidenceInv, NEW i \in Intents, i \in known, Damaged(i), uncovered' = uncovered \cup {i},
         chain' \in [Intents -> Seq(Event)], head' \in [Intents -> HeadRow \cup {NoHead}],
         \A j \in Intents \ {i} : chain'[j] = chain[j] /\ head'[j] = head[j],
         head'[i] = head[i] \/ (head'[i] \in commits[i]),
         \A n \in DOMAIN chain'[i] : EventInv(i, chain[i][n])'
  PROVE  EvidenceInv'
  <1>0. /\ TypeOK /\ nextId \in Nat /\ damage \in Nat /\ \A j \in Intents : ChainInv(j)
        /\ damage' = damage + 1 /\ harmed' = harmed \cup {i}
        /\ erased' = IF chain'[i] = <<>> /\ head'[i] = NoHead THEN erased \cup {i} ELSE erased
        /\ known' = known /\ nextId' = nextId /\ written' = written /\ commits' = commits
        /\ since' = since /\ heads' = heads /\ call' = call /\ born' = born
        /\ unrecorded' = unrecorded
    BY DEF EvidenceInv, TypeOK, Damaged, settings
  <1>1. TypeOK'
    <2>1. damage' \in Nat
      BY <1>0
    <2>2. erased' \subseteq known' /\ harmed' \subseteq known' /\ uncovered' \subseteq Intents
      BY <1>0 DEF TypeOK
    <2> QED
      BY <1>0, <2>1, <2>2 DEF TypeOK
  <1>2. ASSUME NEW j \in Intents, j # i
        PROVE  ChainInv(j)'
    <2>1. Untouched(j) /\ SameBuild
      BY <1>0, <1>2 DEF Untouched, SameBuild
    <2> QED
      BY <1>0, <2>1, ChainFrame
  <1>3. ChainInv(i)'
    <2>1. chain'[i] = <<>> /\ head'[i] = NoHead => i \in erased'
      BY <1>0
    <2>2. ~heads' => /\ head'[i] = NoHead /\ call'[i] = NoCall /\ i \notin born'
                     /\ commits'[i] = {}
      BY <1>0 DEF ChainInv
    <2>3. head'[i] # NoHead /\ head'[i].signed => head'[i] \in commits'[i]
      BY <1>0 DEF ChainInv
    <2> QED
      BY <1>0, <2>1, <2>2, <2>3, WrittenFrame DEF ChainInv
  <1>4. since' <= nextId' \/ uncovered' = Intents
    <2>1. since <= nextId \/ uncovered = Intents
      BY DEF EvidenceInv
    <2> QED
      BY <1>0, <2>1
  <1>5. nextId' >= 1 /\ (~heads' => since' = 0)
    BY <1>0 DEF EvidenceInv
  <1>6. MovesRecorded'
    BY <1>0 DEF EvidenceInv, MovesRecorded
  <1> QED
    BY <1>1, <1>2, <1>3, <1>4, <1>5, <1>6 DEF EvidenceInv

\* A step that leaves the events and what was written of intent i.
LEMMA EventsStand ==
  ASSUME EvidenceInv, NEW i \in Intents, chain' = chain, written' = written, nextId' = nextId,
         uncovered \subseteq uncovered'
  PROVE  \A n \in DOMAIN chain'[i] : EventInv(i, chain[i][n])'
  <1>1. \A n \in DOMAIN chain[i] : EventInv(i, chain[i][n])
    BY DEF EvidenceInv, ChainInv
  <1> QED
    BY <1>1 DEF EventInv

\* A head that was signed once is put back.
LEMMA HeadPutBackStep ==
  ASSUME EvidenceInv, NEW i \in Intents, HeadPutBack(i)
  PROVE  EvidenceInv'
  <1>1. /\ chain' = chain /\ Damaged(i) /\ uncovered' = uncovered \cup {i}
        /\ written' = written /\ nextId' = nextId
    BY DEF HeadPutBack, Damaged
  <1>2. PICK h \in commits[i] : head' = [head EXCEPT ![i] = h]
    BY DEF HeadPutBack
  <1>3. TypeOK /\ h \in HeadRow /\ i \in known
    BY <1>2 DEF EvidenceInv, TypeOK, ChainInv
  <1>4. /\ head' \in [Intents -> HeadRow \cup {NoHead}] /\ head'[i] = h
        /\ \A j \in Intents \ {i} : head'[j] = head[j]
    BY <1>2, <1>3 DEF TypeOK
  <1>5. /\ chain' \in [Intents -> Seq(Event)]
        /\ \A j \in Intents \ {i} : chain'[j] = chain[j] /\ head'[j] = head[j]
    BY <1>1, <1>3, <1>4 DEF TypeOK
  <1>6. \A n \in DOMAIN chain'[i] : EventInv(i, chain[i][n])'
    BY <1>1, EventsStand
  <1> QED
    BY <1>1, <1>2, <1>3, <1>4, <1>5, <1>6, PutBackStep

\* A sequence with an element put in holds that element and its own.
LEMMA InsertedFacts ==
  ASSUME NEW T, NEW s \in Seq(T), NEW n \in 1 .. Len(s) + 1, NEW x \in T, NEW r, r = InsertAt(s, n, x)
  PROVE  /\ r \in Seq(T)
         /\ \A k \in DOMAIN r : r[k] = x \/ \E m \in DOMAIN s : r[k] = s[m]
  <1> DEFINE a == SubSeq(s, 1, n - 1)
             b == SubSeq(s, n, Len(s))
             c == a \o <<x>>
  <1>0. Len(s) \in Nat /\ n \in Nat /\ n >= 1 /\ n <= Len(s) + 1 /\ DOMAIN s = 1 .. Len(s)
    OBVIOUS
  <1>1. a \in Seq(T) /\ Len(a) = n - 1 /\ \A k \in 1 .. n - 1 : a[k] = s[k]
    BY <1>0
  <1>2. b \in Seq(T) /\ Len(b) = Len(s) - n + 1 /\ \A k \in 1 .. Len(s) - n + 1 : b[k] = s[n + k - 1]
    BY <1>0
  <1>3. r = c \o b
    BY DEF InsertAt
  <1> HIDE DEF a, b
  <1>4. /\ c \in Seq(T) /\ Len(c) = n
        /\ \A k \in 1 .. n : c[k] = IF k <= n - 1 THEN a[k] ELSE x
    <2>1. /\ c \in Seq(T) /\ Len(c) = Len(a) + 1
          /\ \A k \in 1 .. Len(a) + 1 : c[k] = IF k <= Len(a) THEN a[k] ELSE x
      BY <1>1
    <2>2. Len(a) + 1 = n /\ Len(a) = n - 1
      BY <1>0, <1>1
    <2> HIDE DEF c
    <2> QED
      BY <2>1, <2>2
  <1> HIDE DEF c
  <1>5. /\ r \in Seq(T) /\ DOMAIN r = 1 .. Len(s) + 1
        /\ \A k \in 1 .. Len(s) + 1 : r[k] = IF k <= n THEN c[k] ELSE b[k - n]
    <2>0. c \in Seq(T) /\ b \in Seq(T)
      BY <1>2, <1>4
    <2>1. /\ r \in Seq(T) /\ Len(r) = Len(c) + Len(b)
          /\ \A k \in 1 .. Len(c) + Len(b) : r[k] = IF k <= Len(c) THEN c[k] ELSE b[k - Len(c)]
      BY <1>3, <2>0
    <2>2. Len(c) + Len(b) = Len(s) + 1 /\ Len(c) = n
      BY <1>0, <1>2, <1>4
    <2>3. DOMAIN r = 1 .. Len(r)
      BY <2>1
    <2> QED
      BY <2>1, <2>2, <2>3
  <1>6. ASSUME NEW k \in DOMAIN r
        PROVE  r[k] = x \/ \E m \in DOMAIN s : r[k] = s[m]
    <2>1. CASE k <= n - 1
      BY <1>0, <1>1, <1>4, <1>5, <2>1
    <2>2. CASE k = n
      BY <1>0, <1>4, <1>5, <2>2
    <2>3. CASE k > n
      <3>1. k - n \in 1 .. Len(s) - n + 1 /\ n + (k - n) - 1 = k - 1 /\ k - 1 \in DOMAIN s
        <4>1. Len(s) \in Nat /\ k \in Nat /\ n \in Nat /\ k <= Len(s) + 1 /\ k > n /\ n >= 1
          BY <1>0, <1>5, <2>3
        <4>2. k - n \in 1 .. Len(s) - n + 1 /\ n + (k - n) - 1 = k - 1 /\ k - 1 \in 1 .. Len(s)
          BY <4>1
        <4> QED
          BY <1>0, <4>2
      <3>2. r[k] = b[k - n] /\ b[k - n] = s[k - 1]
        BY <1>0, <1>2, <1>5, <2>3, <3>1
      <3> QED
        BY <3>1, <3>2
    <2>4. k \in Nat /\ n \in Nat
      BY <1>0, <1>5
    <2> QED
      BY <2>1, <2>2, <2>3, <2>4
  <1> QED
    BY <1>5, <1>6

\* An event that was written and is put in says what it said, so nothing new is said.
LEMMA EventPutBackStep ==
  ASSUME EvidenceInv, NEW i \in Intents, EventPutBack(i)
  PROVE  EvidenceInv'
  <1>0. /\ TypeOK /\ chain[i] \in Seq(Event) /\ chain \in [Intents -> Seq(Event)] /\ ChainInv(i)
        /\ WrittenInv(i) /\ nextId \in Nat
    BY DEF EvidenceInv, TypeOK, ChainInv
  <1>1. /\ head' = head /\ Damaged(i) /\ uncovered' = uncovered \cup {i}
        /\ written' = written /\ nextId' = nextId
    BY DEF EventPutBack, Damaged
  <1>2. PICK m \in DOMAIN written[i], n \in 1 .. Len(chain[i]) + 1, k \in 1 .. nextId - 1 :
          chain' = [chain EXCEPT ![i] = InsertAt(@, n, [written[i][m] EXCEPT !.id = k])]
    BY DEF EventPutBack
  <1> DEFINE w == written[i][m]
             f == [w EXCEPT !.id = k]
             r == InsertAt(chain[i], n, f)
  <1>3. w \in Event /\ i \in known
    BY <1>0, <1>2, RowTypes DEF ChainInv
  <1>4. /\ f \in Event /\ f.id = k /\ f.type = w.type /\ f.prev = w.prev
        /\ f.hash = w.hash /\ f.mac = w.mac
    BY <1>2, <1>3 DEF Event
  <1>5. Content(f) = Content(w)
    BY <1>3 DEF Content, Event
  <1>6. w.hash # NoHash /\ (w.mac # NoHash => w.mac[Len(w.mac)] # "altered")
    BY <1>0, <1>2 DEF WrittenInv
  <1>7. ASSUME NEW g, g = f
        PROVE  EventInv(i, g)'
    <2>1. /\ g.id = k /\ g.hash = w.hash /\ g.mac = w.mac
          /\ Content(g) = Content(w) /\ i \in uncovered'
      BY <1>1, <1>4, <1>5, <1>7
    <2>2. written'[i][m] = w /\ m \in DOMAIN written'[i] /\ k \in 1 .. nextId' - 1
      BY <1>1, <1>2
    <2> HIDE DEF w, f
    <2> QED
      BY <1>6, <2>1, <2>2 DEF EventInv
  <1> HIDE DEF f
  <1>8. r \in Seq(Event) /\ \A p \in DOMAIN r : r[p] = f \/ \E q \in DOMAIN chain[i] : r[p] = chain[i][q]
    BY <1>0, <1>2, <1>4, InsertedFacts
  <1>9. chain' = [chain EXCEPT ![i] = r]
    BY <1>2 DEF f
  <1> HIDE DEF r
  <1>10. /\ chain' \in [Intents -> Seq(Event)] /\ chain'[i] = r
         /\ \A j \in Intents \ {i} : chain'[j] = chain[j] /\ head'[j] = head[j]
    BY <1>0, <1>1, <1>8, <1>9
  <1>11. ASSUME NEW q \in DOMAIN chain[i], NEW g, g = chain[i][q]
         PROVE  EventInv(i, g)'
    <2>1. EventInv(i, g)
      BY <1>0, <1>11 DEF ChainInv
    <2> QED
      BY <1>0, <1>1, <2>1, EventFrame
  <1>12. ASSUME NEW p \in DOMAIN r, NEW g, g = r[p]
         PROVE  EventInv(i, g)'
    BY <1>7, <1>8, <1>11, <1>12
  <1>13. \A p \in DOMAIN chain'[i] : EventInv(i, chain[i][p])'
    BY <1>10, <1>12 DEF EventInv
  <1>14. head' \in [Intents -> HeadRow \cup {NoHead}] /\ head'[i] = head[i]
    BY <1>0, <1>1 DEF TypeOK
  <1> QED
    BY <1>1, <1>3, <1>10, <1>13, <1>14, PutBackStep

\* heads_since is rewritten or lost: what depends on it is claimed of no intent any more.
LEMMA MarkRewrittenStep ==
  ASSUME EvidenceInv, MarkRewritten
  PROVE  EvidenceInv'
  <1>0. /\ TypeOK /\ \A j \in Intents : ChainInv(j)
        /\ since # 0 /\ since' \in 0 .. MaxId + 2 /\ damage' = damage + 1 /\ uncovered' = Intents
        /\ heads' = heads /\ known' = known /\ erased' = erased
        /\ chain' = chain /\ head' = head /\ nextId' = nextId /\ written' = written
        /\ call' = call /\ born' = born /\ commits' = commits
        /\ harmed' = harmed /\ unrecorded' = unrecorded
    BY DEF EvidenceInv, MarkRewritten, rows
  <1>1. TypeOK'
    <2>1. since' \in Nat /\ damage' \in Nat
      BY <1>0, EvidenceConstants DEF TypeOK
    <2> QED
      BY <1>0, <2>1 DEF TypeOK
  <1>2. ASSUME NEW j \in Intents
        PROVE  ChainInv(j)'
    <2>1. \A n \in DOMAIN chain'[j] : EventInv(j, chain[j][n])'
      <3>1. uncovered \subseteq uncovered'
        BY <1>0 DEF TypeOK
      <3> QED
        BY <1>0, <3>1, EventsStand
    <2>2. /\ ChainVerifies(j, TRUE)' <=> ChainVerifies(j, TRUE)
          /\ HeadMatches(j)' <=> HeadMatches(j)
          /\ Appendable(j, TRUE)' <=> Appendable(j, TRUE)
      BY <1>0 DEF ChainVerifies, HeadMatches, Appendable, LastHash
    <2>3. UnharmedInv(j) => UnharmedInv(j)'
      BY <1>0, <2>2 DEF UnharmedInv
    <2> QED
      BY <1>0, <2>1, <2>3, WrittenFrame DEF ChainInv
  <1>3. heads
    BY <1>0 DEF EvidenceInv
  <1> QED
    BY <1>0, <1>1, <1>2, <1>3 DEF EvidenceInv, MovesRecorded

-----------------------------------------------------------------------------
(* The theorems *)

\* A database without intents satisfies the invariant.
LEMMA EvidenceInit == Init => EvidenceInv
  <1> SUFFICES ASSUME Init PROVE EvidenceInv
    OBVIOUS
  <1>1. TypeOK
    <2>1. <<>> \in Seq(Event) /\ 0 \in Nat
      OBVIOUS
    <2>2. chain \in [Intents -> Seq(Event)] /\ written \in [Intents -> Seq(Event)]
      BY <2>1 DEF Init
    <2>3. /\ head \in [Intents -> HeadRow \cup {NoHead}] /\ call \in [Intents -> Call \cup {NoCall}]
          /\ commits \in [Intents -> SUBSET HeadRow]
      BY DEF Init
    <2>4. nextId \in Nat /\ since \in Nat /\ heads \in BOOLEAN /\ damage \in Nat
      BY <2>1 DEF Init
    <2>5. /\ known \subseteq Intents /\ born \subseteq known /\ erased \subseteq known
          /\ harmed \subseteq known /\ unrecorded \subseteq known /\ uncovered \subseteq Intents
      BY DEF Init
    <2> QED
      BY <2>2, <2>3, <2>4, <2>5 DEF TypeOK
  <1>2. ASSUME NEW i \in Intents
        PROVE  ChainInv(i)
    <2>1. /\ chain[i] = <<>> /\ written[i] = <<>> /\ head[i] = NoHead /\ call[i] = NoCall
          /\ commits[i] = {}
      BY DEF Init
    <2>2. UnharmedInv(i)
      BY <2>1 DEF UnharmedInv, ChainVerifies
    <2> QED
      BY <2>1, <2>2 DEF Init, ChainInv, WrittenInv
  <1> QED
    BY <1>1, <1>2 DEF Init, EvidenceInv, MovesRecorded

\* Every step of every actor keeps the invariant.
LEMMA EvidenceStep == EvidenceInv /\ [Next]_vars => EvidenceInv'
  <1> SUFFICES ASSUME EvidenceInv, [Next]_vars PROVE EvidenceInv'
    OBVIOUS
  <1>1. ASSUME NEW i \in Intents, CallStep(i) PROVE EvidenceInv'
    <2>1. \A keyed \in Keys : keyed \in BOOLEAN
      BY EvidenceConstants
    <2> QED
      BY <1>1, <2>1, RegisterStep, BeginCallStep, TransitionStep, AddEvidenceStep,
         AddEvidenceRefusedStep, EndCallStep DEF CallStep
  <1>2. ASSUME NEW i \in Intents,
               \/ LegacyRegister(i) \/ LegacyAppend(i)
               \/ RebuildEvidenceHead(i) \/ AdoptEmpty(i)
               \/ EventDamaged(i) \/ HeadDamaged(i) \/ HeadPutBack(i) \/ EventPutBack(i)
        PROVE  EvidenceInv'
    BY <1>2, LegacyRegisterStep, LegacyAppendStep, RebuildStep, AdoptEmptyStep,
       EventDamagedStep, HeadDamagedStep, HeadPutBackStep, EventPutBackStep
  <1>3. ASSUME UNCHANGED vars PROVE EvidenceInv'
    <2>1. /\ known' = known /\ chain' = chain /\ head' = head /\ nextId' = nextId
          /\ written' = written /\ commits' = commits /\ since' = since /\ heads' = heads
          /\ call' = call /\ born' = born /\ erased' = erased /\ harmed' = harmed
          /\ unrecorded' = unrecorded /\ uncovered' = uncovered /\ damage' = damage
      BY <1>3 DEF vars, rows, settings, history
    <2>2. TypeOK'
      BY <2>1 DEF EvidenceInv, TypeOK
    <2>3. \A j \in Intents : ChainInv(j)'
      <3>1. SameBuild /\ nextId \in Nat
        BY <2>1 DEF SameBuild, EvidenceInv, TypeOK
      <3>2. \A j \in Intents : Untouched(j)
        BY <2>1 DEF Untouched
      <3> QED
        BY <3>1, <3>2, ChainFrame DEF EvidenceInv
    <2> QED
      BY <2>1, <2>2, <2>3 DEF EvidenceInv, MovesRecorded
  <1> QED
    BY <1>1, <1>2, <1>3, UpgradeStep, OpenStep, MarkRewrittenStep DEF Next

\* Whatever is lost, altered, put back or rewritten, appended with or without the key,
\* adopted or rebuilt, the chains and their heads satisfy the invariant.
THEOREM EvidenceInvariant == Spec => []EvidenceInv
  BY EvidenceInit, EvidenceStep, PTL DEF Spec

\* What evidence_status answers, for the answers the properties are about.
LEMMA StatusAnswers ==
  ASSUME NEW i
  PROVE  /\ Status(i) = "ok" <=> /\ i \in known /\ ChainVerifies(i, TRUE) /\ head[i] # NoHead
                                 /\ chain[i] # <<>> /\ HeadMatches(i)
         /\ Status(i) = "head_missing" => /\ i \in known /\ ChainVerifies(i, TRUE)
                                          /\ chain[i] # <<>> /\ ~BornWithHead(i)
  BY DEF Status

\* The hash of the n-th event of a chain that verifies covers n events.
LEMMA HashesCount ==
  ASSUME TypeOK, NEW i \in Intents, ChainVerifies(i, TRUE)
  PROVE  \A n \in DOMAIN chain[i] : Len(chain[i][n].hash) = n
  <1> DEFINE Bad == {n \in DOMAIN chain[i] : Len(chain[i][n].hash) # n}
  <1> SUFFICES ASSUME Bad # {} PROVE FALSE
    OBVIOUS
  <1>0. DOMAIN chain[i] = 1 .. Len(chain[i]) /\ Len(chain[i]) \in Nat
    BY RowTypes
  <1> DEFINE n == Min(Bad)
  <1>1. n \in Bad /\ \A k \in Bad : n <= k
    <2>1. Bad \in SUBSET Nat
      BY <1>0
    <2> HIDE DEF Bad
    <2> QED
      BY <2>1, MinIn
  <1> HIDE DEF n
  <1>2. /\ n \in DOMAIN chain[i] /\ n \in Nat /\ n >= 1 /\ Len(chain[i][n].hash) # n
    BY <1>0, <1>1
  <1>3. /\ chain[i][n] \in Event
        /\ chain[i][n].prev = IF n = 1 THEN NoHash ELSE chain[i][n - 1].hash
        /\ chain[i][n].hash = Append(chain[i][n].prev, chain[i][n].type)
    BY <1>2, RowTypes DEF ChainVerifies
  <1>4. /\ Len(chain[i][n].prev) \in Nat
        /\ Len(chain[i][n].hash) = Len(chain[i][n].prev) + 1
    <2>1. chain[i][n].prev \in Seq(Types) /\ chain[i][n].type \in Types
      BY <1>3 DEF Event, Hash
    <2>2. Len(Append(chain[i][n].prev, chain[i][n].type)) = Len(chain[i][n].prev) + 1
      BY <2>1, AppendFacts
    <2> QED
      BY <1>3, <2>1, <2>2
  <1>5. CASE n = 1
    <2>1. Len(chain[i][n].prev) = 0
      BY <1>3, <1>5 DEF NoHash
    <2> QED
      BY <1>2, <1>4, <1>5, <2>1
  <1>6. CASE n # 1
    <2>1. n - 1 \in DOMAIN chain[i] /\ ~(n <= n - 1)
      BY <1>0, <1>2, <1>6
    <2>2. n - 1 \notin Bad
      <3> HIDE DEF Bad
      <3> QED
        BY <1>1, <2>1
    <2>3. Len(chain[i][n - 1].hash) = n - 1
      BY <2>1, <2>2
    <2>4. Len(chain[i][n].prev) = n - 1
      BY <1>3, <1>6, <2>3
    <2> QED
      BY <1>2, <1>4, <2>4
  <1> QED
    BY <1>5, <1>6

\* No event of a chain that verifies is an alteration.
LEMMA VerifiedUnaltered ==
  ASSUME TypeOK, NEW i \in Intents, ChainInv(i), ChainVerifies(i, TRUE), NEW n \in DOMAIN chain[i]
  PROVE  chain[i][n].type # "altered"
  <1> SUFFICES ASSUME chain[i][n].type = "altered" PROVE FALSE
    OBVIOUS
  <1>1. /\ chain[i][n].hash = Append(chain[i][n].prev, chain[i][n].type)
        /\ chain[i][n].mac = chain[i][n].hash
    BY DEF ChainVerifies
  <1>2. chain[i][n] \in Event /\ EventInv(i, chain[i][n])
    BY RowTypes DEF ChainInv
  <1> DEFINE p == chain[i][n].prev
             h == chain[i][n].mac
  <1>3. p \in Seq(Types) /\ "altered" \in Types /\ h = Append(p, "altered")
    BY <1>1, <1>2 DEF Event, Hash, Types
  <1>4. h # NoHash /\ h[Len(h)] # "altered"
    BY <1>1, <1>2 DEF EventInv
  <1> HIDE DEF p, h
  <1>5. Len(h) = Len(p) + 1 /\ h[Len(p) + 1] = "altered"
    BY <1>3, AppendFacts
  <1> QED
    BY <1>4, <1>5

\* What verifies was written and signed by the store, whatever was put back.
LEMMA VerifiedIsOurs ==
  ASSUME EvidenceInv, NEW i \in Intents, Status(i) = "ok"
  PROVE  /\ \A n \in DOMAIN chain[i] : \E m \in DOMAIN written[i] :
              Content(chain[i][n]) = Content(written[i][m])
         /\ \E h \in commits[i] : h.seq = Len(chain[i]) - 1 /\ h.hash = LastHash(i)
  <1>0. TypeOK /\ ChainInv(i)
    BY DEF EvidenceInv
  <1>1. ChainVerifies(i, TRUE) /\ HeadMatches(i)
    BY StatusAnswers
  <1>2. \A n \in DOMAIN chain[i] : chain[i][n].type # "altered" /\ EventInv(i, chain[i][n])
    BY <1>0, <1>1, VerifiedUnaltered DEF ChainInv
  <1>3. head[i] \in commits[i] /\ head[i].seq = Len(chain[i]) - 1 /\ head[i].hash = LastHash(i)
    BY <1>0, <1>1 DEF HeadMatches, ChainInv
  <1> QED
    BY <1>2, <1>3 DEF EventInv

\* A verifying chain under a signed head is all that was written: each of its events is
\* as it was written, at the place its hash counts.
LEMMA VerifiedIsComplete ==
  ASSUME EvidenceInv, NEW i \in Intents, i \in born \ (erased \cup uncovered), Status(i) = "ok"
  PROVE  chain[i] = written[i]
  <1>0. TypeOK /\ ChainInv(i) /\ BornInv(i)
    BY DEF EvidenceInv, ChainInv
  <1>1. ChainVerifies(i, TRUE) /\ head[i] # NoHead /\ HeadMatches(i)
    BY StatusAnswers
  <1>2. /\ chain[i] \in Seq(Event) /\ written[i] \in Seq(Event)
        /\ Len(chain[i]) \in Nat /\ Len(written[i]) \in Nat
        /\ DOMAIN chain[i] = 1 .. Len(chain[i]) /\ DOMAIN written[i] = 1 .. Len(written[i])
    BY <1>0, RowTypes
  <1>3. /\ Len(chain[i]) - 1 = Len(written[i]) - 1
        /\ \A m \in DOMAIN written[i] : Len(written[i][m].hash) = m
    BY <1>0, <1>1 DEF HeadMatches, BornInv
  <1>4. Len(chain[i]) = Len(written[i])
    BY <1>2, <1>3
  <1>5. ASSUME NEW n \in DOMAIN chain[i]
        PROVE  chain[i][n] = written[i][n]
    <2>1. /\ chain[i][n].hash = Append(chain[i][n].prev, chain[i][n].type)
          /\ chain[i][n].mac = chain[i][n].hash
      BY <1>1, <1>5 DEF ChainVerifies
    <2>2. chain[i][n] \in Event /\ EventInv(i, chain[i][n])
      BY <1>0, <1>5, RowTypes DEF ChainInv
    <2>3. chain[i][n].type # "altered"
      BY <1>0, <1>1, <1>5, VerifiedUnaltered
    <2>4. PICK m \in DOMAIN written[i] : chain[i][n] = written[i][m]
      BY <2>2, <2>3 DEF EventInv
    <2>5. Len(chain[i][n].hash) = n /\ Len(written[i][m].hash) = m
      BY <1>0, <1>1, <1>3, <1>5, HashesCount
    <2> QED
      BY <2>4, <2>5
  <1>6. \A n \in 1 .. Len(chain[i]) : chain[i][n] = written[i][n]
    BY <1>2, <1>5
  <1> QED
    BY <1>2, <1>4, <1>6

\* Whatever is lost, altered, put back, appended or adopted, what verifies is what the store
\* wrote and signed; and where nothing was put back or rewritten that no MAC covers, a chain
\* born with its head that verifies is everything that was ever written to it.
THEOREM EvidenceComplete == Spec => []LossNeverLaundered
  <1>1. EvidenceInv => LossNeverLaundered
    <2>1. EvidenceInv => known \subseteq Intents
      BY DEF EvidenceInv, TypeOK
    <2> QED
      BY <2>1, VerifiedIsOurs, VerifiedIsComplete DEF LossNeverLaundered
  <1> QED
    BY <1>1, EvidenceInvariant, PTL

\* A committed transition goes unrecorded only where rows were damaged or an instance
\* had no key.
THEOREM TransitionsRecorded == Spec => []MovesRecorded
  <1>1. EvidenceInv => MovesRecorded
    BY DEF EvidenceInv
  <1> QED
    BY <1>1, EvidenceInvariant, PTL

\* No false alarm: an undamaged chain with a head verifies and can be extended, and the
\* tables keep their types.
THEOREM NoFalseAlarm == Spec => []HeadsHold
  <1>1. EvidenceInv => HeadsHold
    <2> SUFFICES ASSUME EvidenceInv PROVE HeadsHold
      OBVIOUS
    <2>1. TypeOK /\ known \subseteq Intents /\ \A i \in Intents : ChainInv(i)
      BY DEF EvidenceInv, TypeOK
    <2>2. ASSUME NEW i \in known \ harmed, head[i] # NoHead
          PROVE  Status(i) = "ok" /\ Appendable(i, TRUE)
      <3>1. i \in Intents /\ ChainVerifies(i, TRUE) /\ HeadMatches(i)
        BY <2>1, <2>2 DEF ChainInv, UnharmedInv
      <3>2. chain[i] # <<>>
        <4>1. head[i].seq \in Nat /\ head[i].seq = Len(chain[i]) - 1
          BY <2>1, <2>2, <3>1, RowTypes DEF HeadRow, HeadMatches
        <4>2. Len(<<>>) = 0
          OBVIOUS
        <4> QED
          BY <4>1, <4>2
      <3> QED
        BY <2>2, <3>1, <3>2, StatusAnswers DEF Appendable
    <2> QED
      BY <2>1, <2>2 DEF HeadsHold
  <1> QED
    BY <1>1, EvidenceInvariant, PTL

\* A chain that was born with its head and lost it is never taken for one that predates
\* heads, whenever the mark was bound, while the mark and its row ids are as written.
THEOREM DeletionDetected == Spec => []DeletionIsNotLegacy
  <1>1. EvidenceInv => DeletionIsNotLegacy
    <2> SUFFICES ASSUME EvidenceInv, NEW i \in born \ (erased \cup uncovered),
                        Status(i) = "head_missing"
                 PROVE  FALSE
      BY DEF DeletionIsNotLegacy
    <2>1. i \in Intents /\ TypeOK /\ BornInv(i)
      BY DEF EvidenceInv, TypeOK, ChainInv
    <2>2. ChainVerifies(i, TRUE) /\ chain[i] # <<>> /\ ~BornWithHead(i)
      BY StatusAnswers
    <2>3. 1 \in DOMAIN chain[i] /\ Sound(chain[i][1]) /\ chain[i][1].prev = NoHash
      BY <2>1, <2>2, VerifiedBeginning
    <2> QED
      BY <2>1, <2>2, <2>3 DEF BornInv, BornWithHead
  <1> QED
    BY <1>1, EvidenceInvariant, PTL

=============================================================================
