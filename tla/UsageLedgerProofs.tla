--------------------------- MODULE UsageLedgerProofs ---------------------------
(***************************************************************************)
(* The aggregate limits hold for any number of intents, grants, versions,  *)
(* scopes and operators, whatever the windows, limits, caps and lags are.  *)
(***************************************************************************)
EXTENDS UsageLedger, FiniteSums

Table == [Intents -> Row \cup {NoRow}]
Filled(u) == {i \in Intents : u[i] # NoRow}
ActiveIn(u, i) == u[i].status \in {"HELD", "COMMITTED"}

-----------------------------------------------------------------------------
(* Rows and sums *)

\* A row that holds or has spent an amount is a reservation.
LEMMA ActiveRow ==
  ASSUME NEW u \in Table, NEW i \in Intents, ActiveIn(u, i)
  PROVE  /\ u[i] \in Row /\ u[i] # NoRow
         /\ u[i].grant \in Grants /\ u[i].version \in Versions
         /\ u[i].ts \in Nat /\ u[i].amount \in Nat
  <1>1. u[i] \in Row
    BY DEF Table, ActiveIn, NoRow
  <1>2. u[i] # NoRow
    BY DEF ActiveIn, NoRow
  <1> QED
    BY <1>1, <1>2, UsageConstants DEF Row

\* The turnover of a set of rows is a sum.
LEMMA SpentTotal ==
  ASSUME NEW u, NEW S
  PROVE  SpentIn(u, S) = Total([i \in S |-> u[i].amount], S)
  <1> DEFINE w == [i \in S |-> u[i].amount]
             W(g) == [s \in SUBSET S |-> IF s = {} THEN 0 ELSE w[Pick(s)] + g[s \ {Pick(s)}]]
             U(g) == [s \in SUBSET S |-> IF s = {} THEN 0 ELSE u[Pick(s)].amount + g[s \ {Pick(s)}]]
  <1>1. \A s \in SUBSET S : s # {} => Pick(s) \in S
    BY PickIn
  <1>2. \A g : U(g) = W(g)
    BY <1>1
  <1>3. (CHOOSE g : g = U(g)) = (CHOOSE g : g = W(g))
    BY <1>2
  <1>4. SpentIn(u, S) = (CHOOSE g : g = U(g))[S]
    BY DEF SpentIn, MapThenSumSet, MapThenFoldSet, Pick
  <1>5. Total(w, S) = (CHOOSE g : g = W(g))[S]
    BY DEF Total, MapThenSumSet, MapThenFoldSet, Pick
  <1> HIDE DEF w, U, W
  <1>6. SpentIn(u, S) = Total(w, S)
    BY <1>3, <1>4, <1>5
  <1> QED
    BY <1>6 DEF w

\* Only the amounts of the rows matter.
LEMMA SpentSame ==
  ASSUME NEW u, NEW u2, NEW S, \A i \in S : u[i].amount = u2[i].amount
  PROVE  SpentIn(u, S) = SpentIn(u2, S)
  <1>1. [i \in S |-> u[i].amount] = [i \in S |-> u2[i].amount]
    OBVIOUS
  <1> QED
    BY <1>1, SpentTotal

\* A new row and some of the counted ones spend no more than it and all the counted ones.
LEMMA SpentBound ==
  ASSUME NEW u, NEW u2, NEW S, NEW C, IsFiniteSet(C), NEW x \in S, x \notin C,
         S \ {x} \subseteq C, \A i \in C : u[i].amount \in Nat,
         \A i \in S \ {x} : u2[i].amount = u[i].amount, u2[x].amount \in Nat
  PROVE  /\ SpentIn(u2, S) <= SpentIn(u, C) + u2[x].amount
         /\ SpentIn(u2, S) \in Nat /\ SpentIn(u, C) \in Nat
  <1> DEFINE R == S \ {x}
             f == [i \in C |-> u[i].amount]
             f2 == [i \in S |-> u2[i].amount]
  <1>1. IsFiniteSet(R) /\ x \notin R /\ R \cup {x} = S /\ R \in SUBSET C
    BY FS_Subset
  <1>2. /\ \A i \in C : f[i] \in Nat
        /\ \A i \in R \cup {x} : f2[i] \in Nat
        /\ \A i \in R : f2[i] = f[i]
        /\ f2[x] = u2[x].amount
    BY <1>1
  <1>3. SpentIn(u2, S) = Total(f2, S) /\ SpentIn(u, C) = Total(f, C)
    BY SpentTotal
  <1> HIDE DEF R, f, f2
  <1>4. Total(f2, R \cup {x}) = Total(f2, R) + f2[x]
    BY <1>1, <1>2, TotalAdd
  <1>5. Total(f2, R) = Total(f, R)
    BY <1>2, TotalSame
  <1>6. Total(f, R) <= Total(f, C)
    BY <1>1, <1>2, TotalMonotonic
  <1>7. Total(f, C) \in Nat /\ Total(f2, R) \in Nat
    BY <1>1, <1>2, TotalNat
  <1>8. SpentIn(u2, S) = Total(f, R) + u2[x].amount
    BY <1>1, <1>2, <1>3, <1>4, <1>5
  <1>9. Total(f, R) \in Nat
    BY <1>5, <1>7
  <1> QED
    BY <1>3, <1>6, <1>7, <1>8, <1>9

-----------------------------------------------------------------------------
(* A table whose rows only end keeps every bound *)

\* What settling an intent may do to the rows.
Lessens(u, u2) ==
  \A i \in Intents : ActiveIn(u2, i) =>
    /\ ActiveIn(u, i)
    /\ u2[i].grant = u[i].grant /\ u2[i].version = u[i].version /\ u2[i].ts = u[i].ts
    /\ u2[i].amount = u[i].amount /\ u2[i].allowed = u[i].allowed
    /\ u[i].submitted => u2[i].submitted

\* Fewer or later active rows: every part of a window was one before.
LEMMA LessKeepsTurnover ==
  ASSUME NEW u, NEW u2, Lessens(u, u2), TurnoverKept(u)
  PROVE  TurnoverKept(u2)
  <1> SUFFICES ASSUME NEW g \in Grants, NEW t \in 0 .. MaxClock,
                      NEW S \in SUBSET {i \in Windowed(u2, t, TurnoverWindow) : u2[i].grant = g},
                      S # {}
               PROVE  \E i \in S : SpentIn(u2, S) <= Turnover[u2[i].version]
    BY DEF TurnoverKept
  <1>1. \A i \in S : /\ i \in Intents /\ ActiveIn(u2, i) /\ u2[i].grant = g
                     /\ u2[i].ts \in t - TurnoverWindow .. t
    BY DEF Windowed, ActiveIn
  <1>2. S \in SUBSET {i \in Windowed(u, t, TurnoverWindow) : u[i].grant = g}
    BY <1>1 DEF Windowed, ActiveIn, Lessens
  <1>3. PICK i \in S : SpentIn(u, S) <= Turnover[u[i].version]
    BY <1>2 DEF TurnoverKept
  <1>4. SpentIn(u, S) = SpentIn(u2, S)
    BY <1>1, SpentSame DEF Lessens
  <1> QED
    BY <1>1, <1>3, <1>4 DEF Lessens

\* The same of the parts of a scope's window.
LEMMA LessKeepsExposure ==
  ASSUME NEW u, NEW u2, Lessens(u, u2), ExposureKept(u)
  PROVE  ExposureKept(u2)
  <1> SUFFICES ASSUME NEW s \in Scopes, NEW t \in 0 .. MaxClock,
                      NEW S \in SUBSET {i \in Windowed(u2, t, TurnoverWindow) :
                                          InScope(s, u2[i].grant) /\ u2[i].amount > 0},
                      S # {}
               PROVE  \E i \in S : u2[i].allowed[s] = Uncapped \/ SpentIn(u2, S) <= u2[i].allowed[s]
    BY DEF ExposureKept
  <1>1. \A i \in S : /\ i \in Intents /\ ActiveIn(u2, i) /\ InScope(s, u2[i].grant)
                     /\ u2[i].amount > 0 /\ u2[i].ts \in t - TurnoverWindow .. t
    BY DEF Windowed, ActiveIn
  <1>2. S \in SUBSET {i \in Windowed(u, t, TurnoverWindow) : InScope(s, u[i].grant) /\ u[i].amount > 0}
    BY <1>1 DEF Windowed, ActiveIn, Lessens
  <1>3. PICK i \in S : u[i].allowed[s] = Uncapped \/ SpentIn(u, S) <= u[i].allowed[s]
    BY <1>2 DEF ExposureKept
  <1>4. SpentIn(u, S) = SpentIn(u2, S)
    BY <1>1, SpentSame DEF Lessens
  <1> QED
    BY <1>1, <1>3, <1>4 DEF Lessens

\* The same of attempts and provisional slots.
LEMMA LessKeepsVelocity ==
  ASSUME NEW u, NEW u2, NEW a, Lessens(u, u2), VelocityKept(u, a)
  PROVE  VelocityKept(u2, a)
  <1> SUFFICES ASSUME NEW g \in Grants, NEW t \in 0 .. MaxClock,
                      NEW A \in SUBSET TriesIn(a, g, t), NEW P \in SUBSET SlotsIn(u2, g, t),
                      A # {} \/ P # {}
               PROVE  \/ \E x \in A : Cardinality(A) + Cardinality(P) <= Actions[x.version]
                      \/ \E i \in P : Cardinality(A) + Cardinality(P) <= Actions[u2[i].version]
    BY DEF VelocityKept
  <1>1. \A i \in P : i \in Intents /\ ActiveIn(u2, i) /\ i \in SlotsIn(u2, g, t)
    BY DEF SlotsIn, Windowed, ActiveIn
  <1>2. P \in SUBSET SlotsIn(u, g, t)
    BY <1>1 DEF SlotsIn, Windowed, ActiveIn, Lessens
  <1>3. \/ \E x \in A : Cardinality(A) + Cardinality(P) <= Actions[x.version]
        \/ \E i \in P : Cardinality(A) + Cardinality(P) <= Actions[u[i].version]
    BY <1>2 DEF VelocityKept
  <1> QED
    BY <1>1, <1>3 DEF Lessens

-----------------------------------------------------------------------------
(* A reservation within the limits keeps every bound *)

\* The rows a table counts are finitely many.
LEMMA CountedRows ==
  ASSUME NEW u \in Table, IsFiniteSet(Filled(u)), NEW C \in SUBSET Intents,
         \A j \in C : ActiveIn(u, j)
  PROVE  IsFiniteSet(C) /\ \A j \in C : u[j].amount \in Nat
  <1>1. C \subseteq Filled(u)
    BY ActiveRow DEF Filled
  <1> QED
    BY <1>1, ActiveRow, FS_Subset

\* The turnover limit of the version that asks covers every part of a window with the
\* new row: the counted rows begin no later than any such window.
LEMMA ReserveKeepsTurnover ==
  ASSUME NEW u \in Table, IsFiniteSet(Filled(u)), TurnoverKept(u),
         NEW i \in Intents, u[i] = NoRow, NEW r \in Row,
         SpentIn(u, {j \in Intents : /\ ActiveIn(u, j) /\ u[j].grant = r.grant
                                     /\ u[j].ts >= r.ts - TurnoverWindow})
           + r.amount <= Turnover[r.version],
         NEW u2, u2[i] = r, \A j \in Intents \ {i} : u2[j] = u[j]
  PROVE  TurnoverKept(u2)
  <1> SUFFICES ASSUME NEW g \in Grants, NEW t \in 0 .. MaxClock,
                      NEW S \in SUBSET {j \in Windowed(u2, t, TurnoverWindow) : u2[j].grant = g},
                      S # {}
               PROVE  \E j \in S : SpentIn(u2, S) <= Turnover[u2[j].version]
    BY DEF TurnoverKept
  <1>1. /\ u2[i] = r /\ \A j \in Intents \ {i} : u2[j] = u[j]
        /\ \A j \in S : /\ j \in Intents /\ ActiveIn(u2, j) /\ u2[j].grant = g
                        /\ u2[j].ts \in t - TurnoverWindow .. t
    BY DEF Windowed, ActiveIn
  <1>2. CASE i \notin S
    <2>1. S \in SUBSET {j \in Windowed(u, t, TurnoverWindow) : u[j].grant = g}
      BY <1>1, <1>2 DEF Windowed, ActiveIn
    <2>2. PICK j \in S : SpentIn(u, S) <= Turnover[u[j].version]
      BY <2>1 DEF TurnoverKept
    <2>3. SpentIn(u, S) = SpentIn(u2, S)
      <3>1. \A x \in S : u[x].amount = u2[x].amount
        BY <1>1, <1>2
      <3> QED
        BY <3>1, SpentSame
    <2> QED
      BY <1>1, <1>2, <2>2, <2>3
  <1>3. CASE i \in S
    <2> DEFINE C == {j \in Intents : /\ ActiveIn(u, j) /\ u[j].grant = r.grant
                                     /\ u[j].ts >= r.ts - TurnoverWindow}
    <2>1. IsFiniteSet(C) /\ \A j \in C : u[j].amount \in Nat
      <3>1. C \in SUBSET Intents /\ \A j \in C : ActiveIn(u, j)
        OBVIOUS
      <3> HIDE DEF C
      <3> QED
        BY <3>1, CountedRows
    <2>2. i \notin C
      BY DEF ActiveIn, NoRow
    <2>3. ASSUME NEW j \in S \ {i}
          PROVE  j \in C
      <3>1. u2[j] = u[j] /\ j \in Intents /\ ActiveIn(u, j) /\ u[j].grant = r.grant
        BY <1>1, <1>3 DEF ActiveIn
      <3>2. u[j].ts \in Nat /\ r.ts \in Nat /\ t \in Nat /\ TurnoverWindow \in Nat
        BY <3>1, ActiveRow, UsageConstants DEF Row
      <3>3. u[j].ts >= t - TurnoverWindow /\ r.ts <= t
        BY <1>1, <1>3, <3>1, <3>2
      <3> QED
        BY <3>1, <3>2, <3>3
    <2>4. /\ \A j \in S \ {i} : u2[j].amount = u[j].amount
          /\ u2[i].amount = r.amount /\ r.amount \in Nat
          /\ Turnover[r.version] \in Nat
      BY <1>1, UsageConstants DEF Row
    <2>5. SpentIn(u, C) + r.amount <= Turnover[r.version]
      OBVIOUS
    <2> HIDE DEF C
    <2>6. /\ SpentIn(u2, S) <= SpentIn(u, C) + r.amount
          /\ SpentIn(u2, S) \in Nat /\ SpentIn(u, C) \in Nat
      <3>1. /\ i \in S /\ S \ {i} \subseteq C /\ u2[i].amount \in Nat
            /\ u2[i].amount = r.amount
        BY <1>3, <2>3, <2>4
      <3>2. /\ SpentIn(u2, S) <= SpentIn(u, C) + u2[i].amount
            /\ SpentIn(u2, S) \in Nat /\ SpentIn(u, C) \in Nat
        BY <2>1, <2>2, <2>4, <3>1, SpentBound
      <3> QED
        BY <3>1, <3>2
    <2>7. SpentIn(u2, S) <= Turnover[r.version]
      BY <2>4, <2>5, <2>6
    <2> QED
      BY <1>1, <1>3, <2>7
  <1> QED
    BY <1>2, <1>3

\* The same for the caps of every scope the grant is in.
LEMMA ReserveKeepsExposure ==
  ASSUME NEW u \in Table, IsFiniteSet(Filled(u)), ExposureKept(u),
         NEW i \in Intents, u[i] = NoRow, NEW r \in Row,
         r.amount > 0 =>
           \A s \in Scopes : InScope(s, r.grant) /\ r.allowed[s] # Uncapped =>
             SpentIn(u, {j \in Intents : /\ ActiveIn(u, j) /\ InScope(s, u[j].grant)
                                         /\ u[j].ts >= r.ts - TurnoverWindow})
               + r.amount <= r.allowed[s],
         NEW u2, u2[i] = r, \A j \in Intents \ {i} : u2[j] = u[j]
  PROVE  ExposureKept(u2)
  <1> SUFFICES ASSUME NEW s \in Scopes, NEW t \in 0 .. MaxClock,
                      NEW S \in SUBSET {j \in Windowed(u2, t, TurnoverWindow) :
                                          InScope(s, u2[j].grant) /\ u2[j].amount > 0},
                      S # {}
               PROVE  \E j \in S : u2[j].allowed[s] = Uncapped \/ SpentIn(u2, S) <= u2[j].allowed[s]
    BY DEF ExposureKept
  <1>1. /\ u2[i] = r /\ \A j \in Intents \ {i} : u2[j] = u[j]
        /\ \A j \in S : /\ j \in Intents /\ ActiveIn(u2, j) /\ InScope(s, u2[j].grant)
                        /\ u2[j].amount > 0 /\ u2[j].ts \in t - TurnoverWindow .. t
    BY DEF Windowed, ActiveIn
  <1>2. CASE i \notin S
    <2>1. S \in SUBSET {j \in Windowed(u, t, TurnoverWindow) : InScope(s, u[j].grant) /\ u[j].amount > 0}
      BY <1>1, <1>2 DEF Windowed, ActiveIn
    <2>2. PICK j \in S : u[j].allowed[s] = Uncapped \/ SpentIn(u, S) <= u[j].allowed[s]
      BY <2>1 DEF ExposureKept
    <2>3. SpentIn(u, S) = SpentIn(u2, S)
      <3>1. \A x \in S : u[x].amount = u2[x].amount
        BY <1>1, <1>2
      <3> QED
        BY <3>1, SpentSame
    <2> QED
      BY <1>1, <1>2, <2>2, <2>3
  <1>3. CASE i \in S /\ r.allowed[s] = Uncapped
    BY <1>1, <1>3
  <1>4. CASE i \in S /\ r.allowed[s] # Uncapped
    <2> DEFINE C == {j \in Intents : /\ ActiveIn(u, j) /\ InScope(s, u[j].grant)
                                     /\ u[j].ts >= r.ts - TurnoverWindow}
    <2>1. IsFiniteSet(C) /\ \A j \in C : u[j].amount \in Nat
      <3>1. C \in SUBSET Intents /\ \A j \in C : ActiveIn(u, j)
        OBVIOUS
      <3> HIDE DEF C
      <3> QED
        BY <3>1, CountedRows
    <2>2. i \notin C
      BY DEF ActiveIn, NoRow
    <2>3. ASSUME NEW j \in S \ {i}
          PROVE  j \in C
      <3>1. u2[j] = u[j] /\ j \in Intents /\ ActiveIn(u, j) /\ InScope(s, u[j].grant)
        BY <1>1, <1>4 DEF ActiveIn
      <3>2. u[j].ts \in Nat /\ r.ts \in Nat /\ t \in Nat /\ TurnoverWindow \in Nat
        BY <3>1, ActiveRow, UsageConstants DEF Row
      <3>3. u[j].ts >= t - TurnoverWindow /\ r.ts <= t
        BY <1>1, <1>4, <3>1, <3>2
      <3> QED
        BY <3>1, <3>2, <3>3
    <2>4. /\ \A j \in S \ {i} : u2[j].amount = u[j].amount
          /\ u2[i].amount = r.amount /\ r.amount \in Nat
          /\ r.allowed[s] \in Nat
      <3>1. r.allowed[s] \in Caps \cup {Uncapped}
        BY DEF Row
      <3> QED
        BY <1>1, <1>4, <3>1, UsageConstants DEF Row
    <2>5. SpentIn(u, C) + r.amount <= r.allowed[s]
      BY <1>1, <1>4
    <2> HIDE DEF C
    <2>6. /\ SpentIn(u2, S) <= SpentIn(u, C) + r.amount
          /\ SpentIn(u2, S) \in Nat /\ SpentIn(u, C) \in Nat
      <3>1. /\ i \in S /\ S \ {i} \subseteq C /\ u2[i].amount \in Nat
            /\ u2[i].amount = r.amount
        BY <1>4, <2>3, <2>4
      <3>2. /\ SpentIn(u2, S) <= SpentIn(u, C) + u2[i].amount
            /\ SpentIn(u2, S) \in Nat /\ SpentIn(u, C) \in Nat
        BY <2>1, <2>2, <2>4, <3>1, SpentBound
      <3> QED
        BY <3>1, <3>2
    <2>7. SpentIn(u2, S) <= r.allowed[s]
      BY <2>4, <2>5, <2>6
    <2> QED
      BY <1>1, <1>4, <2>7
  <1> QED
    BY <1>2, <1>3, <1>4

-----------------------------------------------------------------------------
(* Slots *)

\* What one more action makes of a count that the limit covers.
LEMMA OneMore ==
  ASSUME NEW A, NEW P, NEW C, NEW D, IsFiniteSet(C), IsFiniteSet(D), NEW x, NEW limit \in Nat,
         \/ A \subseteq C /\ P \subseteq D \cup {x}
         \/ A \subseteq C \cup {x} /\ P \subseteq D,
         Cardinality(C) + Cardinality(D) + 1 <= limit
  PROVE  Cardinality(A) + Cardinality(P) <= limit
  <1>1. /\ IsFiniteSet(C \cup {x}) /\ Cardinality(C \cup {x}) <= Cardinality(C) + 1
        /\ Cardinality(C) \in Nat /\ Cardinality(C \cup {x}) \in Nat
    <2>1. Cardinality(C) \in Nat
      BY FS_CardinalityType
    <2>2. IsFiniteSet(C \cup {x})
      BY FS_AddElement
    <2>3. Cardinality(C \cup {x}) = IF x \in C THEN Cardinality(C) ELSE Cardinality(C) + 1
      BY FS_AddElement
    <2> QED
      BY <2>1, <2>2, <2>3
  <1>2. /\ IsFiniteSet(D \cup {x}) /\ Cardinality(D \cup {x}) <= Cardinality(D) + 1
        /\ Cardinality(D) \in Nat /\ Cardinality(D \cup {x}) \in Nat
    <2>1. Cardinality(D) \in Nat
      BY FS_CardinalityType
    <2>2. IsFiniteSet(D \cup {x})
      BY FS_AddElement
    <2>3. Cardinality(D \cup {x}) = IF x \in D THEN Cardinality(D) ELSE Cardinality(D) + 1
      BY FS_AddElement
    <2> QED
      BY <2>1, <2>2, <2>3
  <1>3. CASE A \subseteq C /\ P \subseteq D \cup {x}
    <2>1. Cardinality(A) <= Cardinality(C) /\ Cardinality(A) \in Nat
      BY <1>3, FS_Subset, FS_CardinalityType
    <2>2. Cardinality(P) <= Cardinality(D \cup {x}) /\ Cardinality(P) \in Nat
      BY <1>2, <1>3, FS_Subset, FS_CardinalityType
    <2> QED
      BY <1>1, <1>2, <2>1, <2>2
  <1>4. CASE A \subseteq C \cup {x} /\ P \subseteq D
    <2>1. Cardinality(A) <= Cardinality(C \cup {x}) /\ Cardinality(A) \in Nat
      BY <1>1, <1>4, FS_Subset, FS_CardinalityType
    <2>2. Cardinality(P) <= Cardinality(D) /\ Cardinality(P) \in Nat
      BY <1>4, FS_Subset, FS_CardinalityType
    <2> QED
      BY <1>1, <1>2, <2>1, <2>2
  <1> QED
    BY <1>3, <1>4

\* The attempts and the slots a velocity check counts, from an instant on.
TriesFrom(a, g, since) == {x \in a : x.grant = g /\ x.at >= since}
SlotsFrom(u, g, since) ==
  {j \in Intents : ActiveIn(u, j) /\ u[j].grant = g /\ u[j].ts >= since /\ ~u[j].submitted}

\* A window around an instant counts nothing that the check at that instant leaves out.
LEMMA WindowCounted ==
  ASSUME NEW u \in Table, NEW a \in SUBSET Attempt, NEW g, NEW t \in 0 .. MaxClock,
         NEW now \in Nat, now \in t - ActionWindow .. t
  PROVE  /\ TriesIn(a, g, t) \subseteq TriesFrom(a, g, now - ActionWindow)
         /\ SlotsIn(u, g, t) \subseteq SlotsFrom(u, g, now - ActionWindow)
  <1>0. t \in Nat /\ ActionWindow \in Nat /\ MaxClock \in Nat /\ now <= t
    BY UsageConstants
  <1>1. ASSUME NEW x \in TriesIn(a, g, t)
        PROVE  x \in TriesFrom(a, g, now - ActionWindow)
    <2>1. x \in a /\ x.grant = g /\ x.at \in t - ActionWindow .. t /\ x.at \in Nat
      BY DEF TriesIn, Attempt
    <2>2. x.at >= now - ActionWindow
      BY <1>0, <2>1
    <2> QED
      BY <2>1, <2>2 DEF TriesFrom
  <1>2. ASSUME NEW j \in SlotsIn(u, g, t)
        PROVE  j \in SlotsFrom(u, g, now - ActionWindow)
    <2>1. /\ j \in Intents /\ ActiveIn(u, j) /\ u[j].grant = g /\ ~u[j].submitted
          /\ u[j].ts \in t - ActionWindow .. t
      BY DEF SlotsIn, Windowed, ActiveIn
    <2>2. u[j].ts \in Nat
      BY <2>1, ActiveRow
    <2>3. u[j].ts >= now - ActionWindow
      BY <1>0, <2>1, <2>2
    <2> QED
      BY <2>1, <2>3 DEF SlotsFrom
  <1> QED
    BY <1>1, <1>2

\* What a velocity check counts is finite.
LEMMA CountsFinite ==
  ASSUME NEW u \in Table, IsFiniteSet(Filled(u)), NEW a, IsFiniteSet(a), NEW g, NEW since
  PROVE  IsFiniteSet(TriesFrom(a, g, since)) /\ IsFiniteSet(SlotsFrom(u, g, since))
  <1>1. TriesFrom(a, g, since) \subseteq a
    BY DEF TriesFrom
  <1>2. SlotsFrom(u, g, since) \in SUBSET Intents /\ \A j \in SlotsFrom(u, g, since) : ActiveIn(u, j)
    BY DEF SlotsFrom
  <1> QED
    BY <1>1, <1>2, FS_Subset, CountedRows

\* A reservation that finds a free slot keeps the slots of the others.
LEMMA ReserveKeepsVelocity ==
  ASSUME NEW u \in Table, IsFiniteSet(Filled(u)),
         NEW a \in SUBSET Attempt, IsFiniteSet(a), VelocityKept(u, a),
         NEW i \in Intents, u[i] = NoRow, NEW r \in Row,
         Cardinality(TriesFrom(a, r.grant, r.ts - ActionWindow))
           + Cardinality(SlotsFrom(u, r.grant, r.ts - ActionWindow)) + 1 <= Actions[r.version],
         NEW u2, u2[i] = r, \A j \in Intents \ {i} : u2[j] = u[j]
  PROVE  VelocityKept(u2, a)
  <1> SUFFICES ASSUME NEW g \in Grants, NEW t \in 0 .. MaxClock,
                      NEW A \in SUBSET TriesIn(a, g, t), NEW P \in SUBSET SlotsIn(u2, g, t),
                      A # {} \/ P # {}
               PROVE  \/ \E x \in A : Cardinality(A) + Cardinality(P) <= Actions[x.version]
                      \/ \E j \in P : Cardinality(A) + Cardinality(P) <= Actions[u2[j].version]
    BY DEF VelocityKept
  <1>1. \A j \in P : /\ j \in Intents /\ ActiveIn(u2, j) /\ u2[j].grant = g /\ ~u2[j].submitted
                     /\ u2[j].ts \in t - ActionWindow .. t
    BY DEF SlotsIn, Windowed, ActiveIn
  <1>2. P \ {i} \subseteq SlotsIn(u, g, t)
    BY <1>1 DEF SlotsIn, Windowed, ActiveIn
  <1>3. CASE i \notin P
    <2>1. P \in SUBSET SlotsIn(u, g, t)
      BY <1>2, <1>3
    <2>2. \/ \E x \in A : Cardinality(A) + Cardinality(P) <= Actions[x.version]
          \/ \E j \in P : Cardinality(A) + Cardinality(P) <= Actions[u[j].version]
      BY <2>1 DEF VelocityKept
    <2> QED
      BY <1>1, <1>3, <2>2
  <1>4. CASE i \in P
    <2> DEFINE C == TriesFrom(a, g, r.ts - ActionWindow)
               D == SlotsFrom(u, g, r.ts - ActionWindow)
    <2>1. r.grant = g /\ r.ts \in t - ActionWindow .. t /\ r.ts \in Nat /\ Actions[r.version] \in Nat
      BY <1>1, <1>4, UsageConstants DEF Row
    <2>2. TriesIn(a, g, t) \subseteq C /\ SlotsIn(u, g, t) \subseteq D
      BY <2>1, WindowCounted
    <2>3. IsFiniteSet(C) /\ IsFiniteSet(D)
      BY CountsFinite
    <2>4. Cardinality(C) + Cardinality(D) + 1 <= Actions[r.version]
      BY <2>1
    <2> HIDE DEF C, D
    <2>5. A \subseteq C /\ P \subseteq D \cup {i}
      BY <1>2, <2>2
    <2>6. Cardinality(A) + Cardinality(P) <= Actions[r.version]
      BY <2>1, <2>3, <2>4, <2>5, OneMore
    <2> QED
      BY <1>4, <2>6
  <1> QED
    BY <1>3, <1>4

\* An attempt takes its intent's provisional slot, or a free one.
LEMMA SubmitKeepsVelocity ==
  ASSUME NEW u \in Table, IsFiniteSet(Filled(u)),
         NEW a \in SUBSET Attempt, IsFiniteSet(a), VelocityKept(u, a),
         NEW i \in Intents, NEW b \in Attempt,
         Cardinality(TriesFrom(a, b.grant, b.at - ActionWindow))
           + Cardinality(SlotsFrom(u, b.grant, b.at - ActionWindow) \ {i}) + 1 <= Actions[b.version],
         NEW u2, Lessens(u, u2), u2[i].submitted, NEW a2, a2 = a \cup {b}
  PROVE  VelocityKept(u2, a2)
  <1> SUFFICES ASSUME NEW g \in Grants, NEW t \in 0 .. MaxClock,
                      NEW A \in SUBSET TriesIn(a2, g, t), NEW P \in SUBSET SlotsIn(u2, g, t),
                      A # {} \/ P # {}
               PROVE  \/ \E x \in A : Cardinality(A) + Cardinality(P) <= Actions[x.version]
                      \/ \E j \in P : Cardinality(A) + Cardinality(P) <= Actions[u2[j].version]
    BY DEF VelocityKept
  <1>1. \A j \in P : /\ j \in Intents /\ ActiveIn(u2, j) /\ u2[j].grant = g /\ ~u2[j].submitted
                     /\ u2[j].ts \in t - ActionWindow .. t
    BY DEF SlotsIn, Windowed, ActiveIn
  <1>2. P \subseteq SlotsIn(u, g, t) /\ i \notin P /\ \A j \in P : u2[j].version = u[j].version
    BY <1>1 DEF SlotsIn, Windowed, ActiveIn, Lessens
  <1>3. A \ {b} \subseteq TriesIn(a, g, t)
    BY DEF TriesIn
  <1>4. CASE b \notin A
    <2>1. A \in SUBSET TriesIn(a, g, t)
      BY <1>3, <1>4
    <2>2. \/ \E x \in A : Cardinality(A) + Cardinality(P) <= Actions[x.version]
          \/ \E j \in P : Cardinality(A) + Cardinality(P) <= Actions[u[j].version]
      BY <1>2, <2>1 DEF VelocityKept
    <2> QED
      BY <1>2, <2>2
  <1>5. CASE b \in A
    <2> DEFINE C == TriesFrom(a, g, b.at - ActionWindow)
               F == SlotsFrom(u, g, b.at - ActionWindow)
               D == F \ {i}
    <2>1. b.grant = g /\ b.at \in t - ActionWindow .. t
      BY <1>5 DEF TriesIn
    <2>2. b.at \in Nat /\ Actions[b.version] \in Nat
      BY UsageConstants DEF Attempt
    <2>3. TriesIn(a, g, t) \subseteq C /\ SlotsIn(u, g, t) \subseteq F
      BY <2>1, <2>2, WindowCounted
    <2>4. IsFiniteSet(C) /\ IsFiniteSet(F)
      BY CountsFinite
    <2>5. Cardinality(C) + Cardinality(D) + 1 <= Actions[b.version]
      BY <2>1
    <2> HIDE DEF C, F
    <2>6. IsFiniteSet(D)
      BY <2>4, FS_Subset
    <2>7. A \subseteq C \cup {b} /\ P \subseteq D
      BY <1>2, <1>3, <2>3
    <2> HIDE DEF D
    <2>8. Cardinality(A) + Cardinality(P) <= Actions[b.version]
      BY <2>2, <2>4, <2>5, <2>6, <2>7, OneMore
    <2> QED
      BY <1>5, <2>8
  <1> QED
    BY <1>4, <1>5

-----------------------------------------------------------------------------
(* The operations on the tables *)

\* Changing the status of a row leaves the rest of it.
LEMMA RowSettled ==
  ASSUME NEW r \in Row, NEW st \in {"HELD", "COMMITTED", "RELEASED"}
  PROVE  LET q == [r EXCEPT !.status = st] IN
         /\ q \in Row /\ q.submitted = r.submitted
         /\ q.grant = r.grant /\ q.version = r.version /\ q.ts = r.ts
         /\ q.amount = r.amount /\ q.allowed = r.allowed
  BY DEF Row

\* And so does marking its submission.
LEMMA RowSubmitted ==
  ASSUME NEW r \in Row
  PROVE  LET q == [r EXCEPT !.submitted = TRUE] IN
         /\ q \in Row /\ q.submitted = TRUE /\ q.status = r.status
         /\ q.grant = r.grant /\ q.version = r.version /\ q.ts = r.ts
         /\ q.amount = r.amount /\ q.allowed = r.allowed
  BY DEF Row

\* Setting one row, to a reservation, keeps the table a table with finitely many rows.
LEMMA TableSet ==
  ASSUME NEW u \in Table, IsFiniteSet(Filled(u)), NEW i \in Intents, NEW r \in Row,
         NEW u2 \in Table, u2[i] = r, \A j \in Intents \ {i} : u2[j] = u[j]
  PROVE  /\ IsFiniteSet(Filled(u2))
         /\ \A j \in Intents : u[j] # NoRow => u2[j] # NoRow
  <1>1. Filled(u2) \subseteq Filled(u) \cup {i}
    BY DEF Filled
  <1>2. IsFiniteSet(Filled(u) \cup {i})
    BY FS_AddElement
  <1>3. r # NoRow
    BY DEF Row, NoRow
  <1> QED
    BY <1>1, <1>2, <1>3, FS_Subset

\* The parts of the invariant a step needs.
LEMMA TablesParts ==
  ASSUME UsageInv
  PROVE  /\ usage \in Table /\ IsFiniteSet(Filled(usage))
         /\ attempts \in SUBSET Attempt /\ IsFiniteSet(attempts)
         /\ initial \subseteq Claim /\ rebound \subseteq Claim /\ caps \in CapTable
         /\ TurnoverKept(usage) /\ ExposureKept(usage) /\ VelocityKept(usage, attempts)
         /\ SingleUse(initial) /\ SingleUse(rebound)
         /\ clock \in Nat /\ clock \in 0 .. MaxClock
  BY UsageConstants DEF UsageInv, TablesInv, TypeOK, Table, Filled

\* A held row is a reservation.
LEMMA HeldRow ==
  ASSUME NEW u \in Table, NEW i \in Intents, u[i].status = "HELD"
  PROVE  ActiveIn(u, i) /\ u[i] \in Row
  BY ActiveRow DEF ActiveIn

\* Releasing and committing only end what is held.
LEMMA SettleStep ==
  ASSUME UsageInv, NEW i \in Intents, CommitUsage(i) \/ ReleaseUsage(i)
  PROVE  /\ TablesInv(usage', attempts', initial', rebound', caps')
         /\ \A j \in Intents : usage[j] # NoRow <=> usage'[j] # NoRow
  <1>1. PICK st \in {"COMMITTED", "RELEASED"} : usage' = [usage EXCEPT ![i].status = st]
    BY DEF CommitUsage, ReleaseUsage
  <1>2. Held(i) /\ UNCHANGED <<attempts, initial, rebound, caps>>
    BY DEF CommitUsage, ReleaseUsage
  <1>3. usage[i] \in Row /\ ActiveIn(usage, i)
    BY <1>2, TablesParts, HeldRow DEF Held
  <1> DEFINE q == [usage[i] EXCEPT !.status = st]
  <1>4. usage' = [usage EXCEPT ![i] = q]
    BY <1>1
  <1>5. /\ q \in Row
        /\ q.grant = usage[i].grant /\ q.version = usage[i].version /\ q.ts = usage[i].ts
        /\ q.amount = usage[i].amount /\ q.allowed = usage[i].allowed
        /\ q.submitted = usage[i].submitted
    BY <1>3, RowSettled, ZenonT(40)
  <1> HIDE DEF q
  <1>6. /\ usage' \in Table /\ IsFiniteSet(Filled(usage'))
        /\ usage'[i] = q /\ \A j \in Intents \ {i} : usage'[j] = usage[j]
    <2>1. usage' \in Table /\ usage'[i] = q /\ \A j \in Intents \ {i} : usage'[j] = usage[j]
      BY <1>4, <1>5, TablesParts DEF Table
    <2> QED
      BY <2>1, <1>4, <1>5, TablesParts, TableSet
  <1>7. Lessens(usage, usage')
    BY <1>3, <1>5, <1>6 DEF Lessens, ActiveIn
  <1>8. TurnoverKept(usage') /\ ExposureKept(usage') /\ VelocityKept(usage', attempts)
    BY <1>7, TablesParts, LessKeepsTurnover, LessKeepsExposure, LessKeepsVelocity
  <1>9. \A j \in Intents : usage[j] # NoRow <=> usage'[j] # NoRow
    BY <1>3, <1>5, <1>6 DEF Row, NoRow
  <1> QED
    BY <1>2, <1>6, <1>8, <1>9, TablesParts DEF TablesInv, Table, Filled

\* An attempt within the velocity limit.
LEMMA SubmitStep ==
  ASSUME UsageInv, NEW i \in Intents, NEW now \in Now, BeginSubmission(i, now)
  PROVE  /\ TablesInv(usage', attempts', initial', rebound', caps')
         /\ \A j \in Intents : usage[j] # NoRow <=> usage'[j] # NoRow
  <1> DEFINE r == usage[i]
             count == Cardinality({a \in attempts : a.intent = i})
             b == [intent |-> i, number |-> count + 1, grant |-> r.grant, version |-> r.version,
                   at |-> now]
             q == [r EXCEPT !.submitted = TRUE]
  <1>1. /\ Held(i) /\ UNCHANGED <<initial, rebound, caps>>
        /\ count < MaxAttempts
        /\ Velocity(r.grant, now - ActionWindow, {i}) + 1 <= Actions[r.version]
        /\ attempts' = attempts \cup {b}
        /\ usage' = [usage EXCEPT ![i] = q]
    BY DEF BeginSubmission
  <1>2. r \in Row /\ ActiveIn(usage, i)
    BY <1>1, TablesParts, HeldRow DEF Held
  <1>3. /\ q \in Row
        /\ q.grant = r.grant /\ q.version = r.version /\ q.ts = r.ts
        /\ q.amount = r.amount /\ q.allowed = r.allowed /\ q.submitted = TRUE /\ q.status = r.status
    BY <1>2, RowSubmitted
  <1>4. count \in Nat
    <2>1. {a \in attempts : a.intent = i} \subseteq attempts
      OBVIOUS
    <2> QED
      BY <2>1, TablesParts, FS_Subset, FS_CardinalityType
  <1>5. b \in Attempt /\ b.grant = r.grant /\ b.version = r.version /\ b.at = now
    <2>1. now \in Nat
      BY TablesParts, UsageConstants DEF Now
    <2>2. count + 1 \in 1 .. MaxAttempts
      BY <1>1, <1>4, UsageConstants
    <2> HIDE DEF count
    <2> QED
      BY <1>2, <2>1, <2>2 DEF Attempt, Row
  <1> HIDE DEF q
  <1>6. /\ usage' \in Table /\ IsFiniteSet(Filled(usage'))
        /\ usage'[i] = q /\ \A j \in Intents \ {i} : usage'[j] = usage[j]
    <2>1. usage' \in Table /\ usage'[i] = q /\ \A j \in Intents \ {i} : usage'[j] = usage[j]
      BY <1>1, <1>3, TablesParts DEF Table
    <2> QED
      BY <2>1, <1>1, <1>3, TablesParts, TableSet
  <1>7. Lessens(usage, usage')
    BY <1>2, <1>3, <1>6 DEF Lessens, ActiveIn
  <1>8. TurnoverKept(usage') /\ ExposureKept(usage')
    BY <1>7, TablesParts, LessKeepsTurnover, LessKeepsExposure
  <1>9. VelocityKept(usage', attempts')
    <2>1. /\ Attempted(r.grant, now - ActionWindow) = TriesFrom(attempts, r.grant, now - ActionWindow)
          /\ Pending(r.grant, now - ActionWindow) = SlotsFrom(usage, r.grant, now - ActionWindow)
      BY DEF Attempted, TriesFrom, Pending, SlotsFrom, Active, ActiveIn
    <2>2. Cardinality(TriesFrom(attempts, b.grant, b.at - ActionWindow))
            + Cardinality(SlotsFrom(usage, b.grant, b.at - ActionWindow) \ {i}) + 1 <= Actions[b.version]
      BY <1>1, <1>5, <2>1 DEF Velocity
    <2>3. usage'[i].submitted
      BY <1>3, <1>6
    <2> HIDE DEF b, r
    <2> QED
      BY <1>1, <1>5, <1>7, <2>2, <2>3, TablesParts, SubmitKeepsVelocity
  <1>10. attempts' \subseteq Attempt /\ IsFiniteSet(attempts')
    <2> HIDE DEF b
    <2> QED
      BY <1>1, <1>5, TablesParts, FS_AddElement
  <1>11. \A j \in Intents : usage[j] # NoRow <=> usage'[j] # NoRow
    BY <1>2, <1>3, <1>6 DEF Row, NoRow
  <1> QED
    BY <1>1, <1>6, <1>8, <1>9, <1>10, <1>11, TablesParts DEF TablesInv, Table, Filled

\* The datastore's sums are sums over its table.
LEMMA SpentNow ==
  ASSUME NEW rows
  PROVE  Spent(rows) = SpentIn(usage, rows)
  BY DEF Spent, SpentIn

\* A claim that passed the freshness check is the only one of its risk state.
LEMMA ClaimOnce ==
  ASSUME NEW claims, SingleUse(claims), NEW checked, claims \subseteq checked,
         NEW i, NEW g, NEW v, NEW risk,
         \A d \in OfVersion(checked, g, v) : d.risk = risk => d.intent = i,
         NEW claims2, claims2 = claims \cup {[intent |-> i, grant |-> g, version |-> v, risk |-> risk]}
  PROVE  SingleUse(claims2)
  <1> DEFINE c == [intent |-> i, grant |-> g, version |-> v, risk |-> risk]
  <1>1. \A d \in claims : d.grant = g /\ d.version = v /\ d.risk = risk => d.intent = i
    BY DEF OfVersion
  <1>2. c.intent = i /\ c.grant = g /\ c.version = v /\ c.risk = risk
    OBVIOUS
  <1>3. claims2 = claims \cup {c}
    OBVIOUS
  <1> HIDE DEF c
  <1> QED
    BY <1>1, <1>2, <1>3 DEF SingleUse

\* A reservation within every limit.
LEMMA ReserveStep ==
  ASSUME UsageInv, NEW i \in Intents, NEW g \in Grants, NEW v \in Versions, NEW amount \in Amounts,
         NEW risk \in RiskStates, NEW now \in Now, ReserveUsage(i, g, v, amount, risk, now)
  PROVE  /\ TablesInv(usage', attempts', initial', rebound', caps')
         /\ \A j \in Intents : usage[j] # NoRow => usage'[j] # NoRow
         /\ \A j \in Intents : usage[j] = NoRow /\ usage'[j] # NoRow => j = i /\ usage'[j].amount = amount
  <1> DEFINE r == [status |-> "HELD", grant |-> g, version |-> v, ts |-> now, amount |-> amount,
                   submitted |-> FALSE, allowed |-> caps.cap]
  <1>1. /\ usage[i] = NoRow /\ UNCHANGED <<attempts, rebound, caps>>
        /\ usage' = [usage EXCEPT ![i] = r]
        /\ initial' = initial \cup {[intent |-> i, grant |-> g, version |-> v, risk |-> risk]}
    BY DEF ReserveUsage
  <1>2. /\ r \in Row /\ r.grant = g /\ r.version = v /\ r.ts = now /\ r.amount = amount
        /\ r.allowed = caps.cap
    <2>1. now \in Nat
      BY TablesParts, UsageConstants DEF Now
    <2>2. caps.cap \in [Scopes -> Caps \cup {Uncapped}]
      BY TablesParts DEF CapTable
    <2> QED
      BY <2>1, <2>2 DEF Row
  <1>3. \A j \in Intents : ActiveIn(usage, j) <=> j \in Active
    BY DEF ActiveIn, Active
  <1>4. SpentIn(usage, {j \in Intents : /\ ActiveIn(usage, j) /\ usage[j].grant = r.grant
                                        /\ usage[j].ts >= r.ts - TurnoverWindow})
          + r.amount <= Turnover[r.version]
    <2> DEFINE C == {j \in Active : usage[j].grant = g /\ usage[j].ts >= now - TurnoverWindow}
    <2>1. Spent(C) + amount <= Turnover[v]
      BY DEF ReserveUsage, GrantTurnover
    <2>2. C = {j \in Intents : /\ ActiveIn(usage, j) /\ usage[j].grant = r.grant
                               /\ usage[j].ts >= r.ts - TurnoverWindow}
      BY <1>2, <1>3 DEF Active
    <2> HIDE DEF C, r
    <2> QED
      BY <1>2, <2>1, <2>2, SpentNow
  <1>5. r.amount > 0 =>
          \A s \in Scopes : InScope(s, r.grant) /\ r.allowed[s] # Uncapped =>
            SpentIn(usage, {j \in Intents : /\ ActiveIn(usage, j) /\ InScope(s, usage[j].grant)
                                            /\ usage[j].ts >= r.ts - TurnoverWindow})
              + r.amount <= r.allowed[s]
    <2> SUFFICES ASSUME amount > 0, NEW s \in Scopes, InScope(s, g), caps.cap[s] # Uncapped
                 PROVE  SpentIn(usage, {j \in Intents : /\ ActiveIn(usage, j) /\ InScope(s, usage[j].grant)
                                                        /\ usage[j].ts >= now - TurnoverWindow})
                          + amount <= caps.cap[s]
      BY <1>2
    <2> DEFINE C == {j \in Active : InScope(s, usage[j].grant) /\ usage[j].ts >= now - TurnoverWindow}
    <2>1. Spent(C) + amount <= caps.cap[s]
      BY DEF ReserveUsage, ScopeTurnover
    <2>2. C = {j \in Intents : /\ ActiveIn(usage, j) /\ InScope(s, usage[j].grant)
                               /\ usage[j].ts >= now - TurnoverWindow}
      BY <1>3 DEF Active
    <2> HIDE DEF C
    <2> QED
      BY <2>1, <2>2, SpentNow
  <1>6. Cardinality(TriesFrom(attempts, r.grant, r.ts - ActionWindow))
          + Cardinality(SlotsFrom(usage, r.grant, r.ts - ActionWindow)) + 1 <= Actions[r.version]
    <2>1. /\ Attempted(g, now - ActionWindow) = TriesFrom(attempts, g, now - ActionWindow)
          /\ Pending(g, now - ActionWindow) \ {} = SlotsFrom(usage, g, now - ActionWindow)
      BY DEF Attempted, TriesFrom, Pending, SlotsFrom, Active, ActiveIn
    <2>2. Velocity(g, now - ActionWindow, {}) + 1 <= Actions[v]
      BY DEF ReserveUsage
    <2> QED
      BY <1>2, <2>1, <2>2 DEF Velocity
  <1> HIDE DEF r
  <1>7. usage' \in Table /\ usage'[i] = r /\ \A j \in Intents \ {i} : usage'[j] = usage[j]
    BY <1>1, <1>2, TablesParts DEF Table
  <1>8. IsFiniteSet(Filled(usage')) /\ \A j \in Intents : usage[j] # NoRow => usage'[j] # NoRow
    BY <1>2, <1>7, TablesParts, TableSet
  <1>9. TurnoverKept(usage')
    BY <1>1, <1>2, <1>4, <1>7, TablesParts, ReserveKeepsTurnover
  <1>10. ExposureKept(usage')
    BY <1>1, <1>2, <1>5, <1>7, TablesParts, ReserveKeepsExposure
  <1>11. VelocityKept(usage', attempts)
    BY <1>1, <1>2, <1>6, <1>7, TablesParts, ReserveKeepsVelocity
  <1>12. SingleUse(initial') /\ initial' \subseteq Claim
    <2>1. \A d \in OfVersion(initial \cup rebound, g, v) : d.risk = risk => d.intent = i
      BY DEF ReserveUsage, Fresh
    <2>2. initial \subseteq initial \cup rebound
      OBVIOUS
    <2>3. [intent |-> i, grant |-> g, version |-> v, risk |-> risk] \in Claim
      BY DEF Claim
    <2> QED
      BY <1>1, <2>1, <2>2, <2>3, TablesParts, ClaimOnce
  <1>13. \A j \in Intents : usage[j] = NoRow /\ usage'[j] # NoRow => j = i /\ usage'[j].amount = amount
    BY <1>2, <1>7
  <1> QED
    BY <1>1, <1>7, <1>8, <1>9, <1>10, <1>11, <1>12, <1>13, TablesParts DEF TablesInv, Table, Filled

\* A retry's claim of a fresher risk state.
LEMMA ClaimStep ==
  ASSUME UsageInv, NEW i \in Intents, NEW risk \in RiskStates, ClaimPermitRiskState(i, risk)
  PROVE  TablesInv(usage', attempts', initial', rebound', caps')
  <1> DEFINE g == usage[i].grant
             v == usage[i].version
  <1>0. CASE UNCHANGED rebound
    BY <1>0, TablesParts DEF ClaimPermitRiskState, UsageInv
  <1> SUFFICES ASSUME rebound' # rebound
               PROVE  TablesInv(usage', attempts', initial', rebound', caps')
    BY <1>0
  <1>1. /\ Held(i) /\ Fresh(i, g, v, risk, rebound)
        /\ rebound' = rebound \cup {[intent |-> i, grant |-> g, version |-> v, risk |-> risk]}
        /\ UNCHANGED <<usage, attempts, initial, caps>>
    BY DEF ClaimPermitRiskState
  <1>2. g \in Grants /\ v \in Versions
    BY <1>1, TablesParts, HeldRow, ActiveRow DEF Held
  <1> HIDE DEF g, v
  <1>3. [intent |-> i, grant |-> g, version |-> v, risk |-> risk] \in Claim
    BY <1>2 DEF Claim
  <1>4. \A d \in OfVersion(rebound, g, v) : d.risk = risk => d.intent = i
    BY <1>1 DEF Fresh
  <1>5. SingleUse(rebound') /\ rebound' \subseteq Claim
    BY <1>1, <1>3, <1>4, TablesParts, ClaimOnce
  <1> QED
    BY <1>1, <1>5, TablesParts DEF TablesInv, Table, Filled

-----------------------------------------------------------------------------
(* The invariant *)

\* An empty datastore and its backup.
LEMMA UsageInit == Init => UsageInv
  <1> SUFFICES ASSUME Init PROVE UsageInv
    OBVIOUS
  <1>1. /\ usage = [i \in Intents |-> NoRow] /\ attempts = {} /\ initial = {} /\ rebound = {}
        /\ caps = NoCaps /\ anchored = NoCaps /\ clock = 0 /\ refused = FALSE
        /\ backup = <<usage, attempts, initial, rebound, caps>>
    BY DEF Init, tables
  <1>2. NoCaps \in CapTable /\ NoCaps.version = 0
    BY DEF NoCaps, CapTable
  <1>3. \A i \in Intents : ~ActiveIn(usage, i)
    BY <1>1 DEF ActiveIn, NoRow
  <1>4. \A t, w : Windowed(usage, t, w) = {}
    BY <1>3 DEF Windowed, ActiveIn
  <1>5. TurnoverKept(usage) /\ ExposureKept(usage)
    BY <1>4 DEF TurnoverKept, ExposureKept
  <1>6. VelocityKept(usage, attempts)
    BY <1>1, <1>4 DEF VelocityKept, TriesIn, SlotsIn
  <1>7. IsFiniteSet({i \in Intents : usage[i] # NoRow}) /\ IsFiniteSet(attempts)
    <2>1. {i \in Intents : usage[i] # NoRow} = {}
      BY <1>1
    <2> QED
      BY <1>1, <2>1, FS_EmptySet
  <1>8. usage \in [Intents -> Row \cup {NoRow}]
    BY <1>1
  <1>9. TablesInv(usage, attempts, initial, rebound, caps)
    BY <1>1, <1>2, <1>5, <1>6, <1>7, <1>8 DEF TablesInv, SingleUse
  <1>10. TypeOK
    <2>1. 0 \in 0 .. MaxClock
      BY UsageConstants
    <2> QED
      BY <1>1, <1>2, <1>8, <2>1 DEF TypeOK
  <1>11. /\ backup[1] = usage /\ backup[2] = attempts /\ backup[3] = initial
         /\ backup[4] = rebound /\ backup[5] = caps
    BY <1>1
  <1> QED
    BY <1>1, <1>2, <1>9, <1>10, <1>11 DEF UsageInv

\* What intents do: the tables stay within the limits, claims and rows only accumulate,
\* and the operators' side is left alone.
LEMMA IntentKeeps ==
  ASSUME UsageInv, NEW i \in Intents, IntentStep(i)
  PROVE  /\ TablesInv(usage', attempts', initial', rebound', caps')
         /\ \A j \in Intents : usage[j] # NoRow => usage'[j] # NoRow
         /\ initial \subseteq initial' /\ rebound \subseteq rebound'
         /\ UNCHANGED <<caps, anchored, backup, clock, refused>>
  <1>1. CASE \E g \in Grants, v \in Versions, amount \in Amounts, risk \in RiskStates, now \in Now :
               ReserveUsage(i, g, v, amount, risk, now)
    <2>1. PICK g \in Grants, v \in Versions, amount \in Amounts, risk \in RiskStates, now \in Now :
               ReserveUsage(i, g, v, amount, risk, now)
      BY <1>1
    <2>2. /\ TablesInv(usage', attempts', initial', rebound', caps')
          /\ \A j \in Intents : usage[j] # NoRow => usage'[j] # NoRow
      BY <2>1, ReserveStep
    <2> QED
      BY <2>1, <2>2 DEF ReserveUsage
  <1>2. CASE \E risk \in RiskStates : ClaimPermitRiskState(i, risk)
    <2>1. PICK risk \in RiskStates : ClaimPermitRiskState(i, risk)
      BY <1>2
    <2>2. TablesInv(usage', attempts', initial', rebound', caps')
      BY <2>1, ClaimStep
    <2> QED
      BY <2>1, <2>2 DEF ClaimPermitRiskState
  <1>3. CASE \E now \in Now : BeginSubmission(i, now)
    <2>1. PICK now \in Now : BeginSubmission(i, now)
      BY <1>3
    <2>2. /\ TablesInv(usage', attempts', initial', rebound', caps')
          /\ \A j \in Intents : usage[j] # NoRow <=> usage'[j] # NoRow
      BY <2>1, SubmitStep
    <2> QED
      BY <2>1, <2>2 DEF BeginSubmission
  <1>4. CASE CommitUsage(i) \/ ReleaseUsage(i)
    <2>1. /\ TablesInv(usage', attempts', initial', rebound', caps')
          /\ \A j \in Intents : usage[j] # NoRow <=> usage'[j] # NoRow
      BY <1>4, SettleStep
    <2> QED
      BY <1>4, <2>1 DEF CommitUsage, ReleaseUsage
  <1> QED
    BY <1>1, <1>2, <1>3, <1>4 DEF IntentStep

\* A change of a cap, recorded by the anchor or not.
LEMMA CapStep ==
  ASSUME UsageInv, NEW s \in CapScopes, NEW cap \in Caps \cup {Uncapped}, NEW answer,
         SetExposureCap(s, cap, answer)
  PROVE  UsageInv'
  <1> DEFINE next == [cap |-> [caps.cap EXCEPT ![s] = cap], version |-> NextVersion]
  <1>1. /\ caps' = next /\ anchored' = (IF answer = "up" THEN next ELSE anchored)
        /\ UNCHANGED <<usage, attempts, initial, rebound, backup, clock, refused>>
    BY DEF SetExposureCap
  <1>2. /\ caps \in CapTable /\ anchored \in CapTable
        /\ caps.version \in Nat /\ anchored.version \in Nat
        /\ backup[5] \in CapTable /\ backup[5].version \in Nat
    BY DEF UsageInv, TypeOK, TablesInv, CapTable
  <1>3. next \in CapTable
    BY <1>2, UsageConstants DEF CapTable, NextVersion, Scopes
  <1>4. next.version > caps.version /\ next.version > anchored.version /\ next.version \in Nat
    BY <1>2 DEF NextVersion
  <1> HIDE DEF next
  <1>5. TablesInv(usage', attempts', initial', rebound', caps')
    BY <1>1, <1>3 DEF UsageInv, TablesInv
  <1>6. anchored' \in CapTable /\ clock' \in 0 .. MaxClock /\ refused' \in BOOLEAN
    BY <1>1, <1>2, <1>3 DEF UsageInv, TypeOK
  <1>7. TypeOK'
    BY <1>5, <1>6 DEF TablesInv, TypeOK
  <1>8. /\ caps'.version = anchored'.version => caps' = anchored'
        /\ backup'[5].version <= anchored'.version
        /\ backup'[5].version = anchored'.version => backup'[5] = anchored'
    <2>1. /\ backup[5].version <= anchored.version
          /\ backup[5].version = anchored.version => backup[5] = anchored
      BY DEF UsageInv
    <2>2. CASE answer = "up"
      <3>1. anchored' = next /\ caps' = next /\ backup' = backup
        BY <1>1, <2>2
      <3>2. backup[5].version < next.version
        BY <1>2, <1>4, <2>1
      <3> QED
        BY <1>2, <1>4, <3>1, <3>2
    <2>3. CASE answer # "up"
      <3>1. anchored' = anchored /\ caps' = next /\ backup' = backup
        BY <1>1, <2>3
      <3> QED
        BY <1>2, <1>4, <2>1, <3>1
    <2> QED
      BY <2>2, <2>3
  <1> QED
    BY <1>1, <1>5, <1>7, <1>8 DEF UsageInv

\* Every step keeps the invariant.
LEMMA UsageStep ==
  ASSUME UsageInv, [Next]_vars
  PROVE  UsageInv'
  <1>1. CASE \E i \in Intents : IntentStep(i)
    <2>1. PICK i \in Intents : IntentStep(i)
      BY <1>1
    <2>2. /\ TablesInv(usage', attempts', initial', rebound', caps')
          /\ \A j \in Intents : usage[j] # NoRow => usage'[j] # NoRow
          /\ initial \subseteq initial' /\ rebound \subseteq rebound'
          /\ UNCHANGED <<caps, anchored, backup, clock, refused>>
      BY <2>1, IntentKeeps
    <2>3. TypeOK'
      BY <2>2 DEF UsageInv, TypeOK, TablesInv
    <2> QED
      BY <2>2, <2>3 DEF UsageInv
  <1>2. CASE \E s \in CapScopes, cap \in Caps \cup {Uncapped} :
               \E answer \in Answers \ {"down"} : SetExposureCap(s, cap, answer)
    BY <1>2, CapStep
  <1>3. CASE \E s \in CapScopes, cap \in Caps \cup {Uncapped} :
               \E answer \in Answers \ {"up"} : SetExposureCapFails(s, cap, answer)
    <2>1. UNCHANGED <<usage, attempts, initial, rebound, caps, anchored, backup, clock>>
      BY <1>3 DEF SetExposureCapFails, tables
    <2>2. refused' \in BOOLEAN
      BY <1>3 DEF SetExposureCapFails, UsageInv, TypeOK
    <2>3. TypeOK'
      BY <2>1, <2>2 DEF UsageInv, TypeOK
    <2> QED
      BY <2>1, <2>3 DEF UsageInv
  <1>4. CASE Backup
    <2>1. /\ UNCHANGED <<usage, attempts, initial, rebound, caps, anchored, clock, refused>>
          /\ backup' = <<usage, attempts, initial, rebound, caps>>
          /\ anchored.version >= caps.version
      BY <1>4 DEF Backup, tables
    <2>2. /\ backup'[1] = usage /\ backup'[2] = attempts /\ backup'[3] = initial
          /\ backup'[4] = rebound /\ backup'[5] = caps
      BY <2>1
    <2>3. TypeOK'
      BY <2>1 DEF UsageInv, TypeOK
    <2>4. caps.version <= anchored.version
      BY <2>1 DEF UsageInv, TypeOK, CapTable
    <2> QED
      BY <2>1, <2>2, <2>3, <2>4 DEF UsageInv
  <1>5. CASE Restore
    <2>1. /\ usage' = backup[1] /\ attempts' = backup[2] /\ initial' = backup[3]
          /\ rebound' = backup[4] /\ caps' = backup[5]
          /\ UNCHANGED <<anchored, backup, clock, refused>>
      BY <1>5 DEF Restore
    <2>2. TablesInv(usage', attempts', initial', rebound', caps')
      BY <2>1 DEF UsageInv
    <2>3. TypeOK'
      BY <2>1, <2>2 DEF UsageInv, TypeOK, TablesInv
    <2> QED
      BY <2>1, <2>2, <2>3 DEF UsageInv
  <1>6. CASE Tick
    <2>1. /\ UNCHANGED <<usage, attempts, initial, rebound, caps, anchored, backup, refused>>
          /\ clock < MaxClock /\ clock' = clock + 1
      BY <1>6 DEF Tick, tables
    <2>2. clock' \in 0 .. MaxClock
      BY <2>1, UsageConstants DEF UsageInv, TypeOK
    <2>3. TypeOK'
      BY <2>1, <2>2 DEF UsageInv, TypeOK
    <2> QED
      BY <2>1, <2>3 DEF UsageInv
  <1>7. CASE UNCHANGED vars
    <2>1. UNCHANGED <<usage, attempts, initial, rebound, caps, anchored, backup, clock, refused>>
      BY <1>7 DEF vars, tables
    <2> QED
      BY <2>1 DEF UsageInv, TypeOK
  <1> QED
    BY <1>1, <1>2, <1>3, <1>4, <1>5, <1>6, <1>7 DEF Next, OperatorStep

\* The inductive invariant of the usage ledger.
THEOREM UsageInvariant == Spec => []UsageInv
  BY UsageInit, UsageStep, PTL DEF Spec

\* The tables hold rows, attempts, claims and caps of their kinds, and no intent has more
\* attempts than its limit numbers.
THEOREM UsageTypeCorrect == Spec => []TypeOK
  <1>1. UsageInv => TypeOK
    BY DEF UsageInv
  <1> QED
    BY <1>1, UsageInvariant, PTL

\* The turnover of a grant in any window stays within the limit of a version among it.
THEOREM TurnoverWithinLimit == Spec => []TurnoverBounded
  <1>1. ASSUME UsageInv, NEW g \in Grants, NEW t \in 0 .. MaxClock,
               NEW rows, rows = {i \in InWindow(t) : usage[i].grant = g}, rows # {}
        PROVE  \E i \in rows : Spent(rows) <= Turnover[usage[i].version]
    <2>1. rows \in SUBSET {i \in Windowed(usage, t, TurnoverWindow) : usage[i].grant = g}
      BY <1>1 DEF InWindow, Windowed, Active
    <2>2. PICK i \in rows : SpentIn(usage, rows) <= Turnover[usage[i].version]
      BY <1>1, <2>1, TablesParts DEF TurnoverKept
    <2> QED
      BY <2>2, SpentNow
  <1>2. UsageInv => TurnoverBounded
    BY <1>1 DEF TurnoverBounded
  <1> QED
    BY <1>2, UsageInvariant, PTL

\* The turnover of a scope in any window stays within a cap that admitted part of it.
THEOREM ExposureWithinCap == Spec => []ExposureCapped
  <1>1. ASSUME UsageInv, NEW s \in Scopes, NEW t \in 0 .. MaxClock, NEW rows,
               rows = {i \in InWindow(t) : InScope(s, usage[i].grant) /\ usage[i].amount > 0},
               rows # {}
        PROVE  \E i \in rows : usage[i].allowed[s] = Uncapped \/ Spent(rows) <= usage[i].allowed[s]
    <2>1. rows \in SUBSET {i \in Windowed(usage, t, TurnoverWindow) :
                             InScope(s, usage[i].grant) /\ usage[i].amount > 0}
      BY <1>1 DEF InWindow, Windowed, Active
    <2>2. PICK i \in rows : \/ usage[i].allowed[s] = Uncapped
                            \/ SpentIn(usage, rows) <= usage[i].allowed[s]
      BY <1>1, <2>1, TablesParts DEF ExposureKept
    <2> QED
      BY <2>2, SpentNow
  <1>2. UsageInv => ExposureCapped
    BY <1>1 DEF ExposureCapped
  <1> QED
    BY <1>2, UsageInvariant, PTL

\* Attempts and provisional slots of a window stay within the limit of a version among them.
THEOREM VelocityWithinLimit == Spec => []VelocityBounded
  <1>1. ASSUME UsageInv, NEW g \in Grants, NEW t \in 0 .. MaxClock, NEW tries, NEW slots,
               tries = {a \in attempts : a.grant = g /\ a.at \in t - ActionWindow .. t},
               slots = {i \in Active : /\ usage[i].grant = g /\ ~usage[i].submitted
                                       /\ usage[i].ts \in t - ActionWindow .. t},
               tries # {} \/ slots # {}
        PROVE  \E v \in {a.version : a \in tries} \cup {usage[i].version : i \in slots} :
                 Cardinality(tries) + Cardinality(slots) <= Actions[v]
    <2>1. tries \in SUBSET TriesIn(attempts, g, t) /\ slots \in SUBSET SlotsIn(usage, g, t)
      BY <1>1 DEF TriesIn, SlotsIn, Windowed, Active
    <2>2. \/ \E x \in tries : Cardinality(tries) + Cardinality(slots) <= Actions[x.version]
          \/ \E i \in slots : Cardinality(tries) + Cardinality(slots) <= Actions[usage[i].version]
      BY <1>1, <2>1, TablesParts DEF VelocityKept
    <2> QED
      BY <2>2
  <1>2. UsageInv => VelocityBounded
    BY <1>1 DEF VelocityBounded
  <1> QED
    BY <1>2, UsageInvariant, PTL

\* A risk state is claimed by one intent in each ledger.
THEOREM RiskUsedOnce == Spec => []RiskSingleUse
  <1>1. UsageInv => RiskSingleUse
    BY TablesParts DEF RiskSingleUse, SingleUse
  <1> QED
    BY <1>1, UsageInvariant, PTL

\* Money is reserved only under the table the anchor was last told of, or a later one.
THEOREM CapsNeverStale == Spec => NoStaleCaps
  <1> DEFINE Kept == \A i \in Intents : usage[i] = NoRow /\ usage'[i] # NoRow /\ usage'[i].amount > 0 =>
                       caps.version > anchored.version \/ caps = anchored
  <1>1. UsageInv /\ [Next]_vars => [Kept]_vars
    <2> SUFFICES ASSUME UsageInv, Next, NEW j \in Intents,
                        usage[j] = NoRow, usage'[j] # NoRow, usage'[j].amount > 0
                 PROVE  caps.version > anchored.version \/ caps = anchored
      OBVIOUS
    <2>1. ASSUME NEW i \in Intents, NEW g \in Grants, NEW v \in Versions, NEW amount \in Amounts,
                 NEW risk \in RiskStates, NEW now \in Now, ReserveUsage(i, g, v, amount, risk, now)
          PROVE  caps.version > anchored.version \/ caps = anchored
      <3>1. amount > 0
        BY <2>1, ReserveStep
      <3>2. ~(caps.version < anchored.version)
        BY <2>1, <3>1 DEF ReserveUsage, Regressed
      <3>3. caps.version \in Nat /\ anchored.version \in Nat
        BY DEF UsageInv, TypeOK, CapTable
      <3>4. caps.version = anchored.version => caps = anchored
        BY DEF UsageInv
      <3> QED
        BY <3>2, <3>3, <3>4
    <2>2. ASSUME NEW i \in Intents, NEW risk \in RiskStates, ClaimPermitRiskState(i, risk)
          PROVE  FALSE
      BY <2>2 DEF ClaimPermitRiskState
    <2>3. ASSUME NEW i \in Intents, NEW now \in Now, BeginSubmission(i, now)
          PROVE  FALSE
      BY <2>3, SubmitStep
    <2>4. ASSUME NEW i \in Intents, CommitUsage(i) \/ ReleaseUsage(i)
          PROVE  FALSE
      BY <2>4, SettleStep
    <2>5. CASE Restore
      <3>1. usage' = backup[1] /\ (backup[1][j] # NoRow => usage[j] # NoRow)
        BY <2>5 DEF Restore, UsageInv
      <3> QED
        BY <3>1
    <2>6. CASE (OperatorStep /\ ~Restore) \/ Tick
      <3>1. usage' = usage
        BY <2>6 DEF OperatorStep, SetExposureCap, SetExposureCapFails, Backup, Tick, tables
      <3> QED
        BY <3>1
    <2> QED
      BY <2>1, <2>2, <2>3, <2>4, <2>5, <2>6 DEF Next, IntentStep
  <1> HIDE DEF Kept
  <1>2. Spec => [][Kept]_vars
    BY <1>1, UsageInvariant, PTL DEF Spec
  <1> QED
    BY <1>2 DEF NoStaleCaps, Kept

=============================================================================
