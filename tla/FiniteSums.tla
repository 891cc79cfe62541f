------------------------------ MODULE FiniteSums ------------------------------
(***************************************************************************)
(* Sums and recursion over finite sets, for the proofs about totals of     *)
(* amounts and about folds over a queue.  The recursion of the library's   *)
(* fold is unfolded once, here; what follows is cited everywhere else.     *)
(* Inductions over finite sets are made with the minimal counterexample    *)
(* that well-foundedness of strict inclusion gives.                        *)
(***************************************************************************)
EXTENDS Integers, Sequences, FiniteSetsExt, FiniteSetTheorems, TLAPS

Total(f, S) == MapThenSumSet(LAMBDA i : f[i], S)

\* The element the fold takes first.
Pick(s) == CHOOSE x \in s : TRUE

\* What a function that computes all partial totals satisfies.
Sums(g, f, S) ==
  g = [s \in SUBSET S |-> IF s = {} THEN 0 ELSE f[Pick(s)] + g[s \ {Pick(s)}]]

-----------------------------------------------------------------------------
(* Induction over finite sets *)

\* Among subsets of a finite set there is a minimal one.
LEMMA MinimalSubset ==
  ASSUME NEW S, IsFiniteSet(S), NEW T, T \subseteq SUBSET S, T # {}
  PROVE  \E U \in T : \A V \in T : V \subseteq U => V = U
  <1> DEFINE R == StrictSubsetOrdering(S)
  <1>1. IsWellFoundedOn(R, FiniteSubsetsOf(S))
    BY FS_StrictSubsetOrderingWellFounded
  <1>2. T \subseteq FiniteSubsetsOf(S)
    BY FS_Subset DEF FiniteSubsetsOf
  <1>3. PICK U \in T : \A V \in T : ~(<<V, U>> \in R)
    <2> HIDE DEF R
    <2> QED
      BY <1>1, <1>2, WFMin
  <1>4. \A V \in T : V \subseteq U /\ V # U => <<V, U>> \in R
    BY DEF StrictSubsetOrdering
  <1>5. \A V \in T : V \subseteq U => V = U
    <2> HIDE DEF R
    <2> QED
      BY <1>3, <1>4
  <1> QED
    BY <1>5

-----------------------------------------------------------------------------
(* Recursion over finite sets *)

\* What a function satisfies that takes the elements of each part of S, c[s] first.
Solves(g, S, base, c, F) ==
  \A s \in SUBSET S : g[s] = IF s = {} THEN base ELSE F[<<c[s], g[s \ {c[s]}]>>]

\* The recursion has one solution.
LEMMA SolutionUnique ==
  ASSUME NEW S, IsFiniteSet(S), NEW base, NEW c, \A s \in SUBSET S : s # {} => c[s] \in s, NEW F,
         NEW A \in SUBSET S, NEW B \in SUBSET S, NEW g, NEW h,
         Solves(g, A, base, c, F), Solves(h, B, base, c, F)
  PROVE  \A U \in SUBSET (A \cap B) : g[U] = h[U]
  <1> DEFINE Bad == {U \in SUBSET S : U \subseteq A /\ U \subseteq B /\ g[U] # h[U]}
  <1> SUFFICES ASSUME Bad # {} PROVE FALSE
    OBVIOUS
  <1>1. PICK U \in Bad : \A W \in Bad : W \subseteq U => W = U
    <2>1. Bad \subseteq SUBSET S
      OBVIOUS
    <2> HIDE DEF Bad
    <2> QED
      BY <2>1, MinimalSubset
  <1>2. U \in SUBSET S /\ U \subseteq A /\ U \subseteq B /\ g[U] # h[U]
    OBVIOUS
  <1>3. U # {}
    BY <1>2 DEF Solves
  <1> DEFINE W == U \ {c[U]}
  <1>4. W \subseteq U /\ W # U
    BY <1>2, <1>3
  <1>5. g[W] = h[W]
    BY <1>1, <1>2, <1>4
  <1>6. g[U] = F[<<c[U], g[W]>>] /\ h[U] = F[<<c[U], h[W]>>]
    BY <1>2, <1>3 DEF Solves
  <1> HIDE DEF Bad, W
  <1> QED
    BY <1>2, <1>5, <1>6

\* The recursion has a solution, with values where the step takes them.
LEMMA SolutionExists ==
  ASSUME NEW S, IsFiniteSet(S), NEW V, NEW base \in V,
         NEW c, \A s \in SUBSET S : s # {} => c[s] \in s,
         NEW F \in [S \X V -> V]
  PROVE  \E g \in [SUBSET S -> V] : Solves(g, S, base, c, F)
  <1> DEFINE Solvable(A) == \E g \in [SUBSET A -> V] : Solves(g, A, base, c, F)
             Bad == {A \in SUBSET S : ~Solvable(A)}
  <1> SUFFICES ASSUME Bad # {} PROVE FALSE
    OBVIOUS
  <1>1. PICK U \in Bad : \A W \in Bad : W \subseteq U => W = U
    <2>1. Bad \subseteq SUBSET S
      OBVIOUS
    <2> HIDE DEF Bad
    <2> QED
      BY <2>1, MinimalSubset
  <1>2. U \in SUBSET S /\ ~Solvable(U)
    OBVIOUS
  <1>3. \A A \in SUBSET U : A # U => Solvable(A)
    BY <1>1, <1>2
  <1>4. U # {}
    <2> DEFINE g0 == [s \in SUBSET {} |-> base]
    <2>1. g0 \in [SUBSET {} -> V] /\ Solves(g0, {}, base, c, F)
      BY DEF Solves
    <2> HIDE DEF g0
    <2>2. Solvable({})
      BY <2>1
    <2> HIDE DEF Solvable
    <2> QED
      BY <1>2, <2>2
  <1> DEFINE sol(A) == CHOOSE g \in [SUBSET A -> V] : Solves(g, A, base, c, F)
  <1>5. ASSUME NEW A \in SUBSET U, A # U
        PROVE  sol(A) \in [SUBSET A -> V] /\ Solves(sol(A), A, base, c, F)
    <2>1. Solvable(A)
      BY <1>3, <1>5
    <2> QED
      BY <2>1
  <1> HIDE DEF sol
  <1> DEFINE W == U \ {c[U]}
             g == [s \in SUBSET U |-> IF s = U THEN F[<<c[U], sol(W)[W]>>] ELSE sol(s)[s]]
  <1>6. W \in SUBSET U /\ W # U /\ c[U] \in S
    BY <1>2, <1>4
  <1>7. ASSUME NEW A \in SUBSET U, A # U
        PROVE  sol(A)[A] \in V
    <2>1. sol(A) \in [SUBSET A -> V] /\ A \in SUBSET A
      BY <1>5, <1>7
    <2> QED
      BY <2>1
  <1>8. g \in [SUBSET U -> V]
    <2>1. F[<<c[U], sol(W)[W]>>] \in V
      BY <1>6, <1>7
    <2> HIDE DEF W
    <2> QED
      BY <1>7, <2>1
  <1>9. ASSUME NEW s \in SUBSET U
        PROVE  g[s] = IF s = {} THEN base ELSE F[<<c[s], g[s \ {c[s]}]>>]
    <2>1. CASE s = U
      <3>1. g[s] = F[<<c[U], sol(W)[W]>>]
        BY <2>1
      <3>2. g[W] = sol(W)[W]
        BY <1>6
      <3> HIDE DEF g
      <3> QED
        BY <1>4, <2>1, <3>1, <3>2
    <2>2. CASE s # U
      <3>1. g[s] = sol(s)[s] /\ Solves(sol(s), s, base, c, F)
        BY <1>5, <2>2
      <3>2. CASE s = {}
        BY <3>1, <3>2 DEF Solves
      <3>3. CASE s # {}
        <4> DEFINE t == s \ {c[s]}
        <4>1. t \in SUBSET U /\ t # U /\ t \in SUBSET s
          BY <1>2, <2>2, <3>3
        <4>2. g[t] = sol(t)[t] /\ Solves(sol(t), t, base, c, F)
          BY <1>5, <4>1
        <4>3. sol(s)[s] = F[<<c[s], sol(s)[t]>>]
          BY <3>1, <3>3 DEF Solves
        <4>4. t \in SUBSET S /\ s \in SUBSET S /\ t \in SUBSET (s \cap t)
          BY <1>2, <4>1
        <4> HIDE DEF t, g
        <4>5. sol(s)[t] = sol(t)[t]
          BY <3>1, <4>2, <4>4, SolutionUnique
        <4> QED
          BY <3>1, <3>3, <4>2, <4>3, <4>5 DEF t
      <3> QED
        BY <3>2, <3>3
    <2> QED
      BY <2>1, <2>2
  <1> HIDE DEF g
  <1>10. Solves(g, U, base, c, F)
    BY <1>9 DEF Solves
  <1> QED
    BY <1>2, <1>8, <1>10

\* A finite set has a greatest element in every total, transitive relation.
LEMMA GreatestExists ==
  ASSUME NEW S, IsFiniteSet(S), S # {}, NEW R,
         \A x, y \in S : <<x, y>> \in R \/ <<y, x>> \in R,
         \A x, y, z \in S : <<x, y>> \in R /\ <<y, z>> \in R => <<x, z>> \in R
  PROVE  \E z \in S : \A y \in S : <<y, z>> \in R
  <1> DEFINE HasMax(V) == \E z \in V : \A y \in V : <<y, z>> \in R
             Bad == {V \in SUBSET S : V # {} /\ ~HasMax(V)}
  <1> SUFFICES ASSUME Bad # {} PROVE FALSE
    OBVIOUS
  <1>1. PICK U \in Bad : \A W \in Bad : W \subseteq U => W = U
    <2>1. Bad \subseteq SUBSET S
      OBVIOUS
    <2> HIDE DEF Bad
    <2> QED
      BY <2>1, MinimalSubset
  <1>2. U \in SUBSET S /\ U # {} /\ ~HasMax(U)
    OBVIOUS
  <1>3. PICK y \in U : TRUE
    BY <1>2
  <1> DEFINE W == U \ {y}
  <1>4. W \in SUBSET S /\ W \subseteq U /\ W # U
    BY <1>2, <1>3
  <1>5. W # {}
    BY <1>2, <1>3
  <1>6. HasMax(W)
    <2>1. W \notin Bad
      <3> HIDE DEF Bad, W
      <3> QED
        BY <1>1, <1>4
    <2> HIDE DEF HasMax, W
    <2> QED
      BY <1>4, <1>5, <2>1
  <1>7. PICK z \in W : \A x \in W : <<x, z>> \in R
    BY <1>6
  <1>8. (\A x \in U : <<x, z>> \in R) \/ (\A x \in U : <<x, y>> \in R)
    BY <1>2, <1>4, <1>7
  <1> QED
    BY <1>2, <1>4, <1>8

\* A nonempty finite set of numbers has a greatest one.
LEMMA MaxOf ==
  ASSUME NEW s \in SUBSET Nat, IsFiniteSet(s), s # {}
  PROVE  Max(s) \in s /\ \A y \in s : y <= Max(s)
  <1> DEFINE R == {x \in Int \X Int : x[1] <= x[2]}
  <1>1. \A x, y \in s : <<x, y>> \in R <=> x <= y
    OBVIOUS
  <1>2. /\ \A x, y \in s : <<x, y>> \in R \/ <<y, x>> \in R
        /\ \A x, y, z \in s : <<x, y>> \in R /\ <<y, z>> \in R => <<x, z>> \in R
    OBVIOUS
  <1>3. \E z \in s : \A y \in s : <<y, z>> \in R
    <2> HIDE DEF R
    <2> QED
      BY <1>2, GreatestExists
  <1>4. \E z \in s : \A y \in s : z >= y
    BY <1>1, <1>3
  <1> QED
    BY <1>4 DEF Max

\* A nonempty set of positions has a last one.
LEMMA MaxIn ==
  ASSUME NEW n \in Nat, NEW s \in SUBSET (1 .. n), s # {}
  PROVE  Max(s) \in s
  <1>1. IsFiniteSet(s)
    <2>1. IsFiniteSet(1 .. n)
      BY FS_Interval
    <2> QED
      BY <2>1, FS_Subset
  <1>2. s \in SUBSET Nat
    OBVIOUS
  <1> QED
    BY <1>1, <1>2, MaxOf

\* A nonempty set of natural numbers has a least one.
LEMMA MinIn ==
  ASSUME NEW s \in SUBSET Nat, s # {}
  PROVE  Min(s) \in s /\ \A y \in s : Min(s) <= y
  <1> DEFINE R == {x \in Int \X Int : x[1] >= x[2]}
  <1>1. PICK x \in s : TRUE
    OBVIOUS
  <1> DEFINE t == {y \in s : y <= x}
  <1>2. IsFiniteSet(t) /\ t # {}
    <2>0. x \in Nat
      OBVIOUS
    <2>1. IsFiniteSet(0 .. x)
      BY <2>0, FS_Interval
    <2>2. x \in t
      BY <2>0
    <2>3. ASSUME NEW y \in t PROVE y \in 0 .. x
      <3>1. y \in Nat /\ y <= x
        BY <2>3
      <3> QED
        BY <2>0, <3>1
    <2> HIDE DEF t
    <2>4. t \subseteq 0 .. x
      BY <2>3
    <2> QED
      BY <2>1, <2>2, <2>4, FS_Subset
  <1>3. \A y, z \in t : <<y, z>> \in R <=> y >= z
    OBVIOUS
  <1>4. /\ \A y, z \in t : <<y, z>> \in R \/ <<z, y>> \in R
        /\ \A u, y, z \in t : <<u, y>> \in R /\ <<y, z>> \in R => <<u, z>> \in R
    OBVIOUS
  <1>5. \E z \in t : \A y \in t : <<y, z>> \in R
    <2> HIDE DEF R, t
    <2> QED
      BY <1>2, <1>4, GreatestExists
  <1>6. PICK z \in t : \A y \in t : z <= y
    BY <1>3, <1>5
  <1>7. z \in s /\ \A y \in s : z <= y
    BY <1>6
  <1> QED
    BY <1>7 DEF Min

-----------------------------------------------------------------------------
(* Sequences *)

\* Appending changes nothing that was there.
LEMMA AppendFacts ==
  ASSUME NEW T, NEW s \in Seq(T), NEW x \in T
  PROVE  /\ Len(Append(s, x)) = Len(s) + 1 /\ DOMAIN Append(s, x) = 1 .. Len(s) + 1
         /\ Append(s, x)[Len(s) + 1] = x /\ Append(s, x) # <<>>
         /\ \A i \in DOMAIN s : i \in 1 .. Len(s) + 1 /\ i # Len(s) + 1 /\ Append(s, x)[i] = s[i]
         /\ \A i \in 1 .. Len(s) + 1 : i # Len(s) + 1 => i \in DOMAIN s
  OBVIOUS

-----------------------------------------------------------------------------
(* The recursion of the fold *)

\* The total is the value at S of a function that the fold's recursion defines.
LEMMA TotalUnfolds ==
  ASSUME NEW f, NEW S
  PROVE  Total(f, S) = (CHOOSE g : Sums(g, f, S))[S]
  BY DEF Total, MapThenSumSet, MapThenFoldSet, Pick, Sums

\* A nonempty set holds the element picked from it.
LEMMA PickIn ==
  ASSUME NEW s, s # {}
  PROVE  Pick(s) \in s
  BY DEF Pick

\* Nothing sums to nothing.
LEMMA TotalEmpty ==
  ASSUME NEW f
  PROVE  Total(f, {}) = 0
  <1> DEFINE g0 == [s \in SUBSET {} |-> 0]
  <1>1. Sums(g0, f, {})
    BY DEF Sums
  <1> DEFINE g == CHOOSE h : Sums(h, f, {})
  <1>2. Sums(g, f, {})
    BY <1>1
  <1> HIDE DEF g
  <1>3. g[{}] = 0
    BY <1>2 DEF Sums
  <1> QED
    BY <1>3, TotalUnfolds DEF g

\* If the recursion has a solution on S, the solution gives the totals of the subsets
\* whose totals follow the recursion.
LEMMA SolutionIsTotal ==
  ASSUME NEW f, NEW S, IsFiniteSet(S), NEW g, Sums(g, f, S),
         NEW U \in SUBSET S,
         \A V \in SUBSET U : V # {} => Total(f, V) = f[Pick(V)] + Total(f, V \ {Pick(V)})
  PROVE  g[U] = Total(f, U)
  <1> DEFINE Bad == {V \in SUBSET U : g[V] # Total(f, V)}
  <1> SUFFICES ASSUME Bad # {} PROVE FALSE
    OBVIOUS
  <1>0. IsFiniteSet(U)
    BY FS_Subset
  <1>1. PICK V \in Bad : \A W \in Bad : W \subseteq V => W = V
    <2> HIDE DEF Bad
    <2>1. Bad \subseteq SUBSET U
      BY DEF Bad
    <2> QED
      BY <1>0, <2>1, MinimalSubset
  <1>2. V \in SUBSET S /\ V \in SUBSET U /\ g[V] # Total(f, V)
    OBVIOUS
  <1>3. V # {}
    <2>1. g[{}] = 0
      BY DEF Sums
    <2> QED
      BY <1>2, <2>1, TotalEmpty
  <1> DEFINE W == V \ {Pick(V)}
  <1>4. W \subseteq V /\ W # V
    BY <1>3, PickIn
  <1>5. W \notin Bad
    BY <1>1, <1>4
  <1>6. g[W] = Total(f, W)
    BY <1>2, <1>4, <1>5
  <1>7. g[V] = f[Pick(V)] + g[W]
    BY <1>2, <1>3 DEF Sums
  <1>8. Total(f, V) = f[Pick(V)] + Total(f, W)
    BY <1>2, <1>3
  <1> HIDE DEF Bad, W
  <1> QED
    BY <1>2, <1>6, <1>7, <1>8

\* The total of a nonempty set is one of its amounts and the total of the others.
LEMMA TotalStep ==
  ASSUME NEW f, NEW S, IsFiniteSet(S), S # {}
  PROVE  Total(f, S) = f[Pick(S)] + Total(f, S \ {Pick(S)})
  <1> DEFINE Good(V) == Total(f, V) = f[Pick(V)] + Total(f, V \ {Pick(V)})
             Bad == {V \in SUBSET S : V # {} /\ ~Good(V)}
  <1> SUFFICES ASSUME Bad # {} PROVE FALSE
    OBVIOUS
  <1>1. PICK U \in Bad : \A W \in Bad : W \subseteq U => W = U
    <2>1. Bad \subseteq SUBSET S
      OBVIOUS
    <2> HIDE DEF Bad
    <2> QED
      BY <2>1, MinimalSubset
  <1>2. U \in SUBSET S /\ U # {} /\ ~Good(U)
    OBVIOUS
  <1>3. \A V \in SUBSET U : V # U /\ V # {} => Good(V)
    BY <1>1, <1>2
  <1>4. IsFiniteSet(U)
    BY <1>2, FS_Subset
  <1> DEFINE rest == U \ {Pick(U)}
             g == [s \in SUBSET U |-> IF s = U THEN f[Pick(U)] + Total(f, rest) ELSE Total(f, s)]
  <1>5. rest \in SUBSET U /\ rest # U
    BY <1>2, PickIn
  <1>6. Sums(g, f, U)
    <2>1. ASSUME NEW s \in SUBSET U
          PROVE  g[s] = IF s = {} THEN 0 ELSE f[Pick(s)] + g[s \ {Pick(s)}]
      <3>1. CASE s = {}
        BY <1>2, <3>1, TotalEmpty
      <3>2. CASE s = U
        BY <1>2, <1>5, <3>2
      <3>3. CASE s # {} /\ s # U
        <4>1. g[s] = Total(f, s) /\ Good(s)
          BY <1>3, <3>3
        <4>2. s \ {Pick(s)} \in SUBSET U /\ s \ {Pick(s)} # U
          BY <3>3, PickIn
        <4>3. g[s \ {Pick(s)}] = Total(f, s \ {Pick(s)})
          BY <4>2
        <4> QED
          BY <3>3, <4>1, <4>3
      <3> QED
        BY <3>1, <3>2, <3>3
    <2>2. g = [s \in SUBSET U |-> g[s]]
      OBVIOUS
    <2> HIDE DEF g
    <2> QED
      BY <2>1, <2>2 DEF Sums
  <1> DEFINE h == CHOOSE k : Sums(k, f, U)
  <1>7. Sums(h, f, U)
    <2> HIDE DEF g
    <2> QED
      BY <1>6
  <1>8. Total(f, U) = h[U]
    BY TotalUnfolds
  <1> HIDE DEF h
  <1>9. h[U] = f[Pick(U)] + h[rest]
    BY <1>2, <1>7 DEF Sums
  <1>10. h[rest] = Total(f, rest)
    <2>1. \A V \in SUBSET rest : V # {} => Total(f, V) = f[Pick(V)] + Total(f, V \ {Pick(V)})
      BY <1>3, <1>5
    <2>2. rest \in SUBSET U
      BY <1>5
    <2> HIDE DEF rest, Good, Bad, g
    <2> QED
      BY <1>4, <1>7, <2>1, <2>2, SolutionIsTotal
  <1>11. Good(U)
    BY <1>8, <1>9, <1>10
  <1> QED
    BY <1>2, <1>11

-----------------------------------------------------------------------------
(* Totals of natural numbers *)

\* Only the amounts of the members matter.
LEMMA TotalSame ==
  ASSUME NEW f, NEW h, NEW S, \A i \in S : f[i] = h[i]
  PROVE  Total(f, S) = Total(h, S)
  <1>1. \A s \in SUBSET S : s # {} => f[Pick(s)] = h[Pick(s)]
    BY PickIn
  <1>2. \A g : [s \in SUBSET S |-> IF s = {} THEN 0 ELSE f[Pick(s)] + g[s \ {Pick(s)}]]
             = [s \in SUBSET S |-> IF s = {} THEN 0 ELSE h[Pick(s)] + g[s \ {Pick(s)}]]
    BY <1>1
  <1>3. \A g : Sums(g, f, S) <=> Sums(g, h, S)
    BY <1>2 DEF Sums
  <1>4. (CHOOSE g : Sums(g, f, S)) = (CHOOSE g : Sums(g, h, S))
    BY <1>3
  <1> QED
    BY <1>4, TotalUnfolds

\* Totals of natural numbers are natural numbers.
LEMMA TotalNat ==
  ASSUME NEW f, NEW S, IsFiniteSet(S), \A i \in S : f[i] \in Nat
  PROVE  Total(f, S) \in Nat
  <1> DEFINE Bad == {V \in SUBSET S : Total(f, V) \notin Nat}
  <1> SUFFICES ASSUME Bad # {} PROVE FALSE
    OBVIOUS
  <1>1. PICK U \in Bad : \A W \in Bad : W \subseteq U => W = U
    <2>1. Bad \subseteq SUBSET S
      OBVIOUS
    <2> HIDE DEF Bad
    <2> QED
      BY <2>1, MinimalSubset
  <1>2. U \in SUBSET S /\ IsFiniteSet(U) /\ Total(f, U) \notin Nat
    BY FS_Subset
  <1>3. U # {}
    BY <1>2, TotalEmpty
  <1>4. Pick(U) \in S /\ U \ {Pick(U)} \subseteq U /\ U \ {Pick(U)} # U
    BY <1>2, <1>3, PickIn
  <1>5. U \ {Pick(U)} \in SUBSET S /\ U \ {Pick(U)} \notin Bad
    BY <1>1, <1>2, <1>4
  <1>6. Total(f, U \ {Pick(U)}) \in Nat
    BY <1>5
  <1>7. Total(f, U) = f[Pick(U)] + Total(f, U \ {Pick(U)})
    BY <1>2, <1>3, TotalStep
  <1> HIDE DEF Bad
  <1> QED
    BY <1>2, <1>4, <1>6, <1>7

\* A new member adds its amount, whichever order the fold takes.
LEMMA TotalAdd ==
  ASSUME NEW f, NEW S, IsFiniteSet(S), NEW x, x \notin S, \A i \in S \cup {x} : f[i] \in Nat
  PROVE  Total(f, S \cup {x}) = Total(f, S) + f[x]
  <1> DEFINE W == S \cup {x}
             Good(V) == \A y \in W \ V : Total(f, V \cup {y}) = Total(f, V) + f[y]
             Bad == {V \in SUBSET W : ~Good(V)}
  <1>0. IsFiniteSet(W) /\ \A V \in SUBSET W : Total(f, V) \in Nat /\ IsFiniteSet(V)
    BY FS_AddElement, FS_Subset, TotalNat
  <1>1. Bad = {}
    <2> SUFFICES ASSUME Bad # {} PROVE FALSE
      OBVIOUS
    <2>1. PICK U \in Bad : \A V \in Bad : V \subseteq U => V = U
      <3>1. Bad \subseteq SUBSET W
        OBVIOUS
      <3> HIDE DEF Bad, W
      <3> QED
        BY <1>0, <3>1, MinimalSubset
    <2>2. PICK y \in W \ U : Total(f, U \cup {y}) # Total(f, U) + f[y]
      OBVIOUS
    <2>3. U \in SUBSET W /\ \A V \in SUBSET W : V \subseteq U /\ V # U => Good(V)
      BY <2>1
    <2> DEFINE c == Pick(U \cup {y})
    <2>4. c \in U \cup {y}
      BY PickIn
    <2>5. U \cup {y} \in SUBSET W
      BY <2>2, <2>3
    <2>6. Total(f, U \cup {y}) = f[c] + Total(f, (U \cup {y}) \ {c})
      BY <1>0, <2>5, TotalStep
    <2> HIDE DEF c
    <2>7. f[c] \in Nat /\ f[y] \in Nat /\ Total(f, U) \in Nat
      BY <1>0, <2>2, <2>3, <2>4, <2>5
    <2>8. CASE c = y
      <3>1. (U \cup {y}) \ {c} = U
        BY <2>2, <2>8
      <3>2. Total(f, U \cup {y}) = f[y] + Total(f, U)
        BY <2>6, <2>8, <3>1
      <3> HIDE DEF Bad, Good, W
      <3> QED
        BY <2>2, <2>7, <3>2
    <2>9. CASE c # y
      <3> DEFINE V == U \ {c}
      <3>1. /\ c \in U /\ V \in SUBSET W /\ V \subseteq U /\ V # U
            /\ c \in W \ V /\ y \in W \ V /\ V \cup {c} = U
            /\ (U \cup {y}) \ {c} = V \cup {y}
        BY <2>2, <2>3, <2>4, <2>9
      <3>2. Good(V)
        BY <2>3, <3>1
      <3>3. Total(f, V \cup {c}) = Total(f, V) + f[c] /\ Total(f, V \cup {y}) = Total(f, V) + f[y]
        BY <3>1, <3>2
      <3>4. Total(f, V) \in Nat
        BY <1>0, <3>1
      <3>5. /\ Total(f, U) = Total(f, V) + f[c]
            /\ Total(f, U \cup {y}) = f[c] + (Total(f, V) + f[y])
        BY <2>6, <3>1, <3>3
      <3> HIDE DEF V, Good, Bad, W
      <3> QED
        BY <2>2, <2>7, <3>4, <3>5
    <2> QED
      BY <2>8, <2>9
  <1>2. Good(S)
    BY <1>1
  <1> QED
    BY <1>2

\* A part totals no more than the whole.
LEMMA TotalMonotonic ==
  ASSUME NEW f, NEW S, IsFiniteSet(S), \A i \in S : f[i] \in Nat, NEW T \in SUBSET S
  PROVE  Total(f, T) <= Total(f, S)
  <1> DEFINE Bad == {V \in SUBSET S : T \subseteq V /\ ~(Total(f, T) <= Total(f, V))}
  <1> SUFFICES ASSUME Bad # {} PROVE FALSE
    OBVIOUS
  <1>1. PICK U \in Bad : \A W \in Bad : W \subseteq U => W = U
    <2>1. Bad \subseteq SUBSET S
      OBVIOUS
    <2> HIDE DEF Bad
    <2> QED
      BY <2>1, MinimalSubset
  <1>2. U \in SUBSET S /\ T \subseteq U /\ ~(Total(f, T) <= Total(f, U))
    OBVIOUS
  <1>3. Total(f, T) \in Nat /\ \A V \in SUBSET S : IsFiniteSet(V) /\ Total(f, V) \in Nat
    BY FS_Subset, TotalNat
  <1>4. U # T
    BY <1>2, <1>3
  <1>5. PICK y \in U : y \notin T
    BY <1>2, <1>4
  <1> DEFINE V == U \ {y}
  <1>6. V \in SUBSET S /\ T \subseteq V /\ V \subseteq U /\ V # U /\ y \notin V /\ V \cup {y} = U
    BY <1>2, <1>5
  <1>7. Total(f, T) <= Total(f, V)
    BY <1>1, <1>6
  <1>8. Total(f, U) = Total(f, V) + f[y] /\ f[y] \in Nat
    <2>1. \A i \in V \cup {y} : f[i] \in Nat
      BY <1>2, <1>6
    <2> HIDE DEF V
    <2> QED
      BY <1>3, <1>6, <2>1, TotalAdd
  <1> HIDE DEF V, Bad
  <1> QED
    BY <1>2, <1>3, <1>6, <1>7, <1>8

\* A proper part of positive amounts totals less than the whole.
LEMMA TotalStrict ==
  ASSUME NEW f, NEW S, IsFiniteSet(S), \A i \in S : f[i] \in Nat /\ f[i] >= 1,
         NEW T \in SUBSET S, T # S
  PROVE  Total(f, T) < Total(f, S)
  <1>1. PICK y \in S : y \notin T
    OBVIOUS
  <1>2. IsFiniteSet(T) /\ T \cup {y} \in SUBSET S /\ \A i \in T \cup {y} : f[i] \in Nat
    BY <1>1, FS_Subset
  <1>3. Total(f, T \cup {y}) = Total(f, T) + f[y]
    BY <1>1, <1>2, TotalAdd
  <1>4. Total(f, T \cup {y}) <= Total(f, S)
    BY <1>2, TotalMonotonic
  <1>5. Total(f, T) \in Nat /\ Total(f, S) \in Nat /\ f[y] \in Nat /\ f[y] >= 1
    BY <1>2, TotalNat
  <1> QED
    BY <1>3, <1>4, <1>5

\* Amounts within a multiple of others total within that multiple of their total.
LEMMA TotalScaled ==
  ASSUME NEW f, NEW h, NEW S, IsFiniteSet(S), NEW c \in Nat,
         \A i \in S : f[i] \in Nat /\ h[i] \in Nat /\ f[i] <= c * h[i]
  PROVE  Total(f, S) <= c * Total(h, S)
  <1> DEFINE Bad == {V \in SUBSET S : ~(Total(f, V) <= c * Total(h, V))}
  <1> SUFFICES ASSUME Bad # {} PROVE FALSE
    OBVIOUS
  <1>1. PICK U \in Bad : \A W \in Bad : W \subseteq U => W = U
    <2>1. Bad \subseteq SUBSET S
      OBVIOUS
    <2> HIDE DEF Bad
    <2> QED
      BY <2>1, MinimalSubset
  <1>2. U \in SUBSET S /\ ~(Total(f, U) <= c * Total(h, U))
    OBVIOUS
  <1>3. \A V \in SUBSET S : IsFiniteSet(V) /\ Total(f, V) \in Nat /\ Total(h, V) \in Nat
    BY FS_Subset, TotalNat
  <1>4. U # {}
    <2>1. Total(f, {}) = 0 /\ Total(h, {}) = 0
      BY TotalEmpty
    <2> QED
      BY <1>2, <2>1
  <1> DEFINE x == Pick(U)
             V == U \ {x}
  <1>5. x \in U /\ V \in SUBSET S /\ V \subseteq U /\ V # U
    BY <1>2, <1>4, PickIn
  <1>6. Total(f, V) <= c * Total(h, V)
    BY <1>1, <1>5
  <1>7. Total(f, U) = f[x] + Total(f, V) /\ Total(h, U) = h[x] + Total(h, V)
    BY <1>2, <1>3, <1>4, TotalStep
  <1>8. /\ f[x] \in Nat /\ h[x] \in Nat /\ f[x] <= c * h[x]
        /\ Total(f, V) \in Nat /\ Total(h, V) \in Nat
    BY <1>2, <1>3, <1>5
  <1> HIDE DEF x, V, Bad
  <1>9. c * (h[x] + Total(h, V)) = c * h[x] + c * Total(h, V)
    BY <1>8
  <1>10. c * h[x] \in Nat /\ c * Total(h, V) \in Nat
    BY <1>8
  <1>11. Total(f, U) <= c * h[x] + c * Total(h, V)
    BY <1>6, <1>7, <1>8, <1>10
  <1> QED
    BY <1>2, <1>7, <1>9, <1>11

-----------------------------------------------------------------------------
(* Totals along a sequence *)

\* What a function satisfies that adds the amounts of a sequence from the left.
AddsUp(g, w, S) ==
  g = [s \in SUBSET S |-> IF s = {} THEN 0 ELSE g[s \ {Max(s)}] + w[Max(s)]]

\* Adding up from the left gives the total.
LEMMA AddedUpIsTotal ==
  ASSUME NEW n \in Nat, NEW w, \A k \in 1 .. n : w[k] \in Nat
  PROVE  (CHOOSE g : AddsUp(g, w, 1 .. n))[1 .. n] = Total(w, 1 .. n)
  <1> DEFINE S == 1 .. n
             g0 == [s \in SUBSET S |-> Total(w, s)]
  <1>0. IsFiniteSet(S) /\ \A s \in SUBSET S : IsFiniteSet(s)
    <2>1. IsFiniteSet(S)
      BY FS_Interval
    <2> HIDE DEF S
    <2> QED
      BY <2>1, FS_Subset
  <1>1. ASSUME NEW s \in SUBSET S, s # {}
        PROVE  /\ Max(s) \in s /\ s \ {Max(s)} \in SUBSET S /\ s \ {Max(s)} # s
               /\ Total(w, s) = Total(w, s \ {Max(s)}) + w[Max(s)]
    <2>1. Max(s) \in s
      BY <1>1, MaxIn
    <2> DEFINE t == s \ {Max(s)}
    <2>2. t \in SUBSET S /\ t # s /\ Max(s) \notin t /\ t \cup {Max(s)} = s
      BY <2>1
    <2>3. \A k \in t \cup {Max(s)} : w[k] \in Nat
      BY <2>2
    <2>4. IsFiniteSet(t)
      BY <1>0, <2>2
    <2> HIDE DEF t
    <2>5. Total(w, t \cup {Max(s)}) = Total(w, t) + w[Max(s)]
      BY <2>2, <2>3, <2>4, TotalAdd
    <2> QED
      BY <2>1, <2>2, <2>5 DEF t
  <1> HIDE DEF S
  <1>2. AddsUp(g0, w, S)
    <2>1. ASSUME NEW s \in SUBSET S
          PROVE  Total(w, s) = IF s = {} THEN 0 ELSE g0[s \ {Max(s)}] + w[Max(s)]
      <3>1. CASE s = {}
        BY <3>1, TotalEmpty
      <3>2. CASE s # {}
        <4>1. s \ {Max(s)} \in SUBSET S /\ Total(w, s) = Total(w, s \ {Max(s)}) + w[Max(s)]
          BY <1>1, <3>2
        <4>2. g0[s \ {Max(s)}] = Total(w, s \ {Max(s)})
          BY <4>1
        <4> QED
          BY <3>2, <4>1, <4>2
      <3> QED
        BY <3>1, <3>2
    <2>2. g0 = [s \in SUBSET S |-> IF s = {} THEN 0 ELSE g0[s \ {Max(s)}] + w[Max(s)]]
      BY <2>1
    <2> QED
      BY <2>2 DEF AddsUp
  <1> DEFINE g == CHOOSE h : AddsUp(h, w, S)
  <1>3. AddsUp(g, w, S)
    <2> HIDE DEF g0
    <2> QED
      BY <1>2
  <1> HIDE DEF g, g0
  <1> DEFINE Bad == {s \in SUBSET S : g[s] # Total(w, s)}
  <1>4. Bad = {}
    <2> SUFFICES ASSUME Bad # {} PROVE FALSE
      OBVIOUS
    <2>1. PICK U \in Bad : \A W \in Bad : W \subseteq U => W = U
      <3>1. Bad \subseteq SUBSET S
        OBVIOUS
      <3> HIDE DEF Bad
      <3> QED
        BY <1>0, <3>1, MinimalSubset
    <2>2. U \in SUBSET S /\ g[U] # Total(w, U)
      OBVIOUS
    <2>3. g[U] = IF U = {} THEN 0 ELSE g[U \ {Max(U)}] + w[Max(U)]
      BY <1>3, <2>2 DEF AddsUp
    <2>4. U # {}
      BY <2>2, <2>3, TotalEmpty
    <2>5. /\ U \ {Max(U)} \in SUBSET S /\ U \ {Max(U)} \subseteq U /\ U \ {Max(U)} # U
          /\ Total(w, U) = Total(w, U \ {Max(U)}) + w[Max(U)]
      BY <1>1, <2>2, <2>4
    <2>6. g[U \ {Max(U)}] = Total(w, U \ {Max(U)})
      BY <2>1, <2>5
    <2> QED
      BY <2>2, <2>3, <2>4, <2>5, <2>6
  <1>5. g[S] = Total(w, S)
    BY <1>4
  <1> QED
    BY <1>5 DEF g, S

=============================================================================
