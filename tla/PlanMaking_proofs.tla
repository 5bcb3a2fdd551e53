-------------------------- MODULE PlanMaking_proofs --------------------------
(***************************************************************************)
(* Theorems about PlanMaking.  A plan has a reason exactly if it needs a   *)
(* review, whatever is applied to the settings between the two readings; a *)
(* plan is for a type that no other comes near; each file of a payload is  *)
(* placed or skipped; two files meet at a destination only by what the     *)
(* layout drops of their names.  What the folds and the sums of the        *)
(* decision yield is shown by the least element of a set of numbers.       *)
(***************************************************************************)
EXTENDS PlanMaking, FiniteSetTheorems, SequenceTheorems, WellFoundedInduction, TLAPS

-----------------------------------------------------------------------------
(* Folds over finite sets, by the least number that would be wrong *)

LEMMA HasLeast ==
    ASSUME NEW S \in SUBSET Nat, S # {} PROVE \E m \in S : \A n \in S : m <= n
<1>1. PICK m \in S : \A n \in S : <<n, m>> \notin OpToRel(<, Nat)
  BY WFMin, NatLessThanWellFounded, Zenon
<1>2. \A n \in S : ~ (n < m)
  BY <1>1, Zenon DEF OpToRel
<1> QED
  BY <1>2

\* A set of numbers with 0 and what follows each of its own is all of them.
LEMMA AllNumbers ==
    ASSUME NEW D \in SUBSET Nat, 0 \in D, \A n \in D : n + 1 \in D PROVE D = Nat
<1> SUFFICES ASSUME Nat \ D # {} PROVE FALSE
  OBVIOUS
<1>1. PICK m \in Nat \ D : \A n \in Nat \ D : m <= n
  BY HasLeast
<1>2. m - 1 \in Nat /\ m - 1 \notin Nat \ D
  BY <1>1
<1> QED
  BY <1>1, <1>2

\* What removing an element does to the size of a set.
LEMMA OneLess ==
    ASSUME NEW S, IsFiniteSet(S), NEW s \in SUBSET S, NEW x \in s
    PROVE  /\ Cardinality(s) \in Nat /\ Cardinality(s \ {x}) \in Nat
           /\ Cardinality(s \ {x}) = Cardinality(s) - 1
<1>1. IsFiniteSet(s) /\ IsFiniteSet(s \ {x})
  BY FS_Subset, FS_RemoveElement
<1> QED
  BY <1>1, FS_RemoveElement, FS_CardinalityType

\* F folds S into V from b, in the order in which ch takes elements out.
Foldable(S, V, b, F, ch) ==
    /\ IsFiniteSet(S) /\ b \in V /\ F \in [S \X V -> V]
    /\ \A s \in SUBSET S : s # {} => ch[s] \in s
IsFold(g, S, b, F, ch) ==
    \A s \in SUBSET S : g[s] = IF s = {} THEN b ELSE F[<<ch[s], g[s \ {ch[s]}]>>]

LEMMA FoldExists ==
    ASSUME NEW S, NEW V, NEW b, NEW F, NEW ch, Foldable(S, V, b, F, ch)
    PROVE  \E g \in [SUBSET S -> V] : IsFold(g, S, b, F, ch)
<1> USE DEF Foldable, IsFold
<1> DEFINE Value(g, s) == IF s = {} THEN b ELSE F[<<ch[s], g[s \ {ch[s]}]>>]
           Fits(g, n) == \A s \in SUBSET S : Cardinality(s) <= n => g[s] = Value(g, s)
           D == {n \in Nat : \E g \in [SUBSET S -> V] : Fits(g, n)}
<1>1. \A s \in SUBSET S : IsFiniteSet(s) /\ Cardinality(s) \in Nat
  BY FS_Subset, FS_CardinalityType
<1>2. 0 \in D
  <2> DEFINE g == [s \in SUBSET S |-> b]
  <2>1. \A s \in SUBSET S : Cardinality(s) <= 0 => s = {}
    BY <1>1, FS_EmptySet
  <2>2. g \in [SUBSET S -> V] /\ Fits(g, 0)
    BY <2>1
  <2> QED
    BY <2>2
<1>3. ASSUME NEW n \in D PROVE n + 1 \in D
  <2>1. PICK g \in [SUBSET S -> V] : Fits(g, n)
    OBVIOUS
  <2> DEFINE h == [s \in SUBSET S |-> IF Cardinality(s) <= n THEN g[s] ELSE Value(g, s)]
  <2>2. \A s \in SUBSET S : s # {} => ch[s] \in S /\ s \ {ch[s]} \in SUBSET S
    OBVIOUS
  <2>3. \A s \in SUBSET S : Value(g, s) \in V
    BY <2>2
  <2>4. h \in [SUBSET S -> V]
    BY <2>3
  <2>5. \A s \in SUBSET S : h[s] = Value(g, s)
    BY <2>1
  <2>6. \A s \in SUBSET S : Cardinality(s) <= n + 1 /\ s # {} => h[s \ {ch[s]}] = g[s \ {ch[s]}]
    BY <1>1, <2>1, <2>2, OneLess
  <2>7. \A s \in SUBSET S : Cardinality(s) <= n + 1 => Value(h, s) = Value(g, s)
    <3> HIDE DEF h
    <3> QED
      BY <2>6
  <2>8. Fits(h, n + 1)
    <3> HIDE DEF h, Value
    <3> QED
      BY <2>5, <2>7
  <2> HIDE DEF h, Fits
  <2> QED
    BY <2>4, <2>8
<1>4. Cardinality(S) \in D
  <2> HIDE DEF D
  <2>1. D \in SUBSET Nat
    BY DEF D
  <2> QED
    BY <1>1, <1>2, <1>3, <2>1, AllNumbers
<1>5. PICK g \in [SUBSET S -> V] : Fits(g, Cardinality(S))
  BY <1>4
<1>6. \A s \in SUBSET S : Cardinality(s) <= Cardinality(S)
  BY FS_Subset
<1> QED
  BY <1>5, <1>6

-----------------------------------------------------------------------------
(* Scores *)

AnyOf(s) == CHOOSE x \in s : TRUE

\* What MapThenSumSet is made of.
Sums(S) ==
    CHOOSE g : g = [s \in SUBSET S |-> IF s = {} THEN 0 ELSE AnyOf(s)[3] + g[s \ {AnyOf(s)}]]

\* Signals that can be added up.
Weighted(S) == IsFiniteSet(S) /\ \A x \in S : x[3] \in Nat

LEMMA SumsAdd ==
    ASSUME NEW S, Weighted(S)
    PROVE  Sums(S) = [s \in SUBSET S |-> IF s = {} THEN 0 ELSE AnyOf(s)[3] + Sums(S)[s \ {AnyOf(s)}]]
<1> DEFINE F == [p \in S \X Nat |-> p[1][3] + p[2]]
           ch == [s \in SUBSET S |-> AnyOf(s)]
           Adds(g) == g = [s \in SUBSET S |-> IF s = {} THEN 0 ELSE AnyOf(s)[3] + g[s \ {AnyOf(s)}]]
<1>1. \A s \in SUBSET S : s # {} => ch[s] = AnyOf(s) /\ ch[s] \in s
  BY DEF AnyOf
<1>2. F \in [S \X Nat -> Nat]
  BY DEF Weighted
<1>3. PICK g \in [SUBSET S -> Nat] : IsFold(g, S, 0, F, ch)
  <2> HIDE DEF F, ch
  <2>1. Foldable(S, Nat, 0, F, ch)
    BY <1>1, <1>2 DEF Foldable, Weighted
  <2> QED
    BY <2>1, FoldExists
<1>4. \A s \in SUBSET S : s # {} => F[<<ch[s], g[s \ {ch[s]}]>>] = AnyOf(s)[3] + g[s \ {AnyOf(s)}]
  <2> SUFFICES ASSUME NEW s \in SUBSET S, s # {}
               PROVE  F[<<ch[s], g[s \ {ch[s]}]>>] = AnyOf(s)[3] + g[s \ {AnyOf(s)}]
    OBVIOUS
  <2> HIDE DEF ch
  <2>1. ch[s] = AnyOf(s) /\ AnyOf(s) \in S /\ g[s \ {AnyOf(s)}] \in Nat
    BY <1>1, <1>3
  <2> QED
    BY <2>1
<1>5. Adds(g)
  <2> HIDE DEF F, ch
  <2> QED
    BY <1>3, <1>4 DEF IsFold
<1>6. Adds(Sums(S))
  <2>1. \E h : Adds(h)
    BY <1>5
  <2>2. Sums(S) = CHOOSE h : Adds(h)
    BY DEF Sums
  <2> HIDE DEF Adds
  <2> QED
    BY <2>1, <2>2
<1> QED
  BY <1>6

LEMMA SumsAre ==
    ASSUME NEW S, Weighted(S)
    PROVE  /\ Sums(S)[{}] = 0
           /\ \A s \in SUBSET S : s # {} => /\ AnyOf(s) \in s
                                            /\ Sums(S)[s] = AnyOf(s)[3] + Sums(S)[s \ {AnyOf(s)}]
<1> DEFINE g == Sums(S)
<1>1. g = [s \in SUBSET S |-> IF s = {} THEN 0 ELSE AnyOf(s)[3] + g[s \ {AnyOf(s)}]]
  BY SumsAdd
<1>2. \A s : s # {} => AnyOf(s) \in s
  BY DEF AnyOf
<1> HIDE DEF g
<1>3. /\ g[{}] = 0
      /\ \A s \in SUBSET S : s # {} => g[s] = AnyOf(s)[3] + g[s \ {AnyOf(s)}]
  BY <1>1
<1> QED
  BY <1>2, <1>3 DEF g

LEMMA SumsNat ==
    ASSUME NEW S, Weighted(S) PROVE \A s \in SUBSET S : Sums(S)[s] \in Nat
<1> DEFINE D == {n \in Nat : \A s \in SUBSET S : Cardinality(s) <= n => Sums(S)[s] \in Nat}
<1>1. \A s \in SUBSET S : IsFiniteSet(s) /\ Cardinality(s) \in Nat
  BY FS_Subset, FS_CardinalityType DEF Weighted
<1>2. 0 \in D
  BY <1>1, FS_EmptySet, SumsAre
<1>3. ASSUME NEW n \in D PROVE n + 1 \in D
  <2> SUFFICES ASSUME NEW s \in SUBSET S, Cardinality(s) <= n + 1 PROVE Sums(S)[s] \in Nat
    OBVIOUS
  <2>1. CASE s = {}
    BY <2>1, SumsAre
  <2>2. CASE s # {}
    <3> DEFINE x == AnyOf(s)
    <3>1. x \in s /\ x[3] \in Nat /\ Sums(S)[s] = x[3] + Sums(S)[s \ {x}]
      BY <2>2, SumsAre DEF Weighted
    <3> HIDE DEF x
    <3>2. Cardinality(s \ {x}) <= n /\ s \ {x} \in SUBSET S
      BY <1>1, <3>1, OneLess DEF Weighted
    <3> QED
      BY <3>1, <3>2
  <2> QED
    BY <2>1, <2>2
<1>4. D = Nat
  <2> HIDE DEF D
  <2>1. D \in SUBSET Nat
    BY DEF D
  <2> QED
    BY <1>2, <1>3, <2>1, AllNumbers
<1> QED
  BY <1>1, <1>4

\* The signals of a type.
Of(signals, t) == {s \in signals : s[2] = t}

LEMMA ScoreIs ==
    ASSUME NEW signals, NEW t PROVE Score(signals, t) = Sums(Of(signals, t))[Of(signals, t)]
BY Zenon DEF Score, MapThenSumSet, MapThenFoldSet, Sums, Of, AnyOf

LEMMA OfWeighted ==
    ASSUME NEW signals, Weighted(signals), NEW t PROVE Weighted(Of(signals, t))
BY FS_Subset DEF Weighted, Of

LEMMA ScoreNat ==
    ASSUME NEW signals, Weighted(signals), NEW t PROVE Score(signals, t) \in Nat
BY ScoreIs, OfWeighted, SumsNat

\* A type that one signal at most speaks for has its weight at most.
LEMMA ScoreOfOne ==
    ASSUME NEW signals, Weighted(signals), NEW t, NEW x, x[3] \in Nat, Of(signals, t) \subseteq {x}
    PROVE  Score(signals, t) <= x[3]
<1> DEFINE S == Of(signals, t)
<1>1. Weighted(S) /\ Score(signals, t) = Sums(S)[S]
  BY ScoreIs, OfWeighted
<1> HIDE DEF S
<1>2. CASE S = {}
  BY <1>1, <1>2, SumsAre
<1>3. CASE S = {x}
  <2>3. S \in SUBSET S /\ S # {}
    BY <1>3
  <2>1. AnyOf(S) = x /\ S \ {AnyOf(S)} = {}
    <3>1. AnyOf(S) \in S
      BY <1>1, <2>3, SumsAre
    <3> QED
      BY <1>3, <3>1
  <2>2. Sums(S)[S] = x[3] + Sums(S)[{}] /\ Sums(S)[{}] = 0
    BY <1>1, <2>1, <2>3, SumsAre
  <2> QED
    BY <1>1, <2>2
<1> QED
  BY <1>2, <1>3 DEF S

-----------------------------------------------------------------------------
(* The race of the scores *)

Ranks == 1 .. 7
Entrants == Types \cup {"unknown"}
Races == [best : Entrants, score : Nat, runner : Entrants, second : Nat]
Start == [best |-> "unknown", score |-> 0, runner |-> "unknown", second |-> 0]

LEMMA TypeAt ==
    /\ DOMAIN AllTypes = Ranks /\ "unknown" \notin Types
    /\ \A k \in Ranks : AllTypes[k] \in Types
    /\ \A t \in Types : \E k \in Ranks : AllTypes[k] = t
BY DEF AllTypes, Types, Ranks

\* After the first k types: the best of them and its score, none of the others
\* above the second.
Raced(r, signals, k) ==
    /\ r \in Races /\ r.second <= r.score
    /\ r.best = "unknown" => r.score = 0
    /\ r.best # "unknown" => r.score = Score(signals, r.best)
    /\ \A j \in 1 .. k : AllTypes[j] # r.best => Score(signals, AllTypes[j]) <= r.second

LEMMA Overtaking ==
    ASSUME NEW signals, Weighted(signals), NEW k \in Ranks, NEW r, Raced(r, signals, k - 1)
    PROVE  Raced(Overtakes(r, AllTypes[k], Score(signals, AllTypes[k])), signals, k)
<1> DEFINE t == AllTypes[k]
           s == Score(signals, t)
           new == Overtakes(r, t, s)
<1>1. /\ r \in Races /\ r.best \in Entrants /\ r.runner \in Entrants
      /\ r.score \in Nat /\ r.second \in Nat /\ r.second <= r.score
  BY DEF Raced, Races
<1>2. t \in Types /\ t # "unknown" /\ t \in Entrants /\ s \in Nat
  BY TypeAt, ScoreNat DEF Entrants
<1>3. \A j \in 1 .. k : j = k \/ j \in 1 .. k - 1
  BY DEF Ranks
<1>4. \A j \in 1 .. k - 1 : /\ Score(signals, AllTypes[j]) \in Nat /\ AllTypes[j] # "unknown"
                            /\ AllTypes[j] # r.best => Score(signals, AllTypes[j]) <= r.second
                            /\ AllTypes[j] = r.best => Score(signals, AllTypes[j]) = r.score
  BY ScoreNat, TypeAt DEF Raced, Ranks
<1> HIDE DEF t, s
<1>5. CASE s > r.score
  <2>1. new = [best |-> t, score |-> s, runner |-> r.best, second |-> r.score]
    BY <1>5 DEF Overtakes
  <2>2. new.best = t /\ new.score = s /\ new.second = r.score
    BY <2>1
  <2>3. new \in Races
    BY <1>1, <1>2, <2>1 DEF Races
  <2> HIDE DEF new
  <2>4. \A j \in 1 .. k - 1 : Score(signals, AllTypes[j]) <= r.score
    BY <1>1, <1>4
  <2>5. \A j \in 1 .. k : AllTypes[j] # t => Score(signals, AllTypes[j]) <= r.score
    BY <1>3, <2>4 DEF t
  <2> QED
    BY <1>1, <1>2, <1>5, <2>2, <2>3, <2>5 DEF Raced, new, s, t
<1>6. CASE ~(s > r.score) /\ s > r.second
  <2>1. new = [r EXCEPT !.runner = t, !.second = s]
    BY <1>6 DEF Overtakes
  <2>2. new.best = r.best /\ new.score = r.score /\ new.second = s
    BY <1>1, <2>1 DEF Races
  <2>3. new \in Races
    BY <1>1, <1>2, <2>1 DEF Races
  <2> HIDE DEF new
  <2>4. \A j \in 1 .. k : AllTypes[j] # r.best => Score(signals, AllTypes[j]) <= s
    BY <1>1, <1>2, <1>3, <1>4, <1>6 DEF t, s
  <2> QED
    BY <1>1, <1>2, <1>6, <2>2, <2>3, <2>4 DEF Raced, new, s, t
<1>7. CASE ~(s > r.score) /\ ~(s > r.second)
  <2>1. new = r
    BY <1>7 DEF Overtakes
  <2>2. \A j \in 1 .. k : AllTypes[j] # r.best => Score(signals, AllTypes[j]) <= r.second
    BY <1>1, <1>2, <1>3, <1>4, <1>7 DEF t, s
  <2> QED
    BY <2>1, <2>2 DEF Raced, new, s, t
<1> QED
  BY <1>5, <1>6, <1>7 DEF new, s, t

\* What Top2 is made of.
Tops(signals) ==
    CHOOSE g : g = [s \in SUBSET DOMAIN AllTypes |->
                      IF s = {} THEN Start
                      ELSE Overtakes(g[s \ {Max(s)}], AllTypes[Max(s)],
                                     Score(signals, AllTypes[Max(s)]))]

LEMMA Top2Is ==
    ASSUME NEW signals PROVE Top2(signals) = Tops(signals)[Ranks]
<1>1. Top2(signals) = Tops(signals)[DOMAIN AllTypes]
  BY Zenon DEF Top2, FoldLeft, MapThenFoldSet, Tops, Start
<1> QED
  BY <1>1, TypeAt

LEMMA MaxIn ==
    ASSUME NEW s \in SUBSET Ranks, s # {}
    PROVE  Max(s) \in s /\ \A k \in s : k <= Max(s)
<1> DEFINE D == {n \in Nat : 7 - n \in s}
<1>1. PICK k \in s : TRUE
  OBVIOUS
<1>2. 7 - k \in D
  BY <1>1 DEF Ranks
<1>3. PICK n \in D : \A m \in D : n <= m
  <2>1. D \in SUBSET Nat /\ D # {}
    BY <1>2
  <2> HIDE DEF D
  <2> QED
    BY <2>1, HasLeast
<1>4. 7 - n \in s /\ n \in Nat
  BY <1>3
<1>5. ASSUME NEW j \in s PROVE 7 - n >= j
  <2>1. j \in Int /\ 7 - j \in Nat /\ 7 - (7 - j) = j
    BY <1>5 DEF Ranks
  <2>2. 7 - j \in D
    BY <2>1
  <2>3. n <= 7 - j
    BY <1>3, <2>2
  <2> QED
    BY <1>4, <2>1, <2>3
<1>6. \E x \in s : \A y \in s : x >= y
  BY <1>4, <1>5
<1>7. Max(s) \in s /\ \A y \in s : Max(s) >= y
  BY <1>6, Zenon DEF Max
<1>8. \A y \in s : y \in Int
  BY DEF Ranks
<1> QED
  BY <1>7, <1>8

LEMMA TopsAre ==
    ASSUME NEW signals, Weighted(signals)
    PROVE  /\ Tops(signals)[{}] = Start
           /\ \A s \in SUBSET Ranks : s # {} =>
                Tops(signals)[s] = Overtakes(Tops(signals)[s \ {Max(s)}], AllTypes[Max(s)],
                                             Score(signals, AllTypes[Max(s)]))
<1> DEFINE F == [p \in Ranks \X Races |-> Overtakes(p[2], AllTypes[p[1]],
                                                   Score(signals, AllTypes[p[1]]))]
           ch == [s \in SUBSET Ranks |-> Max(s)]
           Runs(g) == g = [s \in SUBSET DOMAIN AllTypes |->
                             IF s = {} THEN Start
                             ELSE Overtakes(g[s \ {Max(s)}], AllTypes[Max(s)],
                                            Score(signals, AllTypes[Max(s)]))]
<1>1. \A s \in SUBSET Ranks : s # {} => ch[s] = Max(s) /\ ch[s] \in s
  BY MaxIn
<1>2. F \in [Ranks \X Races -> Races]
  <2>1. ASSUME NEW k \in Ranks, NEW r \in Races
        PROVE  Overtakes(r, AllTypes[k], Score(signals, AllTypes[k])) \in Races
    <3>1. AllTypes[k] \in Entrants /\ Score(signals, AllTypes[k]) \in Nat
      BY TypeAt, ScoreNat DEF Entrants
    <3>2. r.best \in Entrants /\ r.score \in Nat
      BY DEF Races
    <3> QED
      BY <3>1, <3>2 DEF Overtakes, Races
  <2> QED
    BY <2>1
<1>3. PICK g \in [SUBSET Ranks -> Races] : IsFold(g, Ranks, Start, F, ch)
  <2> HIDE DEF F, ch
  <2>1. IsFiniteSet(Ranks)
    <3>1. 1 \in Int /\ 7 \in Int
      OBVIOUS
    <3> QED
      BY <3>1, FS_Interval, Zenon DEF Ranks
  <2>2. Start \in Races
    BY DEF Start, Races, Entrants
  <2>3. Foldable(Ranks, Races, Start, F, ch)
    BY <1>1, <1>2, <2>1, <2>2 DEF Foldable
  <2> QED
    BY <2>3, FoldExists
<1>4. \A s \in SUBSET Ranks : s # {} =>
        F[<<ch[s], g[s \ {ch[s]}]>>] = Overtakes(g[s \ {Max(s)}], AllTypes[Max(s)],
                                                Score(signals, AllTypes[Max(s)]))
  <2> SUFFICES ASSUME NEW s \in SUBSET Ranks, s # {}
               PROVE  F[<<ch[s], g[s \ {ch[s]}]>>]
                        = Overtakes(g[s \ {Max(s)}], AllTypes[Max(s)], Score(signals, AllTypes[Max(s)]))
    OBVIOUS
  <2> HIDE DEF ch
  <2>1. ch[s] = Max(s) /\ Max(s) \in Ranks /\ g[s \ {Max(s)}] \in Races
    BY <1>1, <1>3
  <2> QED
    BY <2>1
<1>5. Runs(g)
  <2> HIDE DEF F, ch
  <2> QED
    BY <1>3, <1>4, TypeAt DEF IsFold
<1>6. Runs(Tops(signals))
  <2>1. \E h : Runs(h)
    BY <1>5
  <2>2. Tops(signals) = CHOOSE h : Runs(h)
    BY DEF Tops
  <2> HIDE DEF Runs
  <2> QED
    BY <2>1, <2>2
<1> DEFINE h == Tops(signals)
<1> HIDE DEF h
<1>7. Runs(h)
  BY <1>6 DEF h
<1>8. h[{}] = Start /\ \A s \in SUBSET Ranks : s # {} =>
        h[s] = Overtakes(h[s \ {Max(s)}], AllTypes[Max(s)], Score(signals, AllTypes[Max(s)]))
  BY <1>7, TypeAt
<1> QED
  BY <1>8 DEF h

\* The race is run to its end.
LEMMA Top2Raced ==
    ASSUME NEW signals, Weighted(signals) PROVE Raced(Top2(signals), signals, 7)
<1> DEFINE g == Tops(signals)
<1>1. Raced(g[{}], signals, 0)
  BY TopsAre DEF Raced, Start, Races, Entrants
<1>2. ASSUME NEW k \in Ranks, Raced(g[1 .. k - 1], signals, k - 1)
      PROVE  Raced(g[1 .. k], signals, k)
  <2> DEFINE s == 1 .. k
  <2>1. s \in SUBSET Ranks /\ s # {}
    BY DEF Ranks
  <2>2. Max(s) = k
    <3>1. Max(s) \in s /\ k <= Max(s)
      BY <2>1, MaxIn DEF Ranks
    <3> QED
      BY <3>1 DEF Ranks
  <2>3. s \ {k} = 1 .. k - 1
    BY DEF Ranks
  <2>4. g[s] = Overtakes(g[s \ {Max(s)}], AllTypes[Max(s)], Score(signals, AllTypes[Max(s)]))
    BY <2>1, TopsAre
  <2>5. g[s] = Overtakes(g[1 .. k - 1], AllTypes[k], Score(signals, AllTypes[k]))
    BY <2>2, <2>3, <2>4
  <2> QED
    BY <1>2, <2>5, Overtaking
<1> HIDE DEF g
<1>3. 1 .. 0 = {} /\ \A k \in 0 .. 7 : k = 0 \/ (k \in Ranks /\ k - 1 \in 0 .. 7)
  BY DEF Ranks
<1>4. \A k \in 0 .. 7 : Raced(g[1 .. k], signals, k)
  <2> DEFINE D == {k \in Nat : k <= 7 => Raced(g[1 .. k], signals, k)}
  <2>1. 0 \in D
    BY <1>1, <1>3
  <2>2. ASSUME NEW k \in D PROVE k + 1 \in D
    <3>1. k + 1 <= 7 => k + 1 \in Ranks /\ (k + 1) - 1 = k
      BY DEF Ranks
    <3> QED
      BY <1>2, <3>1
  <2>3. D = Nat
    <3>1. D \in SUBSET Nat
      OBVIOUS
    <3> HIDE DEF D
    <3> QED
      BY <2>1, <2>2, <3>1, AllNumbers
  <2> QED
    BY <2>3
<1> QED
  BY <1>4, Top2Is DEF g, Ranks

\* What comes of the race: nothing comes nearer to the best than the second.
LEMMA Top2Leads ==
    ASSUME NEW signals, Weighted(signals)
    PROVE  LET top == Top2(signals) IN
           /\ top.best \in Types \cup {"unknown"} /\ top.score \in Nat /\ top.second \in Nat
           /\ top.best # "unknown" => top.score = Score(signals, top.best)
           /\ \A t \in Types \ {top.best} : Score(signals, t) \in Nat /\ Score(signals, t) <= top.second
<1> DEFINE top == Top2(signals)
<1> HIDE DEF top
<1>1. Raced(top, signals, 7)
  BY Top2Raced DEF top
<1>2. \A t \in Types \ {top.best} : Score(signals, t) \in Nat /\ Score(signals, t) <= top.second
  BY <1>1, TypeAt, ScoreNat DEF Raced, Ranks
<1> QED
  BY <1>1, <1>2 DEF Raced, Races, Entrants, top

-----------------------------------------------------------------------------
(* Signals *)

\* Signals that can be added up, and of which two speak for a film: a year, and
\* video that makes up half of the payload.
NameYear == <<"name-year", "movie", 55>>
VideoMovie == <<"struct-video-movie", "movie", 35>>
Fair(S, half) ==
    /\ Weighted(S)
    /\ \A s \in S : s[2] = "movie" => s = NameYear \/ (half /\ s = VideoMovie)

LEMMA EmptyFair == ASSUME NEW half PROVE Fair({}, half)
BY FS_EmptySet DEF Fair, Weighted

LEMMA BothFair ==
    ASSUME NEW half, NEW S, NEW T, Fair(S, half), Fair(T, half) PROVE Fair(S \cup T, half)
<1>1. IsFiniteSet(S \cup T)
  BY FS_Union DEF Fair, Weighted
<1> QED
  BY <1>1 DEF Fair, Weighted

LEMMA OneFair ==
    ASSUME NEW half, NEW name, NEW type, NEW w \in Nat, type # "movie"
    PROVE  Fair({<<name, type, w>>}, half)
<1>1. IsFiniteSet({<<name, type, w>>})
  BY FS_Singleton
<1> QED
  BY <1>1 DEF Fair, Weighted

LEMMA WhenFair ==
    ASSUME NEW half, NEW c, NEW name, NEW type, NEW w \in Nat, type # "movie"
    PROVE  Fair(When(c, name, type, w), half)
BY OneFair, EmptyFair DEF When

LEMMA MoviesFair ==
    ASSUME NEW half, NEW c, NEW d, d => half
    PROVE  /\ Fair(When(c, "name-year", "movie", 55), half)
           /\ Fair(When(d, "struct-video-movie", "movie", 35), half)
<1>1. IsFiniteSet({NameYear}) /\ IsFiniteSet({VideoMovie})
  BY FS_Singleton
<1>2. Fair({NameYear}, half) /\ (half => Fair({VideoMovie}, half))
  BY <1>1 DEF Fair, Weighted, NameYear, VideoMovie
<1> QED
  BY <1>2, EmptyFair DEF When, NameYear, VideoMovie

Half(counts) == 2 * counts["video"] >= PrimaryCount(counts)

LEMMA ExtensionFair ==
    ASSUME NEW half, NEW files, NEW n, NEW counts, NEW default, default # "movie"
    PROVE  Fair(ExtensionSignals(files, n, counts, default), half)
<1>1. Fair(PDFSignal(n, default), half)
  <2>1. Fair(When(default # "unknown", "pdf-default", default, 60), half)
    BY WhenFair
  <2>2. 80 \in Nat /\ "comic" # "movie" /\ "ebook" # "movie"
    OBVIOUS
  <2>3. /\ Fair({<<"pdf-comic-marker", "comic", 80>>}, half)
        /\ Fair({<<"pdf-book-marker", "ebook", 80>>}, half)
    BY <2>2, OneFair, Zenon
  <2> QED
    BY <2>1, <2>3 DEF PDFSignal
<1> DEFINE a == When(counts["comic"] > 0, "ext-comic", "comic", 90)
           b == When(counts["book"] > 0, "ext-book", "ebook", 90)
           c == When(HasExt(files, "m4b"), "ext-m4b", "audiobook", 90)
           d == When(counts["rom"] > 0, "ext-rom", "rom", 85)
           e == IF counts["pdf"] > 0 /\ counts["comic"] = 0 /\ counts["book"] = 0
                THEN PDFSignal(n, default) ELSE {}
<1>2. ExtensionSignals(files, n, counts, default) = a \cup b \cup c \cup d \cup e
  BY Zenon DEF ExtensionSignals
<1>3. Fair(a, half) /\ Fair(b, half) /\ Fair(c, half) /\ Fair(d, half)
  BY WhenFair
<1>4. Fair(e, half)
  BY <1>1, EmptyFair
<1> HIDE DEF a, b, c, d, e
<1>5. Fair(a \cup b \cup c \cup d \cup e, half)
  BY <1>3, <1>4, BothFair
<1> QED
  BY <1>2, <1>5, Zenon

LEMMA NameFair ==
    ASSUME NEW half, NEW n, NEW info, NEW counts
    PROVE  Fair(NameSignals(n, info, counts), half)
<1>1. Fair(TVSignal(info), half)
  <2>1. 90 \in Nat /\ 95 \in Nat /\ "tv" # "movie"
    OBVIOUS
  <2>2. Fair({<<"name-tv-date", "tv", 90>>}, half)
    BY <2>1, OneFair, Zenon
  <2>3. Fair({<<"name-tv-absolute", "tv", 90>>}, half)
    BY <2>1, OneFair, Zenon
  <2>4. Fair({<<"name-tv", "tv", 95>>}, half)
    BY <2>1, OneFair, Zenon
  <2> QED
    BY <2>2, <2>3, <2>4, EmptyFair, Zenon DEF TVSignal
<1>2. Fair(FormatSignal(n), half)
  <2>1. 85 \in Nat /\ "music" # "movie"
    OBVIOUS
  <2>2. Fair({<<"name-audio-format", "music", 85>>}, half)
    BY <2>1, OneFair, Zenon
  <2> QED
    BY <2>2, WhenFair DEF FormatSignal
<1>3. Fair(AudioSignals(n, info, counts), half)
  <2> DEFINE a == When("audiobook" \in n.marks, "name-audiobook", "audiobook", 90)
             b == When("braces" \in n.marks /\ counts["comic"] = 0, "name-narrator", "audiobook",
                       85)
             c == FormatSignal(n)
             d == When("various" \in n.marks, "name-various-artists", "music", 85)
             e == When("discography" \in n.marks, "name-discography", "music", 85)
             album == /\ ~info.tv.isTV /\ info.year /\ n.left # ""
                      /\ counts["video"] = 0 /\ counts["comic"] = 0 /\ counts["book"] = 0
             person == /\ ~HasFormat(n) /\ counts["comic"] = 0 /\ counts["book"] = 0
                       /\ "person" \in n.marks /\ ~info.year
             f == When(album, "name-artist-album", "music", 70)
             g == When(person, "name-narrator-paren", "audiobook", 85)
  <2>1. AudioSignals(n, info, counts) = a \cup b \cup c \cup d \cup e \cup f \cup g
    BY Zenon DEF AudioSignals
  <2> HIDE DEF album, person
  <2>2. /\ Fair(a, half) /\ Fair(b, half) /\ Fair(d, half) /\ Fair(e, half)
        /\ Fair(f, half) /\ Fair(g, half)
    BY WhenFair
  <2> HIDE DEF a, b, c, d, e, f, g
  <2>3. Fair(c, half)
    BY <1>2 DEF c
  <2>4. Fair(a \cup b \cup c, half)
    BY <2>2, <2>3, BothFair
  <2>5. Fair(a \cup b \cup c \cup d \cup e, half)
    BY <2>2, <2>4, BothFair
  <2>6. Fair(a \cup b \cup c \cup d \cup e \cup f \cup g, half)
    BY <2>2, <2>5, BothFair
  <2> QED
    BY <2>1, <2>6, Zenon
<1>4. Fair(ComicSignals(n, counts), half)
  <2> DEFINE a == When("scene" \in n.marks, "name-comic-scene", "comic", 85)
             b == When("volume" \in n.marks, "name-comic-volume", "comic", 70)
             c == When("chapter" \in n.marks, "name-comic-chapter", "comic", 85)
             d == When("range" \in n.marks, "name-comic-range", "comic", 80)
             plain == counts["video"] = 0 /\ counts["audio"] = 0 /\ ~HasFormat(n)
  <2>1. ComicSignals(n, counts) = a \cup (IF plain THEN b \cup c \cup d ELSE {})
    BY Zenon DEF ComicSignals
  <2>2. Fair(a, half) /\ Fair(b, half) /\ Fair(c, half) /\ Fair(d, half)
    BY WhenFair
  <2> HIDE DEF a, b, c, d, plain
  <2>3. Fair(b \cup c \cup d, half)
    BY <2>2, BothFair
  <2>4. Fair(IF plain THEN b \cup c \cup d ELSE {}, half)
    BY <2>3, EmptyFair
  <2>5. Fair(a \cup (IF plain THEN b \cup c \cup d ELSE {}), half)
    BY <2>2, <2>4, BothFair, Zenon
  <2> QED
    BY <2>1, <2>5, Zenon
<1>5. Fair(RomSignals(n, counts), half)
  <2> DEFINE a == When("region" \in n.marks, "name-rom-region", "rom", 85)
             b == When("romset" \in n.marks, "name-romset", "rom", 85)
             c == When("bios" \in n.marks, "name-bios", "rom", 85)
             d == When("romtags" \in n.marks /\ counts["video"] = 0, "name-rom-tags", "rom", 55)
  <2>1. RomSignals(n, counts) = a \cup b \cup c \cup d
    BY Zenon DEF RomSignals
  <2>2. Fair(a, half) /\ Fair(b, half) /\ Fair(c, half) /\ Fair(d, half)
    BY WhenFair
  <2> HIDE DEF a, b, c, d
  <2>3. Fair(a \cup b \cup c \cup d, half)
    BY <2>2, BothFair
  <2> QED
    BY <2>1, <2>3, Zenon
<1>6. Fair(When(~info.tv.isTV /\ info.year /\ info.title # "", "name-year", "movie", 55), half)
  BY MoviesFair
<1> DEFINE a == TVSignal(info)
           b == AudioSignals(n, info, counts)
           c == ComicSignals(n, counts)
           d == RomSignals(n, counts)
           e == When(~info.tv.isTV /\ info.year /\ info.title # "", "name-year", "movie", 55)
<1>7. NameSignals(n, info, counts) = a \cup b \cup c \cup d \cup e
  BY Zenon DEF NameSignals
<1>8. Fair(a, half) /\ Fair(b, half) /\ Fair(c, half) /\ Fair(d, half) /\ Fair(e, half)
  BY <1>1, <1>3, <1>4, <1>5, <1>6
<1> HIDE DEF a, b, c, d, e
<1>9. Fair(a \cup b \cup c \cup d \cup e, half)
  BY <1>8, BothFair
<1> QED
  BY <1>7, <1>9, Zenon

LEMMA AudioFair ==
    ASSUME NEW half, NEW files, NEW counts
    PROVE  Fair(AudioStructure(files, counts), half)
<1> DEFINE audio == {i \in DOMAIN files : FamilyOf[files[i].ext] = "audio"}
           parts == {i \in audio : IsPart(files[i])}
           only  == files[CHOOSE i \in audio : \A j \in audio : i <= j]
           lone  == Cardinality(audio) = 1 /\ parts = {}
<1> DEFINE a == {<<"struct-audio", "music", 45>>}
           b == When(parts = audio, "struct-audio-parts", "audiobook", 70)
           c == When(lone /\ Numbered(only), "struct-track-number", "music", 25)
           d == When(lone /\ ~Numbered(only) /\ PairForm(only), "struct-single-audio", "audiobook",
                    60)
<1>1. AudioStructure(files, counts) = a \cup b \cup c \cup d
  BY Zenon DEF AudioStructure
<1>2. 45 \in Nat /\ "music" # "movie"
  OBVIOUS
<1>3. Fair(a, half)
  BY <1>2, OneFair, Zenon
<1> HIDE DEF audio, parts, only, lone
<1>4. Fair(b, half) /\ Fair(c, half) /\ Fair(d, half)
  BY WhenFair
<1> HIDE DEF a, b, c, d
<1>5. Fair(a \cup b \cup c \cup d, half)
  BY <1>3, <1>4, BothFair
<1> QED
  BY <1>1, <1>5, Zenon

LEMMA StructureFair ==
    ASSUME NEW files, NEW counts, NEW info
    PROVE  Fair(StructureSignals(files, counts, info), Half(counts))
<1> DEFINE half == Half(counts)
           total == PrimaryCount(counts)
           dominant(m) == counts[m] > 0 /\ 2 * counts[m] >= total
           a == When(dominant("video") /\ info.tv.isTV, "struct-video-tv", "tv", 35)
           b == When(dominant("video") /\ ~info.tv.isTV /\ info.year, "struct-video-movie", "movie",
                    35)
           c == IF dominant("audio") THEN AudioStructure(files, counts) ELSE {}
           d == When(counts["book"] > 0 /\ HasExt(files, "opf"), "struct-opf", "ebook", 35)
<1>1. StructureSignals(files, counts, info) = a \cup b \cup c \cup d
  BY Zenon DEF StructureSignals
<1>2. dominant("video") /\ ~info.tv.isTV /\ info.year => half
  BY Zenon DEF Half
<1> HIDE DEF half, total, dominant
<1>3. Fair(a, half) /\ Fair(d, half)
  BY WhenFair
<1>4. Fair(b, half)
  BY <1>2, MoviesFair, Zenon
<1>5. Fair(c, half)
  BY AudioFair, EmptyFair, Zenon
<1> HIDE DEF a, b, c, d
<1>6. Fair(a \cup b \cup c \cup d, half)
  BY <1>3, <1>4, <1>5, BothFair
<1> QED
  BY <1>1, <1>6, Zenon DEF half

LEMMA SignalsFair ==
    ASSUME NEW files, NEW n, NEW info, NEW counts, NEW default, default # "movie"
    PROVE  Fair(Signals(files, n, info, counts, default), Half(counts))
<1> DEFINE half == Half(counts)
           a == ExtensionSignals(files, n, counts, default)
           b == NameSignals(n, info, counts)
           c == StructureSignals(files, counts, info)
<1>1. Signals(files, n, info, counts, default) = a \cup b \cup c
  BY Zenon DEF Signals
<1>2. Fair(c, half)
  BY StructureFair
<1> HIDE DEF half
<1>3. Fair(a, half)
  BY ExtensionFair
<1>4. Fair(b, half)
  BY NameFair
<1> HIDE DEF a, b, c
<1>5. Fair(a \cup b \cup c, half)
  BY <1>2, <1>3, <1>4, BothFair
<1> QED
  BY <1>1, <1>5, Zenon DEF half

\* Short of video for half of the payload a film is told by its year alone.
LEMMA FilmNeedsVideo ==
    ASSUME NEW S, NEW half, Fair(S, half), ~half PROVE Score(S, "movie") <= 55
<1>1. Of(S, "movie") \subseteq {NameYear} /\ NameYear[3] = 55 /\ Weighted(S)
  BY DEF Fair, Of, NameYear
<1> QED
  BY <1>1, ScoreOfOne


-----------------------------------------------------------------------------
(* Names *)

\* The notation that decides is one of those that match.
LEMMA LeastNotation ==
    ASSUME NEW ns, ns \subseteq DOMAIN Rank, ns # {}
    PROVE  (CHOOSE n \in ns : \A m \in ns : Rank[n] <= Rank[m]) \in ns
<1>1. \A n \in ns : Rank[n] \in Nat
  BY DEF Rank
<1>2. \E n \in ns : \A m \in ns : Rank[n] <= Rank[m]
  <2> DEFINE ranks == {Rank[n] : n \in ns}
  <2>1. ranks \subseteq Nat /\ ranks # {}
    BY <1>1
  <2>2. PICK k \in ranks : \A m \in ranks : k <= m
    BY <2>1, HasLeast
  <2> QED
    BY <2>2
<1> QED
  BY <1>2, Zenon

\* A name has an episode or a season, or is known not to have one.
LEMMA NotationIs ==
    ASSUME NEW c, c.notation \subseteq DOMAIN Rank, c.season \in Nat
    PROVE  LET tv == ParseTV(c) IN
           tv.season >= 0 \/ tv.absolute \/ tv.date \/ tv.pack \/ ~tv.isTV
<1> DEFINE by == CHOOSE n \in c.notation : \A m \in c.notation : Rank[n] <= Rank[m]
           In(season, eps) == [SomeTV EXCEPT !.season = season, !.eps = eps]
           tv == ParseTV(c)
<1>1. CASE c.notation = {}
  BY <1>1 DEF ParseTV, NotTV
<1>2. CASE c.notation # {}
  <2>1. tv = CASE by = "anime" -> [SomeTV EXCEPT !.absolute = TRUE]
               [] by = "list" -> In(c.season, c.eps)
               [] by = "span" -> In(c.season, SpanOf(c.eps))
               [] by \in {"word", "alt"} -> In(c.season, <<c.eps[1]>>)
               [] by = "std" -> In(IF c.eps[1] = 0 THEN 0 ELSE c.season, <<c.eps[1]>>)
               [] by = "date" -> [SomeTV EXCEPT !.date = TRUE]
               [] by = "series" -> [SomeTV EXCEPT !.pack = TRUE]
               [] by \in {"seasonword", "season"} -> In(c.season, <<>>)
    BY <1>2, Zenon DEF ParseTV
  <2>2. by \in c.notation
    BY <1>2, LeastNotation
  <2>3. \A s \in Nat : \A eps : In(s, eps).season >= 0
    BY DEF SomeTV, NotTV
  <2>4. /\ [SomeTV EXCEPT !.absolute = TRUE].absolute /\ [SomeTV EXCEPT !.date = TRUE].date
        /\ [SomeTV EXCEPT !.pack = TRUE].pack
    BY DEF SomeTV, NotTV
  <2>5. (IF c.eps[1] = 0 THEN 0 ELSE c.season) \in Nat
    OBVIOUS
  <2>6. by \in {"anime", "list", "span", "word", "std", "alt", "date", "series", "seasonword",
                "season"}
    BY <2>2 DEF Rank
  <2> HIDE DEF by, In, tv
  <2>7. tv.season >= 0 \/ tv.absolute \/ tv.date \/ tv.pack \/ ~tv.isTV
    BY <2>1, <2>3, <2>4, <2>5, <2>6
  <2> QED
    BY <2>7 DEF tv
<1> QED
  BY <1>1, <1>2

\* The name of an item holds numbers that patterns find.
LEMMA NameCode ==
    ASSUME NEW n \in Names PROVE n.code.notation \subseteq DOMAIN Rank /\ n.code.season \in Nat
BY NamesAssumption, NumeralAssumption DEF WellFormed

\* A name that is parsed for sure has a season or a year.
LEMMA Confident ==
    ASSUME NEW n \in Names, ~(Parse(n).conf < 85)
    PROVE  Parse(n).tv.season >= 0 \/ n.year \in {"paren", "end", "future"}
<1> DEFINE tv == ParseTV(n.code)
           year == HasYear(tv, n.year)
           title == TitleOf(n, tv)
           more == IF n.imdb THEN 5 ELSE 0
           untitled == title = ""
<1>1. /\ Parse(n).tv = tv
      /\ Parse(n).conf =
           IF tv.absolute THEN 55
           ELSE IF untitled THEN 0
           ELSE (CASE tv.season >= 0 /\ tv.eps # <<>> -> 95
                   [] tv.season >= 0 /\ tv.eps = <<>> -> 85
                   [] tv.date -> 60
                   [] tv.pack -> 70
                   [] ~tv.isTV -> IF year THEN 90 ELSE 20) + more
  BY Zenon DEF Parse, Confidence
<1>2. tv.season >= 0 \/ tv.absolute \/ tv.date \/ tv.pack \/ ~tv.isTV
  BY NotationIs, NameCode
<1>3. ~tv.isTV /\ year => n.year \in {"paren", "end", "future"}
  BY DEF HasYear
<1>4. more \in {0, 5}
  OBVIOUS
<1> HIDE DEF tv, year, title, more, untitled
<1> QED
  BY <1>1, <1>2, <1>3, <1>4

LEMMA EnrichKeeps ==
    ASSUME NEW type, NEW n, NEW files PROVE Enrich(type, n, files).conf = Parse(n).conf
<1> DEFINE p == ToParsed(Parse(n))
<1>1. p.conf = Parse(n).conf
  BY DEF ToParsed
<1>2. /\ EnrichMusic(p, n).conf = p.conf /\ EnrichAudiobook(p, n, files).conf = p.conf
      /\ EnrichEbook(p, n, files).conf = p.conf /\ EnrichComic(p, n).conf = p.conf
      /\ EnrichROM(p, n, files).conf = p.conf
  BY DEF ToParsed, EnrichMusic, EnrichAudiobook, EnrichEbook, EnrichComic, EnrichROM
<1> HIDE DEF p
<1> QED
  BY <1>1, <1>2 DEF Enrich, p


-----------------------------------------------------------------------------
(* The elements at some positions *)

Standing(at, i) == Cardinality({j \in at : j <= i})

LEMMA RankType ==
    ASSUME NEW n \in Nat, NEW at \in SUBSET (1 .. n)
    PROVE  /\ IsFiniteSet(at) /\ Cardinality(at) \in Nat
           /\ \A i \in at : Standing(at, i) \in 1 .. Cardinality(at)
<1>1. IsFiniteSet(at) /\ Cardinality(at) \in Nat
  <2>1. IsFiniteSet(1 .. n)
    BY FS_Interval
  <2>2. IsFiniteSet(at)
    BY <2>1, FS_Subset
  <2> QED
    BY <2>2, FS_CardinalityType
<1>2. ASSUME NEW i \in at PROVE Standing(at, i) \in 1 .. Cardinality(at)
  <2> DEFINE below == {j \in at : j <= i}
  <2>1. below \subseteq at /\ i \in below
    <3>1. i \in Nat
      OBVIOUS
    <3> QED
      BY <3>1
  <2>2. IsFiniteSet(below) /\ Cardinality(below) \in Nat /\ Cardinality(below) <= Cardinality(at)
    BY <1>1, <2>1, FS_Subset, FS_CardinalityType
  <2>3. Cardinality(below) # 0
    BY <2>1, <2>2, FS_EmptySet
  <2> QED
    BY <1>1, <2>2, <2>3 DEF Standing
<1> QED
  BY <1>1, <1>2

\* Positions in order have ranks in order.
LEMMA RankRises ==
    ASSUME NEW n \in Nat, NEW at \in SUBSET (1 .. n), NEW i \in at, NEW j \in at,
           Standing(at, i) = Standing(at, j)
    PROVE  i = j
<1>1. ASSUME NEW k \in at, NEW l \in at, k < l PROVE Standing(at, k) # Standing(at, l)
  <2> DEFINE low  == {x \in at : x <= k}
             high == {x \in at : x <= l}
  <2>1. \A x \in at : x \in Nat
    OBVIOUS
  <2>2. low \subseteq high /\ l \in high /\ l \notin low
    <3>1. l <= l /\ ~(l <= k) /\ \A x \in at : x <= k => x <= l
      BY <1>1, <2>1
    <3> QED
      BY <3>1, Zenon
  <2>3. IsFiniteSet(high)
    BY RankType, FS_Subset
  <2> HIDE DEF low, high
  <2>4. Cardinality(low) # Cardinality(high)
    BY <2>2, <2>3, FS_Subset
  <2> QED
    BY <2>4 DEF Standing, low, high
<1>2. i \in Nat /\ j \in Nat
  OBVIOUS
<1> QED
  BY <1>1, <1>2

\* No rank is without a position, as the lowest that were would show.
LEMMA RankHas ==
    ASSUME NEW n \in Nat, NEW at \in SUBSET (1 .. n), NEW k \in 1 .. Cardinality(at)
    PROVE  \E i \in at : Standing(at, i) = k
<1> DEFINE C == Cardinality(at)
           none == {m \in 1 .. C : ~\E i \in at : Standing(at, i) = m}
<1>1. /\ IsFiniteSet(at) /\ C \in Nat /\ at \in SUBSET Nat
      /\ \A x, y \in at : (x <= y \/ y < x) /\ (x <= y /\ y <= x => x = y)
  <2>1. \A x \in at : x \in Nat
    OBVIOUS
  <2>2. \A x, y \in at : (x <= y \/ y < x) /\ (x <= y /\ y <= x => x = y)
    BY <2>1
  <2>3. IsFiniteSet(at) /\ C \in Nat
    BY RankType
  <2> QED
    BY <2>1, <2>2, <2>3
<1>2. ASSUME none # {} PROVE FALSE
  <2>1. none \subseteq Nat
    BY <1>1
  <2>2. PICK m \in none : \A l \in none : m <= l
    BY <1>2, <2>1, HasLeast
  <2>3. CASE m = 1
    <3>1. at # {}
      BY <1>1, <2>2, FS_EmptySet
    <3>2. PICK i \in at : \A j \in at : i <= j
      BY <1>1, <3>1, HasLeast
    <3>3. {j \in at : j <= i} = {i}
      <4>1. \A j \in at : j <= i <=> j = i
        BY <1>1, <3>2
      <4> QED
        BY <4>1, Zenon
    <3>4. Standing(at, i) = 1
      BY <3>3, FS_Singleton DEF Standing
    <3> QED
      BY <2>2, <2>3, <3>4
  <2>4. CASE m # 1
    <3>1. m - 1 \in 1 .. C /\ m - 1 \notin none
      BY <1>1, <2>1, <2>2, <2>4
    <3>2. PICK i \in at : Standing(at, i) = m - 1
      BY <3>1
    <3> DEFINE low == {j \in at : j <= i}
               rest == {j \in at : i < j}
    <3>3. rest # {}
      <4>1. SUFFICES ASSUME rest = {} PROVE FALSE
        OBVIOUS
      <4>2. low = at
        BY <1>1, <4>1, Zenon
      <4>3. C = m - 1
        BY <3>2, <4>2 DEF Standing
      <4> QED
        BY <1>1, <2>2, <4>3
    <3>4. PICK x \in rest : \A j \in rest : x <= j
      <4>1. rest \in SUBSET Nat
        BY <1>1
      <4> HIDE DEF rest
      <4> QED
        BY <3>3, <4>1, HasLeast
    <3>5. {j \in at : j <= x} = low \cup {x} /\ x \notin low
      <4>1. x \in at /\ i < x /\ \A j \in at : i < j => x <= j
        BY <3>4
      <4>2. ~(x <= i) /\ \A j \in at : j <= x <=> j <= i \/ j = x
        BY <1>1, <4>1
      <4> QED
        BY <4>1, <4>2, Zenon
    <3>6. IsFiniteSet(low)
      BY <1>1, FS_Subset
    <3>7. Cardinality(low) = m - 1
      BY <3>2 DEF Standing
    <3>8. Cardinality(low \cup {x}) = (m - 1) + 1
      BY <3>5, <3>6, <3>7, FS_AddElement
    <3>9. (m - 1) + 1 = m
      BY <2>1, <2>2
    <3>10. Standing(at, x) = m
      BY <3>5, <3>8, <3>9 DEF Standing
    <3> QED
      BY <2>2, <3>4, <3>10
  <2> QED
    BY <2>3, <2>4
<1> QED
  BY <1>2

\* ElementsAt has the files of those positions, and as many.
LEMMA ElementsAtAre ==
    ASSUME NEW n \in Nat, NEW at \in SUBSET (1 .. n), NEW files
    PROVE  /\ Cardinality(at) \in Nat
           /\ DOMAIN ElementsAt(files, at) = 1 .. Cardinality(at)
           /\ FilesOf(ElementsAt(files, at)) = {files[i] : i \in at}
<1> DEFINE C == Cardinality(at)
           s == ElementsAt(files, at)
<1>1. C \in Nat
  BY RankType
<1>2. s = [k \in 1 .. C |-> files[NthOf(at, k)]]
  BY DEF ElementsAt
<1>3. ASSUME NEW k \in 1 .. C PROVE NthOf(at, k) \in at /\ Standing(at, NthOf(at, k)) = k
  <2>1. \E i \in at : Standing(at, i) = k
    BY RankHas
  <2>2. NthOf(at, k) = CHOOSE i \in at : Standing(at, i) = k
    BY DEF NthOf, Standing
  <2> QED
    BY <2>1, <2>2, Zenon
<1>4. \A i \in at : Standing(at, i) \in 1 .. C /\ NthOf(at, Standing(at, i)) = i
  <2>1. ASSUME NEW i \in at PROVE Standing(at, i) \in 1 .. C
    BY RankType
  <2>2. ASSUME NEW i \in at PROVE NthOf(at, Standing(at, i)) = i
    BY <1>3, <2>1, RankRises
  <2> QED
    BY <2>1, <2>2
<1> HIDE DEF C, s
<1>5. FilesOf(s) = {files[i] : i \in at}
  <2>1. FilesOf(s) = {s[k] : k \in 1 .. C}
    BY <1>2 DEF FilesOf
  <2>2. \A k \in 1 .. C : s[k] = files[NthOf(at, k)]
    BY <1>2
  <2>3. ASSUME NEW i \in at PROVE files[i] \in {s[k] : k \in 1 .. C}
    BY <1>4, <2>2
  <2>4. ASSUME NEW k \in 1 .. C PROVE s[k] \in {files[i] : i \in at}
    BY <1>3, <2>2
  <2> QED
    BY <2>1, <2>3, <2>4
<1> QED
  BY <1>1, <1>2, <1>5 DEF s, C


-----------------------------------------------------------------------------
(* What a layout places *)

LEMMA LenIs == ASSUME NEW n \in Nat, NEW T, NEW s \in [1 .. n -> T] PROVE Len(s) = n
OBVIOUS

\* The positions of a payload, each kept or left out.
LEMMA PositionsAre ==
    ASSUME NEW files \in Payloads, NEW l
    PROVE  /\ Len(files) \in Nat /\ DOMAIN files = 1 .. Len(files)
           /\ Kept(files, l) \in SUBSET (1 .. Len(files))
           /\ Cardinality(Kept(files, l)) + Cardinality(DOMAIN files \ Kept(files, l)) = Len(files)
<1>1. Len(files) \in Nat /\ DOMAIN files = 1 .. Len(files)
  BY PayloadsAssumption
<1>2. Kept(files, l) \in SUBSET (1 .. Len(files))
  BY <1>1 DEF Kept
<1> DEFINE all == 1 .. Len(files)
           at == Kept(files, l)
<1>3. IsFiniteSet(all) /\ Cardinality(all) = Len(files)
  <2>1. Cardinality(all) = IF 1 > Len(files) THEN 0 ELSE (Len(files) - 1) + 1
    BY <1>1, FS_Interval
  <2>2. IsFiniteSet(all)
    BY <1>1, FS_Interval
  <2> HIDE DEF all
  <2> QED
    BY <1>1, <2>1, <2>2
<1> HIDE DEF all, at
<1>4. at \in SUBSET all
  BY <1>2 DEF all, at
<1>5. IsFiniteSet(at) /\ all \cap at = at
  BY <1>3, <1>4, FS_Subset
<1>6. Cardinality(all \ at) = Cardinality(all) - Cardinality(at) /\ Cardinality(at) \in Nat
  <2>1. Cardinality(all \ at) = Cardinality(all) - Cardinality(all \cap at)
    BY <1>3, FS_Difference
  <2> QED
    BY <1>5, <2>1, FS_CardinalityType
<1>7. Cardinality(at) + Cardinality(all \ at) = Len(files)
  BY <1>1, <1>3, <1>6
<1> QED
  BY <1>1, <1>2, <1>7 DEF all, at

LEMMA JoinExt ==
    ASSUME NEW l, NEW folders, NEW tail, NEW name, NEW ext
    PROVE  Join(l, folders, tail, name, ext).ext = ext
BY Zenon DEF Join

LEMMA CutExt ==
    ASSUME NEW l, NEW folders, NEW name, NEW ext PROVE Cut(l, folders, name, ext).ext = ext
BY Zenon DEF Join, Cut

\* No builder changes an extension.
LEMMA ExtIsKept ==
    ASSUME NEW type \in Types, NEW p, NEW files, NEW l, NEW i \in DOMAIN files
    PROVE  Destinations(type, p, files, l)[i].ext = files[i].ext
<1>1. BuildMovie(p, files, l)[i].ext = files[i].ext
  <2> DEFINE main == Largest(files)
             base == IF main = {} THEN <<>> ELSE files[CHOOSE j \in main : TRUE].base
             suffix(j) == IF j \in main THEN <<>> ELSE SuffixFor(files[j], base)
             name(j) == TitleYear(p) \o suffix(j)
             folders == <<TitleYear(p)>>
  <2>1. BuildMovie(p, files, l) = [j \in DOMAIN files |-> Cut(l, folders, name(j), files[j].ext)]
    BY Zenon DEF BuildMovie
  <2> HIDE DEF name, folders
  <2> QED
    BY <2>1, CutExt
<1>2. BuildTV(p, files, l)[i].ext = files[i].ext
  <2> DEFINE at(j) == EpisodeFor(p, files[j])
             season(j) == IF at(j) = <<>> THEN 0 ELSE at(j)[1]
             marker(j) == IF at(j) = <<>> THEN <<"date">> ELSE Marker(at(j))
             folders(j) == <<TitleYear(p), <<"Season", Numeral[season(j)]>>>>
             name(j) == Component(<<p.title, "-">>) \o marker(j)
  <2>1. BuildTV(p, files, l) = [j \in DOMAIN files |-> Cut(l, folders(j), name(j), files[j].ext)]
    BY Zenon DEF BuildTV
  <2> HIDE DEF name, folders
  <2> QED
    BY <2>1, CutExt
<1>3. ASSUME NEW folder PROVE BuildVerbatim(files, l, folder)[i].ext = files[i].ext
  <2> DEFINE tail(j) == PayloadTail(files[j])
             below(j) == [k \in DOMAIN tail(j) |-> <<tail(j)[k]>>]
  <2>1. BuildVerbatim(files, l, folder) =
          [j \in DOMAIN files |-> Join(l, folder, below(j), files[j].base, files[j].ext)]
    BY Zenon DEF BuildVerbatim
  <2> HIDE DEF below
  <2> QED
    BY <2>1, JoinExt
<1>4. BuildComic(p, files, l)[i].ext = files[i].ext
  <2> DEFINE oneshot == p.volume = 0 /\ ~p.issue /\ l.oneshots # ""
             folder == IF oneshot THEN l.oneshots ELSE Or(p.series, p.title)
             folders == <<Component(<<folder>>)>>
  <2>1. BuildComic(p, files, l) =
          [j \in DOMAIN files |-> Cut(l, folders, files[j].base, files[j].ext)]
    BY Zenon DEF BuildComic
  <2> HIDE DEF folders
  <2> QED
    BY <2>1, CutExt
<1>5. BuildEbook(p, files, l)[i].ext = files[i].ext
  <2> DEFINE folder == Or(p.series, Or(l.oneshots, p.title))
             volume == IF p.volume > 0 THEN Numeral[p.volume] ELSE ""
             author == IF l.oneshots # "" THEN p.author ELSE ""
             stem == IF p.series # "" THEN <<p.series, volume, "-", p.title>>
                     ELSE <<author, p.title>>
             folders == <<Component(<<folder>>)>>
             name == Component(stem)
  <2>1. BuildEbook(p, files, l) = [j \in DOMAIN files |-> Cut(l, folders, name, files[j].ext)]
    BY Zenon DEF BuildEbook
  <2> HIDE DEF folders, name
  <2> QED
    BY <2>1, CutExt
<1>6. BuildROM(p, files, l)[i].ext = files[i].ext
  <2> DEFINE game == IF Len(files) > 1 THEN Component(<<p.title>>) ELSE <<>>
             folders == <<<<"roms">>, <<p.platform>>, game>>
  <2>1. BuildROM(p, files, l) =
          [j \in DOMAIN files |-> Cut(l, folders, files[j].base, files[j].ext)]
    BY Zenon DEF BuildROM
  <2> HIDE DEF folders
  <2> QED
    BY <2>1, CutExt
<1>7. type \in {"movie", "tv", "music", "audiobook", "comic", "ebook", "rom"}
  BY DEF Types, AllTypes
<1> QED
  BY <1>1, <1>2, <1>3, <1>4, <1>5, <1>6, <1>7 DEF Destinations

\* A layout that is not refused places what is kept and skips the rest.
LEMMA BuildIs ==
    ASSUME NEW type \in Types, NEW p, NEW files \in Payloads, NEW l, ~Build(type, p, files, l).refused
    PROVE  LET b == Build(type, p, files, l)
               payload == Payload(files, l)
           IN  /\ b.skipped = Skipped(files, l)
               /\ DOMAIN b.placed = DOMAIN payload /\ Len(b.placed) = Cardinality(Kept(files, l))
               /\ \A i \in DOMAIN payload :
                     b.placed[i].src = payload[i] /\ b.placed[i].dst.ext = payload[i].ext
<1> DEFINE b == Build(type, p, files, l)
           payload == Payload(files, l)
           dsts == Destinations(type, p, payload, l)
           refused == payload # <<>> /\ Refuses(type, p, payload, l)
           n == Cardinality(Kept(files, l))
           steps == [i \in DOMAIN payload |-> [src |-> payload[i], dst |-> dsts[i]]]
<1>1. /\ b.refused = refused /\ b.skipped = Skipped(files, l)
      /\ b.placed = IF refused \/ payload = <<>> THEN <<>> ELSE steps
  BY Zenon DEF Build
<1>2. n \in Nat /\ DOMAIN payload = 1 .. n
  BY PositionsAre, ElementsAtAre DEF Payload
<1>3. \A i \in DOMAIN payload : steps[i].src = payload[i] /\ steps[i].dst.ext = payload[i].ext
  <2>1. ASSUME NEW i \in DOMAIN payload PROVE dsts[i].ext = payload[i].ext
    BY ExtIsKept
  <2>2. ASSUME NEW i \in DOMAIN payload PROVE steps[i].src = payload[i] /\ steps[i].dst = dsts[i]
    OBVIOUS
  <2> QED
    BY <2>1, <2>2
<1>4. DOMAIN steps = DOMAIN payload /\ Len(steps) = n
  <2> DEFINE T == {steps[i] : i \in 1 .. n}
  <2>1. steps \in [1 .. n -> T]
    BY <1>2
  <2> HIDE DEF steps, T, n
  <2>2. Len(steps) = n
    BY <1>2, <2>1, LenIs
  <2> QED
    BY <2>2, Zenon DEF steps
<1>5. CASE payload = <<>>
  <2>1. DOMAIN payload = {} /\ DOMAIN <<>> = {}
    BY <1>5
  <2>2. n = 0 /\ Len(<<>>) = 0
    BY <1>2, <2>1
  <2> QED
    BY <1>1, <1>5, <2>1, <2>2
<1>6. CASE payload # <<>>
  <2>1. b.placed = steps
    BY <1>1, <1>6
  <2> HIDE DEF b, payload, steps, n
  <2>2. /\ b.skipped = Skipped(files, l)
        /\ DOMAIN b.placed = DOMAIN payload /\ Len(b.placed) = n
        /\ \A i \in DOMAIN payload :
              b.placed[i].src = payload[i] /\ b.placed[i].dst.ext = payload[i].ext
    BY <1>1, <1>3, <1>4, <2>1
  <2> QED
    BY <2>2 DEF b, payload, n
<1> QED
  BY <1>5, <1>6

-----------------------------------------------------------------------------
(* The operators *)

\* What asks for a review whatever AutoFile says.
Doubtful ==
    \/ result.why # "" \/ verdict.score < rules.auto \/ parsed.conf < rules.auto
    \/ verdict.card # "single" \/ Rootless(item.files)

\* No reason, and those that AutoFile alone accounts for.
NoReason == ""
Switched == {"", "auto-file is off"}

\* The reasons of the layout, which are never that AutoFile is off.
Whys == {"", "no ingestible files", "absolute numbering", "date-based episode"}

LEMMA BuildSaysWhy ==
    ASSUME NEW type, NEW p, NEW files, NEW l PROVE Build(type, p, files, l).why \in Whys
BY DEF Build, ReviewReason, Whys

LEMMA VerdictIs ==
    ASSUME NEW t, NEW s, NEW c, NEW why
    PROVE  Verdict(t, s, c, why).type = t /\ Verdict(t, s, c, why).reason = why
BY DEF Verdict

\* A verdict that names no type says why.
LEMMA UnknownHasReason ==
    ASSUME NEW n, NEW files, NEW r, Decide(n, files, r).type = "unknown"
    PROVE  Decide(n, files, r).reason # NoReason
<1> DEFINE info == Parse(n)
           counts == CountFamilies(files)
           top == Top2(Signals(files, n, info, counts, r.pdf))
           card == Cardinal(files, n, counts, info)
<1> HIDE DEF info, counts, top, card
<1>1. Decide(n, files, r) =
        IF counts["archive"] > 0 /\ PrimaryCount(counts) = 0
        THEN Verdict("unknown", 0, "single", "needs_extraction")
        ELSE IF DetectMixed(counts) THEN Verdict("unknown", 0, "mixed", "multi-type")
        ELSE IF "generic" \in n.marks /\ PrimaryCount(counts) = 0
        THEN Verdict("unknown", 0, "single", "no_signal")
        ELSE IF top.best = "unknown" \/ top.score < r.review
        THEN Verdict("unknown", top.score, card, "below_review_threshold")
        ELSE IF top.score - top.second < r.margin /\ top.second > 0
        THEN Verdict("unknown", top.score, card, "ambiguous")
        ELSE Verdict(top.best, top.score, card, NoReason)
  BY DEF Decide, info, counts, top, card, NoReason
<1>2. NoReason \notin {"needs_extraction", "multi-type", "no_signal", "below_review_threshold",
                        "ambiguous"}
  BY DEF NoReason
<1> QED
  BY <1>1, <1>2, VerdictIs

\* A verdict that names a type names the one with the best score, by the margin.
LEMMA TypeIsBest ==
    ASSUME NEW n, NEW files, NEW r \in Rules, Decide(n, files, r).type # "unknown"
    PROVE  LET v == Decide(n, files, r)
               all == Signals(files, n, Parse(n), CountFamilies(files), r.pdf)
           IN  /\ v.type \in Types /\ v.score = Score(all, v.type) /\ v.score \in Nat
               /\ \A t \in Types \ {v.type} :
                     Score(all, t) = 0 \/ Score(all, t) + r.margin <= Score(all, v.type)
<1> DEFINE info == Parse(n)
           counts == CountFamilies(files)
           all == Signals(files, n, info, counts, r.pdf)
           top == Top2(all)
           card == Cardinal(files, n, counts, info)
           v == Decide(n, files, r)
           weak == top.best = "unknown" \/ top.score < r.review
           close == top.score - top.second < r.margin /\ top.second > 0
           best == Verdict(top.best, top.score, card, NoReason)
<1>1. v = IF counts["archive"] > 0 /\ PrimaryCount(counts) = 0
          THEN Verdict("unknown", 0, "single", "needs_extraction")
          ELSE IF DetectMixed(counts) THEN Verdict("unknown", 0, "mixed", "multi-type")
          ELSE IF "generic" \in n.marks /\ PrimaryCount(counts) = 0
          THEN Verdict("unknown", 0, "single", "no_signal")
          ELSE IF weak THEN Verdict("unknown", top.score, card, "below_review_threshold")
          ELSE IF close THEN Verdict("unknown", top.score, card, "ambiguous")
          ELSE best
  BY DEF Decide, NoReason
<1>2. best.type = top.best /\ best.score = top.score
  BY DEF Verdict
<1>3. r.pdf # "movie" /\ r.margin \in Nat
  BY RulesAssumption
<1>4. Weighted(all)
  BY <1>3, SignalsFair DEF Fair
<1>5. /\ top.best \in Types \cup {"unknown"} /\ top.score \in Nat /\ top.second \in Nat
      /\ top.best # "unknown" => top.score = Score(all, top.best)
      /\ \A t \in Types \ {top.best} : Score(all, t) \in Nat /\ Score(all, t) <= top.second
  BY <1>4, Top2Leads
<1> HIDE DEF info, counts, all, top, card, best, weak
<1>6. v = best /\ ~weak /\ ~close
  BY <1>1, VerdictIs
<1>7. v.type = top.best /\ v.score = top.score
  BY <1>2, <1>6
<1>8. \A t \in Types \ {top.best} : Score(all, t) = 0 \/ Score(all, t) + r.margin <= top.score
  BY <1>3, <1>5, <1>6
<1> HIDE DEF v, close
<1>9. /\ v.type \in Types /\ v.score = Score(all, v.type) /\ v.score \in Nat
      /\ \A t \in Types \ {v.type} :
            Score(all, t) = 0 \/ Score(all, t) + r.margin <= Score(all, v.type)
  BY <1>5, <1>6, <1>7, <1>8 DEF weak
<1> QED
  BY <1>9, Zenon DEF v, all, info, counts

\* A film told for sure has video for half of its payload.
LEMMA FilmHasVideo ==
    ASSUME NEW n, NEW files, NEW r \in Rules,
           Decide(n, files, r).type = "movie", Decide(n, files, r).score >= 85
    PROVE  Half(CountFamilies(files))
<1> DEFINE counts == CountFamilies(files)
           all == Signals(files, n, Parse(n), counts, r.pdf)
<1>1. Decide(n, files, r).score = Score(all, "movie") /\ Decide(n, files, r).score \in Nat
  BY TypeIsBest
<1>2. Fair(all, Half(counts))
  <2>1. r.pdf # "movie"
    BY RulesAssumption
  <2> QED
    BY <2>1, SignalsFair
<1> HIDE DEF counts, all
<1>3. ~(Score(all, "movie") <= 55)
  BY <1>1
<1>4. Half(counts) => Half(CountFamilies(files))
  BY DEF counts
<1> QED
  BY <1>2, <1>3, <1>4, FilmNeedsVideo

LEMMA NeedsIs ==
    ASSUME NEW on \in BOOLEAN PROVE NeedsReview(on) <=> Doubtful \/ ~on
BY DEF NeedsReview, Doubtful

LEMMA ReasonIs ==
    ASSUME NEW on \in BOOLEAN, result.why \in Whys
    PROVE  /\ Doubtful => ReasonFor(on) \notin Switched
           /\ ~Doubtful => ReasonFor(on) \in Switched /\ (ReasonFor(on) = NoReason <=> on)
BY DEF ReasonFor, Doubtful, Whys, Switched, NoReason

-----------------------------------------------------------------------------
(* A plan has a reason exactly if it needs a review *)

\* What the loop knows between the two readings of AutoFile: without a doubt,
\* what they read decides alone, and they read the same unless the settings
\* have changed meanwhile.
ReviewInv ==
    /\ auto \in BOOLEAN /\ changes \in Nat
    /\ pc \in {"decide", "explain", "save"} => result.why \in Whys
    /\ pc \in {"explain", "save"} =>
          /\ needs \in BOOLEAN
          /\ Doubtful => needs
          /\ ~Doubtful /\ changes = 0 => (needs <=> ~auto)
    /\ pc = "save" =>
          /\ Doubtful => reason \notin Switched
          /\ ~Doubtful => reason \in Switched
          /\ ~Doubtful /\ changes = 0 => (needs <=> reason # NoReason)
    /\ plan.made =>
          /\ pc = "done"
          /\ (plan.needs <=> plan.reason = NoReason) =>
                changes > 0 /\ plan.reason \in Switched
    /\ said = "CLASSIFY_UNKNOWN" => pc = "done" /\ verdict.reason # NoReason

LEMMA ReviewInit == Init => ReviewInv
<1> SUFFICES ASSUME Init PROVE ReviewInv
  OBVIOUS
<1>1. plan = NoPlan /\ NoPlan.made = FALSE
  BY DEF Init, NoPlan
<1>2. pc = "classify" /\ said # "CLASSIFY_UNKNOWN" /\ auto \in BOOLEAN /\ changes = 0
  BY DEF Init
<1> QED
  BY <1>1, <1>2 DEF ReviewInv

LEMMA ReviewNext == ReviewInv /\ [Next]_vars => ReviewInv'
<1> SUFFICES ASSUME ReviewInv, [Next]_vars PROVE ReviewInv'
  OBVIOUS
<1> USE DEF ReviewInv, Goes, Ends, madeVars
<1>1. CASE ClassifyItem
  <2>1. verdict'.type = "unknown" => verdict'.reason # NoReason
    BY <1>1, UnknownHasReason DEF ClassifyItem
  <2> QED
    BY <1>1, <2>1 DEF ClassifyItem
<1>2. CASE Fails
  BY <1>2 DEF Fails
<1>3. CASE NoLibrary
  BY <1>3 DEF NoLibrary
<1>4. CASE BuildItem
  <2>1. result'.why \in Whys
    BY <1>4, BuildSaysWhy DEF BuildItem
  <2> QED
    BY <1>4, <2>1 DEF BuildItem
<1>5. CASE NeedReview
  <2>1. Doubtful' <=> Doubtful
    BY <1>5 DEF NeedReview, Doubtful
  <2>2. needs' <=> Doubtful \/ ~auto
    BY <1>5, NeedsIs DEF NeedReview
  <2>3. needs' \in BOOLEAN
    BY <1>5 DEF NeedReview, NeedsReview
  <2> QED
    BY <1>5, <2>1, <2>2, <2>3 DEF NeedReview
<1>6. CASE Explain
  <2>1. Doubtful' <=> Doubtful
    BY <1>6 DEF Explain, Doubtful
  <2>2. /\ Doubtful => reason' \notin Switched
        /\ ~Doubtful => reason' \in Switched /\ (reason' = NoReason <=> auto)
    BY <1>6, ReasonIs DEF Explain
  <2> QED
    BY <1>6, <2>1, <2>2 DEF Explain
<1>7. CASE Skips
  BY <1>7 DEF Skips
<1>8. CASE SavePlan
  <2> DEFINE saved == [made |-> TRUE, needs |-> needs, reason |-> reason, steps |-> result.placed]
  <2>1. plan' = saved
    BY <1>8 DEF SavePlan
  <2>2. saved.needs = needs /\ saved.reason = reason
    BY Zenon
  <2>3. (needs <=> reason = NoReason) => changes > 0 /\ reason \in Switched
    <3>1. NoReason \in Switched
      BY DEF NoReason, Switched
    <3> QED
      BY <1>8, <3>1 DEF SavePlan
  <2>4. /\ pc' = "done" /\ said' # "CLASSIFY_UNKNOWN"
        /\ UNCHANGED <<auto, changes>>
    BY <1>8 DEF SavePlan
  <2> HIDE DEF saved
  <2>5. plan'.needs = needs /\ plan'.reason = reason
    BY <2>1, <2>2
  <2> QED
    BY <2>3, <2>4, <2>5
<1>9. CASE SetConfig
  <2>1. Doubtful' <=> Doubtful
    BY <1>9 DEF SetConfig, Doubtful
  <2>2. changes' > 0 /\ changes' \in Nat
    BY <1>9 DEF SetConfig
  <2>3. auto' \in BOOLEAN
    BY <1>9, Zenon DEF SetConfig
  <2>4. UNCHANGED <<pc, result, needs, reason, plan, said, verdict>>
    BY <1>9 DEF SetConfig
  <2> QED
    BY <2>1, <2>2, <2>3, <2>4
<1>10. CASE UNCHANGED vars
  <2>1. Doubtful' <=> Doubtful
    BY <1>10 DEF vars, Doubtful
  <2> QED
    BY <1>10, <2>1 DEF vars
<1> QED
  BY <1>1, <1>2, <1>3, <1>4, <1>5, <1>6, <1>7, <1>8, <1>9, <1>10 DEF Next

\* For all names, payloads, libraries and thresholds: a plan has a reason
\* exactly if it needs a review, but for changes of AutoFile between its two
\* readings (pipeline.go, needsReview and reviewReason); an item without a type
\* says why.
THEOREM ReviewReasonedHolds == Spec => []ReviewReasoned
<1>1. ReviewInv => ReviewReasoned
  BY DEF ReviewInv, ReviewReasoned, Switched, NoReason
<1> QED
  BY <1>1, ReviewInit, ReviewNext, PTL DEF Spec

-----------------------------------------------------------------------------
(* No plan without a type that is sure *)

\* What the verdict and the name are, from their step on, and that a doubt asks
\* for a review.
SureInv ==
    /\ item.name \in Names /\ rules \in Rules
    /\ pc \in {"library", "decide", "explain", "save"} \/ plan.made =>
          /\ verdict = Decide(item.name, item.files, rules) /\ verdict.type # "unknown"
          /\ parsed.conf = Parse(item.name).conf
    /\ plan.made => pc = "done" /\ (Doubtful => plan.needs)

LEMMA SureInit == Init => SureInv
<1> SUFFICES ASSUME Init PROVE SureInv
  OBVIOUS
<1>1. plan = NoPlan /\ NoPlan.made = FALSE
  BY DEF Init, NoPlan
<1> QED
  BY <1>1 DEF Init, SureInv

LEMMA SureNext == ReviewInv /\ SureInv /\ [Next]_vars => SureInv'
<1> SUFFICES ASSUME ReviewInv, SureInv, [Next]_vars PROVE SureInv'
  OBVIOUS
<1> USE DEF SureInv, Goes, Ends, madeVars
<1>1. CASE ClassifyItem
  <2>1. parsed'.conf = Parse(item.name).conf
    BY <1>1, EnrichKeeps DEF ClassifyItem
  <2>2. ~plan.made
    BY <1>1 DEF ClassifyItem
  <2> QED
    BY <1>1, <2>1, <2>2 DEF ClassifyItem
<1>2. CASE Fails
  BY <1>2 DEF Fails
<1>3. CASE NoLibrary
  BY <1>3 DEF NoLibrary
<1>4. CASE BuildItem
  BY <1>4 DEF BuildItem
<1>5. CASE NeedReview
  BY <1>5 DEF NeedReview
<1>6. CASE Explain
  BY <1>6 DEF Explain
<1>7. CASE Skips
  BY <1>7 DEF Skips
<1>8. CASE SavePlan
  <2>1. Doubtful' <=> Doubtful
    BY <1>8 DEF SavePlan, Doubtful
  <2>2. Doubtful => needs
    BY <1>8 DEF SavePlan, ReviewInv
  <2>3. plan'.needs = needs
    BY <1>8 DEF SavePlan
  <2> QED
    BY <1>8, <2>1, <2>2, <2>3 DEF SavePlan
<1>9. CASE SetConfig
  <2>1. Doubtful' <=> Doubtful
    BY <1>9 DEF SetConfig, Doubtful
  <2> QED
    BY <1>9, <2>1 DEF SetConfig
<1>10. CASE UNCHANGED vars
  <2>1. Doubtful' <=> Doubtful
    BY <1>10 DEF vars, Doubtful
  <2> QED
    BY <1>10, <2>1 DEF vars
<1> QED
  BY <1>1, <1>2, <1>3, <1>4, <1>5, <1>6, <1>7, <1>8, <1>9, <1>10 DEF Next

LEMMA SureSaysSure == SureInv => PlansAreSure
<1> SUFFICES ASSUME SureInv, plan.made PROVE PlansAreSure
  BY DEF PlansAreSure
<1> DEFINE info == Parse(item.name)
           counts == CountFamilies(item.files)
           all == Signals(item.files, item.name, info, counts, rules.pdf)
<1>1. /\ verdict = Decide(item.name, item.files, rules) /\ verdict.type # "unknown"
      /\ parsed.conf = Parse(item.name).conf /\ rules \in Rules /\ item.name \in Names
      /\ Doubtful => plan.needs
  BY DEF SureInv
<1>2. \A t \in Types \ {verdict.type} :
          Score(all, t) = 0 \/ Score(all, t) + rules.margin <= Score(all, verdict.type)
  BY <1>1, TypeIsBest
<1>3. verdict.score \in Nat
  BY <1>1, TypeIsBest
<1>4. ASSUME Shipped, ~plan.needs
      PROVE  /\ info.tv.season >= 0 \/ item.name.year \in {"paren", "end", "future"}
             /\ verdict.type = "movie" => 2 * counts["video"] >= PrimaryCount(counts)
  <2>1. ~(verdict.score < 85) /\ ~(parsed.conf < 85)
    BY <1>1, <1>4 DEF Doubtful, Shipped
  <2>2. verdict.type = "movie" => Half(counts)
    BY <1>1, <1>3, <2>1, FilmHasVideo
  <2>3. info.tv.season >= 0 \/ item.name.year \in {"paren", "end", "future"}
    BY <1>1, <2>1, Confident
  <2> QED
    BY <2>2, <2>3 DEF Half
<1> QED
  BY <1>2, <1>4, Zenon DEF PlansAreSure

\* For all names, payloads and thresholds: no type comes near the one a plan is
\* for (decide.go, top2); with the thresholds as shipped a plan that needs no
\* review has an episode or a year in its name, and a film's has video for half
\* of its payload (signals.go, and scoreConfidence of release.go).
THEOREM PlansAreSureHolds == Spec => []PlansAreSure
<1>1. Spec => []ReviewInv
  BY ReviewInit, ReviewNext, PTL DEF Spec
<1>2. Spec => []SureInv
  BY <1>1, SureInit, SureNext, PTL DEF Spec
<1> QED
  BY <1>2, SureSaysSure, PTL

-----------------------------------------------------------------------------
(* Types, and where the files of a payload are *)

LEMMA VerdictType ==
    ASSUME NEW n, NEW files, NEW r \in Rules
    PROVE  LET v == Decide(n, files, r) IN
           /\ v.type \in Types \cup {"unknown"} /\ v.score \in Nat
           /\ v.card \in {"single", "multi", "mixed"}
           /\ v.reason # NoReason => v.type = "unknown"
<1> DEFINE info == Parse(n)
           counts == CountFamilies(files)
           all == Signals(files, n, info, counts, r.pdf)
           top == Top2(all)
           card == Cardinal(files, n, counts, info)
           v == Decide(n, files, r)
<1>1. v = IF counts["archive"] > 0 /\ PrimaryCount(counts) = 0
          THEN Verdict("unknown", 0, "single", "needs_extraction")
          ELSE IF DetectMixed(counts) THEN Verdict("unknown", 0, "mixed", "multi-type")
          ELSE IF "generic" \in n.marks /\ PrimaryCount(counts) = 0
          THEN Verdict("unknown", 0, "single", "no_signal")
          ELSE IF top.best = "unknown" \/ top.score < r.review
          THEN Verdict("unknown", top.score, card, "below_review_threshold")
          ELSE IF top.score - top.second < r.margin /\ top.second > 0
          THEN Verdict("unknown", top.score, card, "ambiguous")
          ELSE Verdict(top.best, top.score, card, NoReason)
  BY DEF Decide, NoReason
<1>2. r.pdf # "movie"
  BY RulesAssumption
<1>3. Weighted(all)
  BY <1>2, SignalsFair DEF Fair
<1>4. top.best \in Types \cup {"unknown"} /\ top.score \in Nat
  BY <1>3, Top2Leads
<1>5. card \in {"single", "multi"}
  BY Zenon DEF Cardinal
<1>6. \A t, s, c, why : LET w == Verdict(t, s, c, why) IN
          w.type = t /\ w.score = s /\ w.card = c /\ w.reason = why
  BY DEF Verdict
<1> HIDE DEF info, counts, all, top, card, v
<1>7. /\ v.type \in Types \cup {"unknown"} /\ v.score \in Nat
      /\ v.card \in {"single", "multi", "mixed"}
      /\ v.reason # NoReason => v.type = "unknown"
  BY <1>1, <1>4, <1>5, <1>6
<1> QED
  BY <1>7 DEF v

LEMMA ConfidenceType == ASSUME NEW n \in Names PROVE Parse(n).conf \in 0 .. 100
<1> DEFINE tv == ParseTV(n.code)
           year == HasYear(tv, n.year)
           title == TitleOf(n, tv)
           more == IF n.imdb THEN 5 ELSE 0
           untitled == title = ""
           base == CASE tv.season >= 0 /\ tv.eps # <<>> -> 95
                     [] tv.season >= 0 /\ tv.eps = <<>> -> 85
                     [] tv.date -> 60
                     [] tv.pack -> 70
                     [] ~tv.isTV -> IF year THEN 90 ELSE 20
<1>1. Parse(n).conf = IF tv.absolute THEN 55 ELSE IF untitled THEN 0 ELSE base + more
  BY Zenon DEF Parse, Confidence
<1>2. tv.season >= 0 \/ tv.absolute \/ tv.date \/ tv.pack \/ ~tv.isTV
  BY NotationIs, NameCode
<1>3. more \in {0, 5}
  OBVIOUS
<1> HIDE DEF tv, year, title, more, untitled
<1>4. ~tv.absolute => base \in {95, 85, 60, 70, 90, 20}
  BY <1>2
<1> HIDE DEF base
<1> QED
  BY <1>1, <1>3, <1>4

LEMMA BuildParts ==
    ASSUME NEW type, NEW p, NEW files, NEW l
    PROVE  LET b == Build(type, p, files, l) IN
           b.skipped = Skipped(files, l) /\ (b.refused => b.placed = <<>>)
BY Zenon DEF Build

\* What is kept and what is skipped is the payload.
LEMMA SplitIs ==
    ASSUME NEW files \in Payloads, NEW l
    PROVE  /\ FilesOf(Payload(files, l)) \cup FilesOf(Skipped(files, l)) = FilesOf(files)
           /\ Len(Skipped(files, l)) = Cardinality(DOMAIN files \ Kept(files, l))
<1> DEFINE kept == Kept(files, l)
           rest == DOMAIN files \ kept
           n == Len(files)
<1>1. /\ n \in Nat /\ kept \in SUBSET (1 .. n)
      /\ rest \in SUBSET (1 .. n) /\ DOMAIN files = kept \cup rest
  BY PositionsAre
<1> HIDE DEF kept, rest, n
<1>2. FilesOf(Payload(files, l)) = {files[i] : i \in kept}
  <2>1. Payload(files, l) = ElementsAt(files, kept)
    BY DEF Payload, kept
  <2> QED
    BY <1>1, <2>1, ElementsAtAre
<1>3. /\ FilesOf(Skipped(files, l)) = {files[i] : i \in rest}
      /\ Cardinality(rest) \in Nat /\ DOMAIN Skipped(files, l) = 1 .. Cardinality(rest)
  <2>1. Skipped(files, l) = ElementsAt(files, rest)
    BY DEF Skipped, rest, kept
  <2>2. /\ FilesOf(ElementsAt(files, rest)) = {files[i] : i \in rest}
        /\ Cardinality(rest) \in Nat /\ DOMAIN ElementsAt(files, rest) = 1 .. Cardinality(rest)
    BY <1>1, ElementsAtAre
  <2> QED
    BY <2>1, <2>2
<1>4. FilesOf(Payload(files, l)) \cup FilesOf(Skipped(files, l)) = FilesOf(files)
  BY <1>1, <1>2, <1>3 DEF FilesOf
<1>5. Len(Skipped(files, l)) = Cardinality(rest)
  <2> DEFINE s == Skipped(files, l)
  <2>1. s = [k \in 1 .. Cardinality(rest) |-> files[NthOf(rest, k)]]
    BY DEF Skipped, ElementsAt, rest, kept
  <2>2. s \in [1 .. Cardinality(rest) -> FilesOf(s)]
    BY <2>1, <1>3 DEF FilesOf
  <2> HIDE DEF s
  <2>3. Len(s) = Cardinality(rest)
    BY <1>3, <2>2, LenIs
  <2> QED
    BY <2>3 DEF s
<1> QED
  BY <1>4, <1>5 DEF rest, kept

\* TypeOK, that nothing is forgotten, and that the item is what it was.
TypeInv ==
    /\ DOMAIN item = {"name", "files"} /\ item.name \in Names /\ item.files \in Payloads
    /\ rules \in Rules /\ lib \in Libraries \cup {NoLib} /\ auto \in BOOLEAN
    /\ pc \in {"classify", "library", "decide", "explain", "save", "done"}
    /\ verdict.type \in Types \cup {"unknown"} /\ verdict.score \in Nat
    /\ verdict.card \in {"single", "multi", "mixed"}
    /\ (verdict.reason # NoReason => verdict.type = "unknown" /\ said = "CLASSIFY_UNKNOWN")
    /\ (pc = "library" => verdict.type \in Types)
    /\ (pc \in {"decide", "explain", "save"} => ~result.refused)
    /\ parsed.conf \in 0 .. 100 /\ needs \in BOOLEAN /\ reason \in Reasons
    /\ FilesOf(result.skipped) \subseteq FilesOf(item.files)
    /\ \A s \in FilesOf(result.placed) : IsPlaced(s)
    /\ said \in Codes /\ (said = NoReason <=> pc # "done")
    /\ changes \in 0 .. MaxChanges
    /\ NoFileForgotten

LEMMA TypeInvIs == TypeInv => TypeOK /\ NoFileForgotten
<1>1. \A s : ToSet(s) = FilesOf(s)
  BY Zenon DEF ToSet, FilesOf
<1> QED
  BY <1>1, Zenon DEF TypeInv, TypeOK, NoReason

LEMMA CodesAre ==
    /\ NoReason \in Codes /\ NoReason \in Reasons
    /\ \A c \in {"error", "CLASSIFY_UNKNOWN", "SKIP_NO_LIBRARY", "LAYOUT_REFUSED", "SKIP_PLAN_LIMIT",
                 "SKIP_PLAN_AWAITING_USER", "PLAN_READY", "PLAN_NEEDS_REVIEW"} :
          c \in Codes /\ c # NoReason
BY DEF Codes, Reasons, NoReason

LEMMA ReasonType ==
    ASSUME NEW on \in BOOLEAN, result.why \in Whys PROVE ReasonFor(on) \in Reasons
BY DEF ReasonFor, Whys, Reasons

\* What a layout accounts for.
LEMMA BuildAccounts ==
    ASSUME NEW type \in Types, NEW p, NEW files \in Payloads, NEW l
    PROVE  LET b == Build(type, p, files, l) IN
           /\ FilesOf(b.skipped) \subseteq FilesOf(files)
           /\ \A s \in FilesOf(b.placed) : s.src \in FilesOf(files) /\ s.dst.ext = s.src.ext
           /\ ~b.refused =>
                 /\ Len(b.placed) + Len(b.skipped) = Len(files)
                 /\ {s.src : s \in FilesOf(b.placed)} \cup FilesOf(b.skipped) = FilesOf(files)
<1> DEFINE b == Build(type, p, files, l)
           payload == Payload(files, l)
<1>1. /\ FilesOf(payload) \cup FilesOf(Skipped(files, l)) = FilesOf(files)
      /\ Len(Skipped(files, l)) = Cardinality(DOMAIN files \ Kept(files, l))
      /\ Cardinality(Kept(files, l)) + Cardinality(DOMAIN files \ Kept(files, l)) = Len(files)
  BY SplitIs, PositionsAre
<1>2. b.skipped = Skipped(files, l) /\ (b.refused => b.placed = <<>>)
  BY BuildParts
<1>3. ~b.refused =>
         /\ DOMAIN b.placed = DOMAIN payload /\ Len(b.placed) = Cardinality(Kept(files, l))
         /\ \A i \in DOMAIN payload :
               b.placed[i].src = payload[i] /\ b.placed[i].dst.ext = payload[i].ext
  BY BuildIs
<1> HIDE DEF b, payload
<1>4. FilesOf(<<>>) = {}
  BY DEF FilesOf
<1>5. CASE b.refused
  BY <1>1, <1>2, <1>4, <1>5 DEF b
<1>6. CASE ~b.refused
  <2>1. {s.src : s \in FilesOf(b.placed)} = FilesOf(payload)
    BY <1>3, <1>6, Zenon DEF FilesOf
  <2>2. \A s \in FilesOf(b.placed) : s.src \in FilesOf(payload) /\ s.dst.ext = s.src.ext
    BY <1>3, <1>6 DEF FilesOf
  <2>3. Len(b.placed) + Len(b.skipped) = Len(files)
    BY <1>1, <1>2, <1>3, <1>6
  <2>4. /\ FilesOf(b.skipped) \subseteq FilesOf(files) /\ FilesOf(payload) \subseteq FilesOf(files)
        /\ FilesOf(payload) \cup FilesOf(b.skipped) = FilesOf(files)
    BY <1>1, <1>2
  <2> QED
    BY <2>1, <2>2, <2>3, <2>4, Zenon DEF b
<1> QED
  BY <1>5, <1>6

LEMMA TypeInit == Init => TypeInv
<1> SUFFICES ASSUME Init PROVE TypeInv
  OBVIOUS
<1>1. DOMAIN item = {"name", "files"} /\ item.name \in Names /\ item.files \in Payloads
  BY DEF Init
<1>2. verdict = Verdict("unknown", 0, "single", NoReason) /\ said = NoReason /\ reason = NoReason
  BY Zenon DEF Init, NoVerdict, NoReason
<1>3. /\ verdict.type = "unknown" /\ verdict.score = 0 /\ verdict.card = "single"
      /\ verdict.reason = NoReason
  BY <1>2 DEF Verdict
<1>4. parsed.conf = 0
  <2>1. parsed = ToParsed([tv |-> NotTV, year |-> FALSE, title |-> NoReason, conf |-> 0])
    BY Zenon DEF Init, NoParse, NoReason
  <2> QED
    BY <2>1 DEF ToParsed
<1>5. FilesOf(result.placed) = {} /\ FilesOf(result.skipped) = {}
  <2>1. result = [refused |-> FALSE, skipped |-> <<>>, placed |-> <<>>, why |-> NoReason]
    BY Zenon DEF Init, NoResult, NoReason
  <2>2. result.placed = <<>> /\ result.skipped = <<>>
    BY <2>1
  <2>3. FilesOf(<<>>) = {}
    BY DEF FilesOf
  <2> QED
    BY <2>2, <2>3
<1>6. pc = "classify" /\ changes = 0 /\ rules \in Rules /\ lib = NoLib /\ auto \in BOOLEAN
      /\ needs = FALSE
  BY DEF Init
<1>7. NoFileForgotten
  BY <1>6 DEF NoFileForgotten
<1>8. reason \in Reasons /\ said \in Codes
  BY <1>2, CodesAre
<1>9. \A s \in FilesOf(result.placed) : IsPlaced(s)
  BY <1>5
<1>10. FilesOf(result.skipped) \subseteq FilesOf(item.files)
  BY <1>5
<1>11. changes \in 0 .. MaxChanges /\ parsed.conf \in 0 .. 100
  BY <1>4, <1>6, BoundsAssumption
<1>12. /\ rules \in Rules /\ lib \in Libraries \cup {NoLib} /\ auto \in BOOLEAN /\ needs \in BOOLEAN
       /\ pc \in {"classify", "library", "decide", "explain", "save", "done"}
  BY <1>6
<1>13. /\ verdict.type \in Types \cup {"unknown"} /\ verdict.score \in Nat
       /\ verdict.card \in {"single", "multi", "mixed"}
       /\ (verdict.reason # NoReason => verdict.type = "unknown" /\ said = "CLASSIFY_UNKNOWN")
  BY <1>3
<1>14. /\ (pc = "library" => verdict.type \in Types)
       /\ (pc \in {"decide", "explain", "save"} => ~result.refused)
       /\ (said = NoReason <=> pc # "done")
  BY <1>2, <1>6
<1> QED
  BY <1>1, <1>7, <1>8, <1>9, <1>10, <1>11, <1>12, <1>13, <1>14, Zenon DEF TypeInv

LEMMA TypeNext == TypeInv /\ ReviewInv /\ [Next]_vars => TypeInv'
<1> SUFFICES ASSUME TypeInv, ReviewInv, [Next]_vars PROVE TypeInv'
  OBVIOUS
<1> USE DEF TypeInv, Goes, Ends, madeVars, NoFileForgotten, IsPlaced
<1>1. CASE ClassifyItem
  <2> DEFINE v == Decide(item.name, item.files, rules)
  <2>1. /\ v.type \in Types \cup {"unknown"} /\ v.score \in Nat
        /\ v.card \in {"single", "multi", "mixed"}
        /\ v.reason # NoReason => v.type = "unknown"
    BY VerdictType
  <2>2. Parse(item.name).conf \in 0 .. 100
    BY ConfidenceType
  <2>3. verdict' = v /\ parsed'.conf = Parse(item.name).conf
    BY <1>1, EnrichKeeps DEF ClassifyItem
  <2> HIDE DEF v
  <2> QED
    BY <1>1, <2>1, <2>2, <2>3, CodesAre DEF ClassifyItem
<1>2. CASE Fails
  BY <1>2, CodesAre DEF Fails
<1>3. CASE NoLibrary
  BY <1>3, CodesAre DEF NoLibrary
<1>4. CASE BuildItem
  <2>1. /\ verdict.type \in Types /\ item.files \in Payloads /\ lib' \in Libraries
        /\ result' = Build(verdict.type, parsed, item.files, lib')
    BY <1>4 DEF BuildItem
  <2> DEFINE b == Build(verdict.type, parsed, item.files, lib')
  <2>2. /\ FilesOf(b.skipped) \subseteq FilesOf(item.files)
        /\ \A s \in FilesOf(b.placed) : s.src \in FilesOf(item.files) /\ s.dst.ext = s.src.ext
        /\ ~b.refused =>
              /\ Len(b.placed) + Len(b.skipped) = Len(item.files)
              /\ {s.src : s \in FilesOf(b.placed)} \cup FilesOf(b.skipped) = FilesOf(item.files)
    BY <2>1, BuildAccounts
  <2>3. result' = b
    BY <2>1
  <2> HIDE DEF b
  <2>4. /\ IF result'.refused THEN pc' = "done" /\ said' = "LAYOUT_REFUSED"
                              ELSE pc' = "decide" /\ said' = said
        /\ UNCHANGED <<item, rules, auto, verdict, parsed, needs, reason, changes>>
    BY <1>4, Zenon DEF BuildItem
  <2>5. said' \in Codes /\ (said' = NoReason <=> pc' # "done")
    BY <1>4, <2>4, CodesAre DEF BuildItem
  <2>6. pc' # "done" => pc' = "decide" /\ ~result'.refused
    BY <2>4
  <2>7. NoFileForgotten'
    BY <2>2, <2>3, <2>4, <2>6
  <2>8. \A s \in FilesOf(result'.placed) : IsPlaced(s)'
    BY <2>2, <2>3, <2>4
  <2>9. verdict'.reason = NoReason
    BY <1>4, <2>4, CodesAre DEF BuildItem
  <2> HIDE DEF NoFileForgotten, IsPlaced
  <2> QED
    BY <2>1, <2>2, <2>3, <2>4, <2>5, <2>6, <2>7, <2>8, <2>9
<1>5. CASE NeedReview
  <2>1. needs' \in BOOLEAN
    BY <1>5 DEF NeedReview, NeedsReview
  <2> QED
    BY <1>5, <2>1 DEF NeedReview
<1>6. CASE Explain
  <2>1. reason' \in Reasons
    BY <1>6, ReasonType DEF Explain, ReviewInv
  <2> QED
    BY <1>6, <2>1 DEF Explain
<1>7. CASE Skips
  BY <1>7, CodesAre DEF Skips
<1>8. CASE SavePlan
  <2>1. said' \in Codes /\ said' # NoReason /\ pc' = "done"
    BY <1>8, CodesAre DEF SavePlan
  <2>2. /\ pc = "save"
        /\ UNCHANGED <<item, rules, lib, auto, verdict, parsed, result, needs, reason, changes>>
    BY <1>8 DEF SavePlan
  <2> QED
    BY <2>1, <2>2, CodesAre
<1>9. CASE SetConfig
  <2>1. auto' \in BOOLEAN
    BY <1>9, Zenon DEF SetConfig
  <2>2. changes' \in 0 .. MaxChanges
    BY <1>9, BoundsAssumption DEF SetConfig
  <2>3. UNCHANGED <<item, rules, lib, pc, verdict, parsed, result, needs, reason, said>>
    BY <1>9 DEF SetConfig
  <2> QED
    BY <2>1, <2>2, <2>3
<1>10. CASE UNCHANGED vars
  <2>1. UNCHANGED <<item, rules, lib, auto, pc, verdict, parsed, result, needs,
                  reason, said, changes>>
    BY <1>10 DEF vars
  <2> QED
    BY <2>1
<1> QED
  BY <1>1, <1>2, <1>3, <1>4, <1>5, <1>6, <1>7, <1>8, <1>9, <1>10 DEF Next

LEMMA TypeInvHolds == Spec => []TypeInv
<1>1. Spec => []ReviewInv
  BY ReviewInit, ReviewNext, PTL DEF Spec
<1> QED
  BY <1>1, TypeInit, TypeNext, PTL DEF Spec

\* What the loop works with has the types that the rest relies on: a verdict
\* without a type says why, only files of the payload are placed, and under
\* their own extensions (decide.go, layout.go).
THEOREM TypeCorrect == Spec => []TypeOK
BY TypeInvHolds, TypeInvIs, PTL

\* For all payloads, libraries and types: each file of the payload is in the plan
\* or left out for a reason, once (layout.go, Build).
THEOREM NoFileForgottenHolds == Spec => []NoFileForgotten
BY TypeInvHolds, TypeInvIs, PTL
-----------------------------------------------------------------------------
(* Names that are kept apart *)

\* What Sanitize makes of a word.
Clean(w, l) == IF l.strict /\ w \in Odd THEN "_" ELSE w

LEMMA FunctionIsSeq ==
    ASSUME NEW n \in Nat, NEW T, NEW s \in [1 .. n -> T] PROVE s \in Seq(T) /\ Len(s) = n
<1>1. s \in UNION {[1 .. m -> T] : m \in Nat}
  OBVIOUS
<1> QED
  BY <1>1, SeqDef, LenIs, Zenon

LEMMA SanitizeIs ==
    ASSUME NEW T, NEW c \in Seq(T), NEW l
    PROVE  /\ Sanitize(c, l) \in Seq(T \cup {"_"}) /\ Len(Sanitize(c, l)) = Len(c)
           /\ DOMAIN Sanitize(c, l) = 1 .. Len(c)
           /\ \A i \in 1 .. Len(c) : Sanitize(c, l)[i] = Clean(c[i], l)
<1> DEFINE U == T \cup {"_"}
           s == [i \in 1 .. Len(c) |-> Clean(c[i], l)]
<1>1. Len(c) \in Nat /\ DOMAIN c = 1 .. Len(c)
  BY LenProperties
<1>2. Sanitize(c, l) = s
  BY <1>1, Zenon DEF Sanitize, Clean
<1>3. \A i \in 1 .. Len(c) : Clean(c[i], l) \in U
  <2>1. \A w : Clean(w, l) \in {w, "_"}
    BY Zenon DEF Clean
  <2>2. \A i \in 1 .. Len(c) : c[i] \in T
    BY ElementOfSeq
  <2> QED
    BY <2>1, <2>2, Zenon
<1> HIDE DEF U
<1>4. s \in [1 .. Len(c) -> U]
  BY <1>3, Zenon
<1>5. DOMAIN s = 1 .. Len(c) /\ \A i \in 1 .. Len(c) : s[i] = Clean(c[i], l)
  BY Zenon
<1> HIDE DEF s
<1>6. s \in Seq(U) /\ Len(s) = Len(c)
  BY <1>1, <1>4, FunctionIsSeq
<1> QED
  BY <1>2, <1>5, <1>6, Zenon DEF U

\* Two names come out alike exactly if their words do.
LEMMA SameClean ==
    ASSUME NEW T, NEW c \in Seq(T), NEW d \in Seq(T), NEW l
    PROVE  Sanitize(c, l) = Sanitize(d, l) <=>
             Len(c) = Len(d) /\ \A i \in 1 .. Len(c) : Clean(c[i], l) = Clean(d[i], l)
<1> DEFINE U == T \cup {"_"}
           cs == Sanitize(c, l)
           ds == Sanitize(d, l)
<1>1. /\ cs \in Seq(U) /\ Len(cs) = Len(c)
      /\ \A i \in 1 .. Len(c) : cs[i] = Clean(c[i], l)
  BY SanitizeIs
<1>2. /\ ds \in Seq(U) /\ Len(ds) = Len(d)
      /\ \A i \in 1 .. Len(d) : ds[i] = Clean(d[i], l)
  BY SanitizeIs
<1> HIDE DEF U, cs, ds
<1>3. ASSUME cs = ds PROVE Len(c) = Len(d) /\ \A i \in 1 .. Len(c) : Clean(c[i], l) = Clean(d[i], l)
  BY <1>1, <1>2, <1>3
<1>4. ASSUME Len(c) = Len(d), \A i \in 1 .. Len(c) : Clean(c[i], l) = Clean(d[i], l) PROVE cs = ds
  <2>1. Len(cs) = Len(ds) /\ \A i \in 1 .. Len(cs) : cs[i] = ds[i]
    BY <1>1, <1>2, <1>4
  <2> QED
    BY <1>1, <1>2, <2>1, SeqEqual, Zenon
<1> QED
  BY <1>3, <1>4 DEF cs, ds

\* Where the words of a name come from.
LEMMA StartAndRest ==
    ASSUME NEW T, NEW x \in Seq(T), NEW a \in Seq(T)
    PROVE  /\ x \o a \in Seq(T) /\ Len(x \o a) = Len(x) + Len(a) /\ Len(x) \in Nat /\ Len(a) \in Nat
           /\ \A i \in 1 .. Len(x) : (x \o a)[i] = x[i]
           /\ \A i \in 1 .. Len(a) : (x \o a)[Len(x) + i] = a[i]
<1> DEFINE s == x \o a
<1>1. /\ s \in Seq(T) /\ Len(s) = Len(x) + Len(a)
      /\ \A i \in 1 .. Len(x) + Len(a) : s[i] = IF i <= Len(x) THEN x[i] ELSE a[i - Len(x)]
  BY ConcatProperties
<1>2. Len(x) \in Nat /\ Len(a) \in Nat
  BY LenProperties
<1> HIDE DEF s
<1> QED
  BY <1>1, <1>2 DEF s

\* What follows a common start tells two names apart.
LEMMA SameTail ==
    ASSUME NEW T, NEW x \in Seq(T), NEW a \in Seq(T), NEW b \in Seq(T), NEW l
    PROVE  Sanitize(x \o a, l) = Sanitize(x \o b, l) <=> Sanitize(a, l) = Sanitize(b, l)
<1> DEFINE xa == x \o a
           xb == x \o b
           n == Len(x)
<1>1. /\ xa \in Seq(T) /\ Len(xa) = n + Len(a) /\ n \in Nat /\ Len(a) \in Nat
      /\ \A i \in 1 .. n : xa[i] = x[i]
      /\ \A i \in 1 .. Len(a) : xa[n + i] = a[i]
  BY StartAndRest
<1>2. /\ xb \in Seq(T) /\ Len(xb) = n + Len(b) /\ Len(b) \in Nat
      /\ \A i \in 1 .. n : xb[i] = x[i]
      /\ \A i \in 1 .. Len(b) : xb[n + i] = b[i]
  BY StartAndRest
<1> HIDE DEF xa, xb, n
<1>3. Sanitize(xa, l) = Sanitize(xb, l) <=>
        Len(xa) = Len(xb) /\ \A i \in 1 .. Len(xa) : Clean(xa[i], l) = Clean(xb[i], l)
  <2>1. xa \in Seq(T) /\ xb \in Seq(T)
    BY <1>1, <1>2
  <2> QED
    BY <2>1, SameClean, SMT
<1>4. Sanitize(a, l) = Sanitize(b, l) <=>
        Len(a) = Len(b) /\ \A i \in 1 .. Len(a) : Clean(a[i], l) = Clean(b[i], l)
  BY SameClean
<1>5. ASSUME Sanitize(xa, l) = Sanitize(xb, l) PROVE Sanitize(a, l) = Sanitize(b, l)
  <2>1. Len(a) = Len(b)
    BY <1>1, <1>2, <1>3, <1>5
  <2>2. \A i \in 1 .. Len(a) : n + i \in 1 .. Len(xa)
    BY <1>1
  <2>3. \A i \in 1 .. Len(a) : Clean(a[i], l) = Clean(b[i], l)
    BY <1>1, <1>2, <1>3, <1>5, <2>1, <2>2
  <2> QED
    BY <1>4, <2>1, <2>3
<1>6. ASSUME Sanitize(a, l) = Sanitize(b, l) PROVE Sanitize(xa, l) = Sanitize(xb, l)
  <2>1. Len(xa) = Len(xb)
    BY <1>1, <1>2, <1>4, <1>6
  <2>2. ASSUME NEW i \in 1 .. Len(xa) PROVE Clean(xa[i], l) = Clean(xb[i], l)
    <3>1. CASE i \in 1 .. n
      BY <1>1, <1>2, <3>1
    <3>2. CASE i \notin 1 .. n
      <4>1. i - n \in 1 .. Len(a) /\ i = n + (i - n)
        BY <1>1, <3>2
      <4>2. xa[i] = a[i - n] /\ xb[i] = b[i - n]
        BY <1>1, <1>2, <1>4, <1>6, <4>1
      <4> QED
        BY <1>4, <1>6, <4>1, <4>2
    <3> QED
      BY <3>1, <3>2
  <2> QED
    BY <1>3, <2>1, <2>2
<1> QED
  BY <1>5, <1>6 DEF xa, xb

\* A name without a word too long is whole.
LEMMA NotCut ==
    ASSUME NEW T, NEW c \in Seq(T), NEW l, \A w \in ToSet(Sanitize(Truncate(c), l)) : w \notin Long
    PROVE  Truncate(c) = c
<1> DEFINE long == {i \in DOMAIN c : c[i] \in Long}
<1> SUFFICES ASSUME long # {} PROVE FALSE
  BY DEF Truncate
<1>1. long \in SUBSET Nat
  OBVIOUS
<1>2. Min(long) \in long
  <2>1. PICK m \in long : \A n \in long : m <= n
    <3> HIDE DEF long
    <3> QED
      BY <1>1, HasLeast
  <2> HIDE DEF long
  <2> QED
    BY <2>1 DEF Min
<1> DEFINE m == Min(long)
           d == SubSeq(c, 1, m)
<1>3. Truncate(c) = d
  BY DEF Truncate
<1> HIDE DEF m
<1>4. m \in Nat /\ m \in 1 .. Len(c) /\ c[m] \in Long
  BY <1>2 DEF m
<1>5. d \in Seq(T) /\ Len(d) = m /\ d[m] = c[m]
  BY <1>4
<1> HIDE DEF d
<1>6. m \in 1 .. Len(d) /\ Clean(d[m], l) = c[m]
  <2>1. c[m] \notin Odd
    BY <1>4 DEF Long, Odd
  <2> QED
    BY <1>4, <1>5, <2>1 DEF Clean
<1>7. c[m] \in ToSet(Sanitize(d, l))
  <2>1. DOMAIN Sanitize(d, l) = 1 .. Len(d) /\ Sanitize(d, l)[m] = Clean(d[m], l)
    BY <1>5, <1>6, SanitizeIs
  <2> QED
    BY <1>6, <2>1 DEF ToSet
<1> QED
  BY <1>3, <1>4, <1>7

\* The whole names of two files at one destination.
LEMMA SameName ==
    ASSUME NEW T, NEW c \in Seq(T), NEW d \in Seq(T), NEW l, NEW f, NEW g, NEW e, NEW h,
           Cut(l, f, c, e).name = Cut(l, g, d, h).name,
           \A w \in ToSet(Cut(l, f, c, e).name) : w \notin Long
    PROVE  Sanitize(c, l) = Sanitize(d, l)
<1>1. /\ Cut(l, f, c, e).name = Sanitize(Truncate(c), l)
      /\ Cut(l, g, d, h).name = Sanitize(Truncate(d), l)
  BY Zenon DEF Cut, Join
<1>2. Truncate(c) = c /\ Truncate(d) = d
  BY <1>1, NotCut
<1> QED
  BY <1>1, <1>2

LEMMA FilledIn ==
    ASSUME NEW T, NEW s \in Seq(T), NEW empty PROVE Filled(s, empty) \in Seq(T)
<1> DEFINE at == {i \in DOMAIN s : s[i] # empty}
           r == ElementsAt(s, at)
<1>1. Len(s) \in Nat /\ at \in SUBSET (1 .. Len(s)) /\ Filled(s, empty) = r
  BY DEF Filled
<1>2. \A i \in at : s[i] \in T
  OBVIOUS
<1> HIDE DEF at
<1>3. /\ Cardinality(at) \in Nat /\ DOMAIN r = 1 .. Cardinality(at)
      /\ FilesOf(r) = {s[i] : i \in at}
  BY <1>1, ElementsAtAre
<1>4. \A k \in DOMAIN r : r[k] \in T
  BY <1>2, <1>3 DEF FilesOf
<1>5. r = [k \in 1 .. Cardinality(at) |-> s[NthOf(at, k)]]
  BY DEF ElementsAt
<1> HIDE DEF r
<1> QED
  BY <1>1, <1>3, <1>4, <1>5

-----------------------------------------------------------------------------
(* Films *)

\* A name that the last words of another are.
LEMMA SuffixWhen ==
    ASSUME NEW T, NEW a \in Seq(T), NEW b \in Seq(T), Len(a) <= Len(b),
           \A i \in 1 .. Len(a) : a[i] = b[Len(b) - Len(a) + i]
    PROVE  IsSuffix(a, b)
<1> DEFINE ra == Reverse(a)
           rb == Reverse(b)
           n == Len(a)
           m == Len(b)
<1>1. n \in Nat /\ m \in Nat
  BY LenProperties
<1>2. ASSUME NEW s \in Seq(T)
      PROVE  /\ Reverse(s) \in Seq(T) /\ Len(Reverse(s)) = Len(s)
             /\ \A i \in 1 .. Len(s) : Reverse(s)[i] = s[Len(s) - i + 1]
  <2> DEFINE r == [i \in 1 .. Len(s) |-> s[(Len(s) - i) + 1]]
  <2>1. Len(s) \in Nat
    BY LenProperties
  <2>2. \A i \in 1 .. Len(s) : s[(Len(s) - i) + 1] \in T
    BY <2>1, ElementOfSeq
  <2>3. r \in [1 .. Len(s) -> T]
    BY <2>2, Zenon
  <2>4. \A i \in 1 .. Len(s) : r[i] = s[(Len(s) - i) + 1]
    BY Zenon
  <2>5. Reverse(s) = r
    BY Zenon DEF Reverse
  <2> HIDE DEF r
  <2> QED
    BY <2>1, <2>3, <2>4, <2>5, FunctionIsSeq
<1>3. ra \in Seq(T) /\ Len(ra) = n /\ \A i \in 1 .. n : ra[i] = a[n - i + 1]
  BY <1>2
<1>4. rb \in Seq(T) /\ Len(rb) = m /\ \A i \in 1 .. m : rb[i] = b[m - i + 1]
  BY <1>2
<1> HIDE DEF ra, rb
<1>5. SubSeq(ra, 1, n) = ra
  BY <1>3, SubSeqFull
<1> DEFINE start == SubSeq(rb, 1, n)
<1>6. start \in Seq(T) /\ Len(start) = n /\ \A i \in 1 .. n : start[i] = rb[i]
  <2>1. \A i \in 1 .. n : rb[i] \in T
    BY <1>1, <1>4, ElementOfSeq
  <2>2. 1 \in Int /\ n \in Int /\ n - 1 + 1 = n /\ (1 > n => n = 0) /\ \A i \in 1 .. n : 1 + i - 1 = i
    BY <1>1
  <2>3. /\ start \in Seq(T) /\ Len(start) = IF 1 <= n THEN n - 1 + 1 ELSE 0
        /\ \A i \in 1 .. n - 1 + 1 : start[i] = rb[1 + i - 1]
    BY <2>1, <2>2, SubSeqProperties
  <2> HIDE DEF start
  <2> QED
    BY <1>1, <2>2, <2>3
<1> HIDE DEF start
<1>7. ASSUME NEW i \in 1 .. n PROVE ra[i] = start[i]
  <2>1. n - i + 1 \in 1 .. n /\ m - n + (n - i + 1) = m - i + 1 /\ i \in 1 .. m
    BY <1>1
  <2>2. a[n - i + 1] = b[m - n + (n - i + 1)]
    BY <2>1
  <2> QED
    BY <1>3, <1>4, <1>6, <2>1, <2>2
<1>8. ra = start
  BY <1>3, <1>6, <1>7, SeqEqual
<1> QED
  BY <1>1, <1>3, <1>4, <1>5, <1>8 DEF IsSuffix, IsPrefix, ra, rb, start

\* The last words of a name are those of what it ends with.
LEMMA EndsWith ==
    ASSUME NEW T, NEW m \in Seq(T), NEW s \in Seq(T), NEW l
    PROVE  IsSuffix(Sanitize(s, l), Sanitize(m \o s, l))
<1> DEFINE U == T \cup {"_"}
           c == m \o s
           a == Sanitize(s, l)
           b == Sanitize(c, l)
<1>1. /\ c \in Seq(T) /\ Len(c) = Len(m) + Len(s) /\ Len(m) \in Nat /\ Len(s) \in Nat
      /\ \A i \in 1 .. Len(s) : c[Len(m) + i] = s[i]
  BY StartAndRest
<1> HIDE DEF c
<1>2. a \in Seq(U) /\ Len(a) = Len(s) /\ \A i \in 1 .. Len(s) : a[i] = Clean(s[i], l)
  BY SanitizeIs
<1>3. b \in Seq(U) /\ Len(b) = Len(c) /\ \A i \in 1 .. Len(c) : b[i] = Clean(c[i], l)
  BY <1>1, SanitizeIs
<1> HIDE DEF a, b, U
<1>4. \A i \in 1 .. Len(a) : a[i] = b[Len(b) - Len(a) + i]
  <2>1. \A i \in 1 .. Len(s) : Len(b) - Len(a) + i = Len(m) + i /\ Len(m) + i \in 1 .. Len(c)
    BY <1>1, <1>2, <1>3
  <2> QED
    BY <1>1, <1>2, <1>3, <2>1
<1>5. IsSuffix(a, b)
  <2>1. Len(a) <= Len(b)
    BY <1>1, <1>2, <1>3
  <2> QED
    BY <1>2, <1>3, <1>4, <2>1, SuffixWhen, Zenon
<1> QED
  BY <1>5 DEF a, b, c

LEMMA EndsWithItself ==
    ASSUME NEW T, NEW s \in Seq(T), NEW l PROVE IsSuffix(Sanitize(s, l), Sanitize(s, l))
<1>1. <<>> \in Seq(T) /\ <<>> \o s = s
  BY EmptySeq, ConcatEmptySeq
<1>2. IsSuffix(Sanitize(s, l), Sanitize(<<>> \o s, l))
  BY <1>1, EndsWith
<1> QED
  BY <1>1, <1>2

\* What a companion's name adds is what it ends with, or all of it.
LEMMA SuffixForIs ==
    ASSUME NEW f, NEW main \in Seq(STRING), f.base \in Seq(STRING)
    PROVE  LET s == SuffixFor(f, main) IN
           s \in Seq(STRING) /\ (f.base = s \/ (f.base = main \o s /\ s # <<>>))
<1> DEFINE c == f.base
           n == Len(main)
           k == Len(c)
           s == SuffixFor(f, main)
           rest == SubSeq(c, n + 1, k)
<1> HIDE DEF c
<1>1. c \in Seq(STRING) /\ n \in Nat /\ k \in Nat
  BY LenProperties DEF c
<1>2. s = IF k > n /\ SubSeq(c, 1, n) = main THEN rest ELSE c
  BY Zenon DEF SuffixFor, c
<1>3. CASE k > n /\ SubSeq(c, 1, n) = main
  <2>1. rest \in Seq(STRING) /\ Len(rest) = k - n
    <3>1. n + 1 \in Int /\ k \in Int /\ n + 1 <= k /\ k - (n + 1) + 1 = k - n
      BY <1>1, <1>3
    <3>2. \A i \in n + 1 .. k : c[i] \in STRING
      BY <1>1, ElementOfSeq
    <3> QED
      BY <3>1, <3>2, SubSeqProperties
  <2>2. SubSeq(c, 1, n) \o rest = SubSeq(c, 1, k)
    <3>1. 1 \in 1 .. k + 1 /\ n \in (1 - 1) .. k /\ k \in n .. k
      BY <1>1, <1>3
    <3> QED
      BY <1>1, <3>1, ConcatAdjacentSubSeq
  <2>3. SubSeq(c, 1, k) = c
    BY <1>1, SubSeqFull
  <2>4. rest # <<>>
    <3>1. k - n # 0 /\ Len(<<>>) = 0
      BY <1>1, <1>3
    <3> QED
      BY <2>1, <3>1
  <2> HIDE DEF rest, s
  <2>5. s = rest /\ c = main \o s
    BY <1>2, <1>3, <2>2, <2>3
  <2> QED
    BY <2>1, <2>4, <2>5 DEF s, c
<1>4. CASE ~(k > n /\ SubSeq(c, 1, n) = main)
  BY <1>1, <1>2, <1>4 DEF c
<1> QED
  BY <1>3, <1>4

\* Two companions of a film whose names add the same.
LEMMA SuffixesApart ==
    ASSUME NEW f, NEW g, NEW main \in Seq(STRING), f.base \in Seq(STRING), g.base \in Seq(STRING),
           NEW l, Sanitize(SuffixFor(f, main), l) = Sanitize(SuffixFor(g, main), l)
    PROVE  LET a == Sanitize(f.base, l)
               b == Sanitize(g.base, l)
           IN  IsSuffix(a, b) \/ IsSuffix(b, a)
<1> DEFINE s == SuffixFor(f, main)
           t == SuffixFor(g, main)
           c == f.base
           d == g.base
<1>1. s \in Seq(STRING) /\ (c = s \/ c = main \o s)
  BY SuffixForIs
<1>2. t \in Seq(STRING) /\ (d = t \/ d = main \o t)
  BY SuffixForIs
<1>3. Sanitize(s, l) = Sanitize(t, l) /\ c \in Seq(STRING) /\ d \in Seq(STRING)
  OBVIOUS
<1> HIDE DEF s, t, c, d
<1>4. CASE d = t
  <2>1. CASE c = s
    BY <1>3, <1>4, <2>1, EndsWithItself DEF c, d
  <2>2. CASE c = main \o s
    <3>1. IsSuffix(Sanitize(s, l), Sanitize(c, l))
      BY <1>1, <2>2, EndsWith
    <3> QED
      BY <1>3, <1>4, <3>1 DEF c, d
  <2> QED
    BY <1>1, <2>1, <2>2
<1>5. CASE d = main \o t
  <2>1. CASE c = s
    <3>1. IsSuffix(Sanitize(t, l), Sanitize(d, l))
      BY <1>2, <1>5, EndsWith
    <3> QED
      BY <1>3, <2>1, <3>1 DEF c, d
  <2>2. CASE c = main \o s
    <3>1. Sanitize(c, l) = Sanitize(d, l)
      BY <1>1, <1>2, <1>3, <1>5, <2>2, SameTail
    <3> QED
      BY <1>3, <3>1, EndsWithItself DEF c, d
  <2> QED
    BY <1>1, <2>1, <2>2
<1> QED
  BY <1>2, <1>4, <1>5

\* The files of a payload as the builders need them.
Held(files) ==
    /\ DOMAIN files \subseteq Nat \ {0}
    /\ \A i \in DOMAIN files : /\ files[i].dir \in Seq(STRING) /\ files[i].base \in Seq(STRING)
                               /\ files[i].size \in Nat /\ WellFormed(files[i].code)

LEMMA OneLargest ==
    ASSUME NEW files, Held(files), NEW i \in Largest(files), NEW j \in Largest(files) PROVE i = j
<1>1. /\ i \in Nat \ {0} /\ j \in Nat \ {0} /\ files[i].size \in Nat /\ files[j].size \in Nat
      /\ i \in DOMAIN files /\ j \in DOMAIN files
  BY DEF Held, Largest
<1>2. files[j].size <= files[i].size /\ files[i].size <= files[j].size
  BY <1>1 DEF Largest
<1>3. (j \in 1 .. i - 1 => files[j].size < files[i].size)
      /\ (i \in 1 .. j - 1 => files[i].size < files[j].size)
  BY DEF Largest
<1>4. ASSUME i < j PROVE FALSE
  BY <1>1, <1>2, <1>3, <1>4
<1>5. ASSUME j < i PROVE FALSE
  BY <1>1, <1>2, <1>3, <1>5
<1> QED
  BY <1>1, <1>4, <1>5


\* A companion whose name adds nothing has none.
LEMMA AddsNothing ==
    ASSUME NEW f, NEW g, NEW main \in Seq(STRING), f.base \in Seq(STRING), g.base \in Seq(STRING),
           NEW l, Sanitize(SuffixFor(g, main), l) = Sanitize(<<>>, l)
    PROVE  IsSuffix(Sanitize(g.base, l), Sanitize(f.base, l))
<1> DEFINE s == SuffixFor(g, main)
           c == f.base
           d == g.base
<1>1. s \in Seq(STRING) /\ (d = s \/ s # <<>>)
  BY SuffixForIs
<1>2. Sanitize(s, l) = Sanitize(<<>>, l) /\ c \in Seq(STRING)
  OBVIOUS
<1> HIDE DEF s, c, d
<1>3. <<>> \in Seq(STRING) /\ Len(<<>>) = 0 /\ (s # <<>> => Len(s) # 0) /\ c \o <<>> = c
  BY <1>1, <1>2, EmptySeq, ConcatEmptySeq
<1>4. Len(s) = Len(<<>>)
  BY <1>1, <1>2, <1>3, SameClean
<1>5. d = <<>>
  BY <1>1, <1>3, <1>4
<1>6. IsSuffix(Sanitize(<<>>, l), Sanitize(c \o <<>>, l))
  BY <1>2, <1>3, EndsWith
<1> QED
  BY <1>3, <1>5, <1>6 DEF c, d

\* The files of a film at one destination, of which the layout keeps only what
\* their names end with.
LEMMA MovieApart ==
    ASSUME NEW p, NEW files, Held(files), NEW l, NEW i \in DOMAIN files, NEW j \in DOMAIN files,
           BuildMovie(p, files, l)[i].name = BuildMovie(p, files, l)[j].name,
           \A w \in ToSet(BuildMovie(p, files, l)[i].name) : w \notin Long
    PROVE  LET a == Sanitize(files[i].base, l)
               b == Sanitize(files[j].base, l)
           IN  IsSuffix(a, b) \/ IsSuffix(b, a)
<1> DEFINE dsts == BuildMovie(p, files, l)
           main == Largest(files)
           base == IF main = {} THEN <<>> ELSE files[CHOOSE k \in main : TRUE].base
           suffix(k) == IF k \in main THEN <<>> ELSE SuffixFor(files[k], base)
           name(k) == TitleYear(p) \o suffix(k)
           folders == <<TitleYear(p)>>
           words == {p.title, Year(p)}
           T == STRING \cup words
           c == files[i].base
           d == files[j].base
<1>1. dsts = [k \in DOMAIN files |-> Cut(l, folders, name(k), files[k].ext)]
  BY Zenon DEF BuildMovie
<1>2. c \in Seq(STRING) /\ d \in Seq(STRING)
  BY DEF Held
<1>3. base \in Seq(STRING)
  <2>1. CASE main = {}
    BY <2>1, EmptySeq
  <2>2. CASE main # {}
    <3>1. (CHOOSE k \in main : TRUE) \in main
      BY <2>2
    <3>2. main \subseteq DOMAIN files
      BY DEF Largest
    <3> QED
      BY <2>2, <3>1, <3>2 DEF Held
  <2> QED
    BY <2>1, <2>2
<1> HIDE DEF base
<1>4. ASSUME NEW k \in DOMAIN files PROVE suffix(k) \in Seq(STRING) /\ suffix(k) \in Seq(T)
  <2>1. files[k].base \in Seq(STRING)
    BY DEF Held
  <2>2. SuffixFor(files[k], base) \in Seq(STRING)
    BY <1>3, <2>1, SuffixForIs
  <2>3. suffix(k) \in Seq(STRING)
    BY <2>2, EmptySeq
  <2> HIDE DEF suffix
  <2> QED
    BY <2>3, SeqMonotonic
<1>5. TitleYear(p) \in Seq(T)
  <2> DEFINE s == <<p.title, Year(p)>>
  <2>1. s \in Seq(words)
    OBVIOUS
  <2> HIDE DEF s, words
  <2>2. Filled(s, "") \in Seq(words)
    BY <2>1, FilledIn
  <2>3. TitleYear(p) = Filled(s, "")
    BY Zenon DEF TitleYear, Component, s
  <2> QED
    BY <2>2, <2>3, SeqMonotonic
<1> HIDE DEF suffix, T, folders
<1>6. name(i) \in Seq(T) /\ name(j) \in Seq(T)
  BY <1>4, <1>5, ConcatProperties
<1>7. Sanitize(name(i), l) = Sanitize(name(j), l)
  <2> HIDE DEF name, dsts
  <2>1. /\ dsts[i] = Cut(l, folders, name(i), files[i].ext)
        /\ dsts[j] = Cut(l, folders, name(j), files[j].ext)
    BY <1>1
  <2>2. dsts[i].name = dsts[j].name /\ \A w \in ToSet(dsts[i].name) : w \notin Long
    BY DEF dsts
  <2> QED
    BY <1>6, <2>1, <2>2, SameName
<1>8. Sanitize(suffix(i), l) = Sanitize(suffix(j), l)
  BY <1>4, <1>5, <1>7, SameTail
<1>9. CASE i \in main /\ j \in main
  <2>1. i = j
    BY <1>9, OneLargest
  <2> QED
    BY <1>2, <2>1, EndsWithItself
<1>10. CASE i \in main /\ j \notin main
  <2>1. suffix(i) = <<>> /\ suffix(j) = SuffixFor(files[j], base)
    BY <1>10 DEF suffix
  <2> QED
    BY <1>2, <1>3, <1>8, <2>1, AddsNothing
<1>11. CASE i \notin main /\ j \in main
  <2>1. suffix(j) = <<>> /\ suffix(i) = SuffixFor(files[i], base)
    BY <1>11 DEF suffix
  <2> QED
    BY <1>2, <1>3, <1>8, <2>1, AddsNothing
<1>12. CASE i \notin main /\ j \notin main
  <2>1. suffix(i) = SuffixFor(files[i], base) /\ suffix(j) = SuffixFor(files[j], base)
    BY <1>12 DEF suffix
  <2> QED
    BY <1>2, <1>3, <1>8, <2>1, SuffixesApart
<1> QED
  BY <1>9, <1>10, <1>11, <1>12

-----------------------------------------------------------------------------
(* Episodes *)

Numbers == DOMAIN Numeral
Positions == Numbers \X Numbers \X Numbers

LEMMA NumbersAre == Numbers \subseteq Nat /\ 0 \in Numbers /\ 1 \in Numbers
BY NumeralAssumption DEF Numbers

\* The numbers a code holds, first and last.
LEMMA EpisodesAre ==
    ASSUME NEW c, WellFormed(c)
    PROVE  LET tv == ParseTV(c) IN
           tv.eps # <<>> => /\ tv.season \in Numbers
                            /\ Episode(tv.eps) \in Numbers /\ EpisodeEnd(tv.eps) \in Numbers
<1> DEFINE by == CHOOSE n \in c.notation : \A m \in c.notation : Rank[n] <= Rank[m]
           In(season, eps) == [SomeTV EXCEPT !.season = season, !.eps = eps]
           tv == ParseTV(c)
           Good(e) == e # <<>> => Episode(e) \in Numbers /\ EpisodeEnd(e) \in Numbers
<1>1. CASE c.notation = {}
  BY <1>1 DEF ParseTV, NotTV
<1>2. CASE c.notation # {}
  <2>1. tv = CASE by = "anime" -> [SomeTV EXCEPT !.absolute = TRUE]
               [] by = "list" -> In(c.season, c.eps)
               [] by = "span" -> In(c.season, SpanOf(c.eps))
               [] by \in {"word", "alt"} -> In(c.season, <<c.eps[1]>>)
               [] by = "std" -> In(IF c.eps[1] = 0 THEN 0 ELSE c.season, <<c.eps[1]>>)
               [] by = "date" -> [SomeTV EXCEPT !.date = TRUE]
               [] by = "series" -> [SomeTV EXCEPT !.pack = TRUE]
               [] by \in {"seasonword", "season"} -> In(c.season, <<>>)
    BY <1>2, Zenon DEF ParseTV
  <2>2. by \in c.notation /\ by \in DOMAIN Rank
    BY <1>2, LeastNotation DEF WellFormed
  <2>3. /\ c.season \in Numbers /\ c.eps \in Seq(Numbers)
        /\ by \in {"list", "word", "std", "alt"} => Len(c.eps) >= 1
        /\ by = "span" => Len(c.eps) >= 2
    BY <2>2 DEF WellFormed, Numbers
  <2>4. \A s, e : In(s, e).season = s /\ In(s, e).eps = e
    BY DEF SomeTV, NotTV
  <2>5. /\ [SomeTV EXCEPT !.absolute = TRUE].eps = <<>> /\ [SomeTV EXCEPT !.date = TRUE].eps = <<>>
        /\ [SomeTV EXCEPT !.pack = TRUE].eps = <<>>
    BY DEF SomeTV, NotTV
  <2>6. by \in {"anime", "list", "span", "word", "std", "alt", "date", "series", "seasonword",
                "season"}
    BY <2>2 DEF Rank
  <2>7. Len(c.eps) >= 1 => /\ c.eps[1] \in Numbers /\ c.eps[Len(c.eps)] \in Numbers
                           /\ c.eps # <<>>
    <3>1. Len(c.eps) \in Nat /\ Len(<<>>) = 0
      BY <2>3, LenProperties
    <3> QED
      BY <2>3, <3>1, ElementOfSeq
  <2>8. Len(c.eps) >= 2 => c.eps[2] \in Numbers /\ c.eps[1] \in Numbers
    <3>1. Len(c.eps) \in Nat
      BY <2>3, LenProperties
    <3> QED
      BY <2>3, <3>1, ElementOfSeq
  <2>9. by = "list" => Good(c.eps)
    BY <2>3, <2>7 DEF Episode, EpisodeEnd
  <2>10. ASSUME NEW e \in Numbers PROVE Good(<<e>>)
    BY DEF Episode, EpisodeEnd
  <2>11. by = "span" => Good(SpanOf(c.eps))
    <3> SUFFICES ASSUME by = "span" PROVE Good(SpanOf(c.eps))
      OBVIOUS
    <3> DEFINE a == c.eps[1]
               b == c.eps[2]
               s == [k \in 1 .. b - a + 1 |-> a + k - 1]
    <3>1. a \in Numbers /\ b \in Numbers /\ a \in Nat /\ b \in Nat
      BY <2>3, <2>8, NumbersAre
    <3>2. SpanOf(c.eps) = IF b >= a THEN s ELSE <<a>>
      BY Zenon DEF SpanOf
    <3> HIDE DEF a, b
    <3>3. CASE b >= a
      <4>1. b - a + 1 \in Nat /\ s \in [1 .. b - a + 1 -> Int]
        BY <3>1, <3>3
      <4>2. s[1] = a /\ s[b - a + 1] = b
        BY <3>1, <3>3
      <4> HIDE DEF s
      <4>3. Len(s) = b - a + 1
        BY <4>1, FunctionIsSeq
      <4> QED
        BY <3>1, <3>2, <3>3, <4>2, <4>3 DEF Episode, EpisodeEnd
    <3>4. CASE ~(b >= a)
      BY <3>1, <3>2, <3>4, <2>10
    <3> QED
      BY <3>3, <3>4
  <2>12. by = "std" => (IF c.eps[1] = 0 THEN 0 ELSE c.season) \in Numbers
    BY <2>3, NumbersAre
  <2> HIDE DEF by, In, tv, Good
  <2>13. tv.eps # <<>> => tv.season \in Numbers /\ Good(tv.eps)
    BY <2>1, <2>3, <2>4, <2>5, <2>6, <2>7, <2>9, <2>10, <2>11, <2>12
  <2> QED
    BY <2>13 DEF tv, Good
<1> QED
  BY <1>1, <1>2


LEMMA OwnIs ==
    ASSUME NEW f, WellFormed(f.code) PROVE OwnPosition(f) \in Positions \cup {<<>>}
<1> DEFINE own == ParseTV(f.code)
<1>1. own.eps # <<>> => /\ own.season \in Numbers
                        /\ Episode(own.eps) \in Numbers /\ EpisodeEnd(own.eps) \in Numbers
  BY EpisodesAre
<1>2. OwnPosition(f) = IF own.season >= 0 /\ own.eps # <<>>
                       THEN <<own.season, Episode(own.eps), EpisodeEnd(own.eps)>> ELSE <<>>
  BY Zenon DEF OwnPosition
<1> HIDE DEF own
<1> QED
  BY <1>1, <1>2 DEF Positions

LEMMA TorrentIs ==
    ASSUME NEW p, NEW c, WellFormed(c), p.tv = ParseTV(c)
    PROVE  TorrentPosition(p) \in Positions \cup {<<>>}
<1> DEFINE first == Episode(p.tv.eps)
           last == EpisodeEnd(p.tv.eps)
<1>1. p.tv.eps # <<>> => p.tv.season \in Numbers /\ first \in Numbers /\ last \in Numbers
  BY EpisodesAre
<1>2. p.tv.eps = <<>> => first = 0 /\ last = 0
  BY DEF Episode, EpisodeEnd
<1>3. TorrentPosition(p) = IF first > 0 \/ (p.tv.season > 0 /\ last > 0)
                           THEN <<p.tv.season, first, IF last > first THEN last ELSE first>>
                           ELSE <<>>
  BY Zenon DEF TorrentPosition
<1> HIDE DEF first, last
<1>4. CASE p.tv.eps = <<>>
  BY <1>2, <1>3, <1>4
<1>5. CASE p.tv.eps # <<>>
  BY <1>1, <1>3, <1>5 DEF Positions
<1> QED
  BY <1>4, <1>5

\* The words of a marker, none of which is replaced.
Marks == {"S", "E", "-E", "date"} \cup {Numeral[n] : n \in Numbers}

LEMMA MarkKept == ASSUME NEW w \in Marks, NEW l PROVE Clean(w, l) = w
<1>1. w \notin Odd
  BY NumeralAssumption DEF Marks, Odd, Numbers
<1> QED
  BY <1>1, Zenon DEF Clean

LEMMA MarkerIs ==
    ASSUME NEW at \in Positions
    PROVE  /\ Marker(at) \in Seq(Marks) /\ Len(Marker(at)) = IF at[3] # at[2] THEN 6 ELSE 4
           /\ Marker(at)[2] = Numeral[at[1]] /\ Marker(at)[4] = Numeral[at[2]]
           /\ at[3] # at[2] => Marker(at)[6] = Numeral[at[3]]
<1>1. at[1] \in Numbers /\ at[2] \in Numbers /\ at[3] \in Numbers
  BY DEF Positions
<1> DEFINE x == <<"S", Numeral[at[1]], "E", Numeral[at[2]]>>
           y == <<"-E", Numeral[at[3]]>>
<1>2. /\ "S" \in Marks /\ "E" \in Marks /\ "-E" \in Marks
      /\ Numeral[at[1]] \in Marks /\ Numeral[at[2]] \in Marks /\ Numeral[at[3]] \in Marks
  BY <1>1 DEF Marks
<1>3. /\ x \in Seq(Marks) /\ Len(x) = 4 /\ x[2] = Numeral[at[1]] /\ x[4] = Numeral[at[2]]
      /\ y \in Seq(Marks) /\ Len(y) = 2 /\ y[2] = Numeral[at[3]]
  <2> HIDE DEF Marks
  <2> QED
    BY <1>2
<1>4. Marker(at) = x \o (IF at[3] # at[2] THEN y ELSE <<>>)
  BY Zenon DEF Marker
<1> HIDE DEF x, y
<1>5. CASE at[3] # at[2]
  <2>1. /\ x \o y \in Seq(Marks) /\ Len(x \o y) = Len(x) + Len(y)
        /\ \A i \in 1 .. Len(x) : (x \o y)[i] = x[i]
        /\ \A i \in 1 .. Len(y) : (x \o y)[Len(x) + i] = y[i]
    <3>1. x \in Seq(Marks) /\ y \in Seq(Marks)
      BY <1>3
    <3> QED
      BY <3>1, StartAndRest
  <2>2. Marker(at) = x \o y
    BY <1>4, <1>5
  <2> DEFINE z == x \o y
  <2> HIDE DEF z
  <2>3. z \in Seq(Marks) /\ Len(z) = 6 /\ z[2] = x[2] /\ z[4] = x[4] /\ z[6] = y[2]
    BY <1>3, <2>1 DEF z
  <2> QED
    BY <1>3, <1>5, <2>2, <2>3 DEF z
<1>6. CASE at[3] = at[2]
  <2>1. Marker(at) = x
    BY <1>3, <1>4, <1>6, ConcatEmptySeq
  <2> QED
    BY <1>3, <1>6, <2>1
<1> QED
  BY <1>5, <1>6

\* No two positions have one marker.
LEMMA MarkersApart ==
    ASSUME NEW at \in Positions, NEW as \in Positions, Marker(at) = Marker(as) PROVE at = as
<1>1. /\ Len(Marker(at)) = IF at[3] # at[2] THEN 6 ELSE 4
      /\ Marker(at)[2] = Numeral[at[1]] /\ Marker(at)[4] = Numeral[at[2]]
      /\ at[3] # at[2] => Marker(at)[6] = Numeral[at[3]]
  BY MarkerIs
<1>2. /\ Len(Marker(as)) = IF as[3] # as[2] THEN 6 ELSE 4
      /\ Marker(as)[2] = Numeral[as[1]] /\ Marker(as)[4] = Numeral[as[2]]
      /\ as[3] # as[2] => Marker(as)[6] = Numeral[as[3]]
  BY MarkerIs
<1>3. \A m, n \in Numbers : Numeral[m] = Numeral[n] => m = n
  BY NumeralAssumption DEF Numbers
<1>4. /\ at[1] \in Numbers /\ at[2] \in Numbers /\ at[3] \in Numbers
      /\ as[1] \in Numbers /\ as[2] \in Numbers /\ as[3] \in Numbers
  BY DEF Positions
<1>5. at[1] = as[1] /\ at[2] = as[2]
  <2>1. Numeral[at[1]] = Numeral[as[1]] /\ Numeral[at[2]] = Numeral[as[2]]
    BY <1>1, <1>2
  <2> QED
    BY <1>3, <1>4, <2>1, Zenon
<1>6. at[3] = as[3]
  <2>1. CASE at[3] # at[2] /\ as[3] # as[2]
    <3>1. Numeral[at[3]] = Numeral[as[3]]
      BY <1>1, <1>2, <2>1
    <3> QED
      BY <1>3, <1>4, <3>1, Zenon
  <2>2. CASE at[3] = at[2] /\ as[3] = as[2]
    BY <1>5, <2>2
  <2>3. Len(Marker(at)) = Len(Marker(as))
    OBVIOUS
  <2>4. CASE at[3] # at[2] /\ as[3] = as[2]
    BY <1>1, <1>2, <2>3, <2>4
  <2>5. CASE at[3] = at[2] /\ as[3] # as[2]
    BY <1>1, <1>2, <2>3, <2>5
  <2> QED
    BY <2>1, <2>2, <2>4, <2>5
<1>7. at = <<at[1], at[2], at[3]>> /\ as = <<as[1], as[2], as[3]>>
  <2>1. \A t \in Numbers \X Numbers \X Numbers : t = <<t[1], t[2], t[3]>>
    OBVIOUS
  <2> QED
    BY <2>1, Zenon DEF Positions
<1> QED
  BY <1>5, <1>6, <1>7, Zenon

\* Words that are never replaced come out as they are.
LEMMA MarksKept ==
    ASSUME NEW a \in Seq(Marks), NEW b \in Seq(Marks), NEW l, Sanitize(a, l) = Sanitize(b, l)
    PROVE  a = b
<1>1. Len(a) = Len(b) /\ \A i \in 1 .. Len(a) : Clean(a[i], l) = Clean(b[i], l)
  BY SameClean
<1>2. \A i \in 1 .. Len(a) : a[i] \in Marks /\ b[i] \in Marks
  BY <1>1, ElementOfSeq
<1>3. \A i \in 1 .. Len(a) : a[i] = b[i]
  BY <1>1, <1>2, MarkKept
<1> QED
  BY <1>1, <1>3, SeqEqual

\* The files of a series at one destination are of one episode, of their own or
\* the torrent's.
LEMMA TVApart ==
    ASSUME NEW p, NEW t, WellFormed(t), p.tv = ParseTV(t),
           NEW files, Held(files), NEW l, NEW i \in DOMAIN files, NEW j \in DOMAIN files,
           BuildTV(p, files, l)[i].name = BuildTV(p, files, l)[j].name,
           \A w \in ToSet(BuildTV(p, files, l)[i].name) : w \notin Long
    PROVE  EpisodeFor(p, files[i]) = EpisodeFor(p, files[j])
<1> DEFINE dsts == BuildTV(p, files, l)
           at(k) == EpisodeFor(p, files[k])
           season(k) == IF at(k) = <<>> THEN 0 ELSE at(k)[1]
           marker(k) == IF at(k) = <<>> THEN <<"date">> ELSE Marker(at(k))
           folders(k) == <<TitleYear(p), <<"Season", Numeral[season(k)]>>>>
           title == Component(<<p.title, "-">>)
           name(k) == title \o marker(k)
           words == {p.title, "-"}
           T == Marks \cup words
<1>1. dsts = [k \in DOMAIN files |-> Cut(l, folders(k), name(k), files[k].ext)]
  BY Zenon DEF BuildTV
<1>2. ASSUME NEW k \in DOMAIN files PROVE at(k) \in Positions \cup {<<>>}
  <2>1. OwnPosition(files[k]) \in Positions \cup {<<>>}
    BY OwnIs DEF Held
  <2>2. TorrentPosition(p) \in Positions \cup {<<>>}
    BY TorrentIs
  <2> QED
    BY <2>1, <2>2 DEF EpisodeFor
<1> HIDE DEF at, season, T
<1>3. ASSUME NEW k \in DOMAIN files PROVE marker(k) \in Seq(Marks) /\ marker(k) \in Seq(T)
  <2>1. <<"date">> \in Seq(Marks)
    <3>1. "date" \in Marks
      BY DEF Marks
    <3> HIDE DEF Marks
    <3> QED
      BY <3>1
  <2>2. marker(k) \in Seq(Marks)
    BY <1>2, <2>1, MarkerIs
  <2> HIDE DEF marker
  <2> QED
    BY <2>2, SeqMonotonic DEF T
<1>4. title \in Seq(T)
  <2> DEFINE s == <<p.title, "-">>
  <2>1. s \in Seq(words)
    OBVIOUS
  <2> HIDE DEF s, words
  <2>2. Filled(s, "") \in Seq(words)
    BY <2>1, FilledIn
  <2>3. title = Filled(s, "")
    BY Zenon DEF Component, s
  <2> QED
    BY <2>2, <2>3, SeqMonotonic DEF T
<1> HIDE DEF title, marker, folders
<1>5. name(i) \in Seq(T) /\ name(j) \in Seq(T)
  BY <1>3, <1>4, ConcatProperties
<1>6. Sanitize(name(i), l) = Sanitize(name(j), l)
  <2> HIDE DEF name, dsts
  <2>1. /\ dsts[i] = Cut(l, folders(i), name(i), files[i].ext)
        /\ dsts[j] = Cut(l, folders(j), name(j), files[j].ext)
    BY <1>1
  <2>2. dsts[i].name = dsts[j].name /\ \A w \in ToSet(dsts[i].name) : w \notin Long
    BY DEF dsts
  <2> QED
    BY <1>5, <2>1, <2>2, SameName
<1>7. marker(i) = marker(j)
  <2>1. Sanitize(marker(i), l) = Sanitize(marker(j), l)
    BY <1>3, <1>4, <1>6, SameTail
  <2> QED
    BY <1>3, <2>1, MarksKept
<1>8. ASSUME NEW k \in DOMAIN files
      PROVE  IF at(k) = <<>> THEN Len(marker(k)) = 1 ELSE Len(marker(k)) \in {4, 6}
  <2>1. CASE at(k) = <<>>
    BY <2>1 DEF marker
  <2>2. CASE at(k) # <<>>
    <3>1. at(k) \in Positions /\ marker(k) = Marker(at(k))
      BY <1>2, <2>2 DEF marker
    <3> QED
      BY <2>2, <3>1, MarkerIs
  <2> QED
    BY <2>1, <2>2
<1>9. Len(marker(i)) = Len(marker(j))
  BY <1>7
<1>10. (at(i) = <<>>) <=> (at(j) = <<>>)
  <2>1. /\ at(i) = <<>> => Len(marker(i)) = 1
        /\ at(i) # <<>> => Len(marker(i)) \in {4, 6}
    BY <1>8, Zenon
  <2>2. /\ at(j) = <<>> => Len(marker(j)) = 1
        /\ at(j) # <<>> => Len(marker(j)) \in {4, 6}
    BY <1>8, Zenon
  <2>3. 1 \notin {4, 6}
    OBVIOUS
  <2> QED
    BY <1>9, <2>1, <2>2, <2>3, Zenon
<1>11. CASE at(i) = <<>>
  BY <1>10, <1>11 DEF at
<1>12. CASE at(i) # <<>>
  BY <1>2, <1>7, <1>10, <1>12, MarkersApart DEF marker, at
<1> QED
  BY <1>11, <1>12

-----------------------------------------------------------------------------
(* Discs *)

\* The directories of discs above a file are those of its tail.
LEMMA TailIs ==
    ASSUME NEW f, f.dir \in Seq(STRING)
    PROVE  /\ PayloadTail(f) \in Seq(Discs)
           /\ DiscsAbove(f) = {<<Len(PayloadTail(f)) - k, PayloadTail(f)[k]>>
                                   : k \in 1 .. Len(PayloadTail(f))}
<1> DEFINE d == f.dir
           n == Len(d)
           discs == {i \in DOMAIN d : \A j \in i .. n : d[j] \in Discs}
           t == PayloadTail(f)
<1>1. /\ t = IF discs = {} THEN <<>> ELSE SubSeq(d, Min(discs), n)
      /\ DiscsAbove(f) = {<<n - i, d[i]>> : i \in discs}
  BY Zenon DEF PayloadTail, DiscsAbove
<1>2. d \in Seq(STRING) /\ n \in Nat /\ DOMAIN d = 1 .. n
  BY LenProperties
<1>3. CASE discs = {}
  <2>1. t = <<>> /\ DiscsAbove(f) = {}
    BY <1>1, <1>3
  <2>2. t \in Seq(Discs) /\ Len(t) = 0
    BY <2>1, EmptySeq
  <2> HIDE DEF t
  <2>3. {<<Len(t) - k, t[k]>> : k \in 1 .. Len(t)} = {}
    <3>1. 1 .. Len(t) = {}
      BY <2>2
    <3> QED
      BY <3>1, Zenon
  <2> QED
    BY <2>1, <2>2, <2>3 DEF t
<1>4. CASE discs # {}
  <2>1. discs \in SUBSET Nat
    BY <1>2
  <2>2. PICK m \in discs : \A x \in discs : m <= x
    <3> HIDE DEF discs
    <3> QED
      BY <1>4, <2>1, HasLeast
  <2>3. Min(discs) = m
    <3>1. \A x \in discs : x \in Nat
      BY <2>1
    <3> HIDE DEF discs
    <3>2. \A x \in discs : (\A y \in discs : x <= y) => x = m
      BY <2>2, <3>1
    <3> QED
      BY <2>2, <3>2, Zenon DEF Min
  <2>4. m \in Nat /\ m \in 1 .. n /\ \A j \in m .. n : d[j] \in Discs
    BY <1>2, <2>2
  <2>5. discs = m .. n
    <3>1. ASSUME NEW i \in discs PROVE i \in m .. n
      BY <1>2, <2>2, <2>4
    <3>2. ASSUME NEW i \in m .. n PROVE i \in discs
      BY <1>2, <2>4
    <3> HIDE DEF discs
    <3> QED
      BY <3>1, <3>2
  <2> HIDE DEF discs, d, n
  <2>6. t = SubSeq(d, m, n)
    BY <1>1, <1>4, <2>3
  <2>7. t \in Seq(Discs) /\ Len(t) = n - m + 1 /\ \A k \in 1 .. n - m + 1 : t[k] = d[m + k - 1]
    <3>1. m \in Int /\ n \in Int /\ m <= n
      BY <1>2, <2>4
    <3> HIDE DEF t
    <3> QED
      BY <2>4, <2>6, <3>1, SubSeqProperties
  <2> HIDE DEF t
  <2>8. ASSUME NEW i \in m .. n
        PROVE  \E k \in 1 .. Len(t) : n - i = Len(t) - k /\ d[i] = t[k]
    <3>1. i - m + 1 \in 1 .. Len(t) /\ n - i = Len(t) - (i - m + 1) /\ m + (i - m + 1) - 1 = i
      BY <1>2, <2>4, <2>7
    <3> QED
      BY <2>7, <3>1
  <2>9. ASSUME NEW k \in 1 .. Len(t)
        PROVE  \E i \in m .. n : n - i = Len(t) - k /\ d[i] = t[k]
    <3>1. m + k - 1 \in m .. n /\ n - (m + k - 1) = Len(t) - k
      BY <1>2, <2>4, <2>7
    <3> QED
      BY <2>7, <3>1
  <2>10. {<<n - i, d[i]>> : i \in m .. n} = {<<Len(t) - k, t[k]>> : k \in 1 .. Len(t)}
    BY <2>8, <2>9, Zenon
  <2> QED
    BY <1>1, <2>5, <2>7, <2>10 DEF t
<1> QED
  BY <1>3, <1>4

LEMMA JoinIs ==
    ASSUME NEW l, NEW folders, NEW tail, NEW name, NEW ext
    PROVE  LET path == Filled(folders, <<>>) \o tail
               dst == Join(l, folders, tail, name, ext)
           IN  /\ dst.name = Sanitize(name, l)
               /\ dst.dirs = [m \in DOMAIN path |-> Sanitize(path[m], l)]
BY Zenon DEF Join

\* Below one folder, files are apart by their discs and their names.
LEMMA VerbatimApart ==
    ASSUME NEW files, Held(files), NEW l, NEW T, NEW folder \in Seq(T),
           NEW i \in DOMAIN files, NEW j \in DOMAIN files,
           BuildVerbatim(files, l, folder)[i] = BuildVerbatim(files, l, folder)[j]
    PROVE  /\ Sanitize(files[i].base, l) = Sanitize(files[j].base, l)
           /\ DiscsAbove(files[i]) = DiscsAbove(files[j])
<1> DEFINE dsts == BuildVerbatim(files, l, folder)
           tail(k) == PayloadTail(files[k])
           below(k) == [m \in DOMAIN tail(k) |-> <<tail(k)[m]>>]
           head == Filled(folder, <<>>)
           path(k) == head \o below(k)
           dirs(k) == [m \in DOMAIN path(k) |-> Sanitize(path(k)[m], l)]
           U == T \cup Seq(Discs)
<1>1. dsts = [k \in DOMAIN files |-> Join(l, folder, below(k), files[k].base, files[k].ext)]
  BY Zenon DEF BuildVerbatim
<1>2. ASSUME NEW k \in DOMAIN files
      PROVE  dsts[k].name = Sanitize(files[k].base, l) /\ dsts[k].dirs = dirs(k)
  <2>1. dsts[k] = Join(l, folder, below(k), files[k].base, files[k].ext)
    BY <1>1, Zenon
  <2> HIDE DEF dsts, below
  <2> QED
    BY <2>1, JoinIs
<1>3. ASSUME NEW k \in DOMAIN files
      PROVE  /\ tail(k) \in Seq(Discs) /\ Len(tail(k)) \in Nat
             /\ below(k) \in Seq(U) /\ Len(below(k)) = Len(tail(k))
             /\ \A m \in 1 .. Len(tail(k)) : below(k)[m] = <<tail(k)[m]>>
  <2>1. tail(k) \in Seq(Discs)
    BY TailIs DEF Held
  <2> DEFINE t == tail(k)
             b == [m \in 1 .. Len(t) |-> <<t[m]>>]
  <2> HIDE DEF tail
  <2>2. Len(t) \in Nat /\ DOMAIN t = 1 .. Len(t) /\ \A m \in 1 .. Len(t) : t[m] \in Discs
    BY <2>1, LenProperties, ElementOfSeq
  <2>3. \A w \in Discs : <<w>> \in Seq(Discs)
    OBVIOUS
  <2>4. b \in [1 .. Len(t) -> U]
    BY <2>2, <2>3
  <2>5. \A m \in 1 .. Len(t) : b[m] = <<t[m]>>
    BY Zenon
  <2>6. below(k) = b
    BY <2>2, Zenon
  <2> HIDE DEF b, U, below
  <2>7. b \in Seq(U) /\ Len(b) = Len(t)
    BY <2>2, <2>4, FunctionIsSeq
  <2> QED
    BY <2>1, <2>2, <2>5, <2>6, <2>7
<1>4. head \in Seq(U)
  <2>1. head \in Seq(T)
    BY FilledIn
  <2> HIDE DEF head
  <2> QED
    BY <2>1, SeqMonotonic
<1> HIDE DEF head, below, tail, U
<1>5. ASSUME NEW k \in DOMAIN files
      PROVE  /\ DOMAIN dirs(k) = 1 .. Len(head) + Len(tail(k))
             /\ \A m \in 1 .. Len(tail(k)) :
                   dirs(k)[Len(head) + m] = Sanitize(<<tail(k)[m]>>, l)
  <2>1. /\ path(k) \in Seq(U) /\ Len(path(k)) = Len(head) + Len(below(k))
        /\ Len(head) \in Nat /\ Len(below(k)) \in Nat
        /\ \A m \in 1 .. Len(below(k)) : path(k)[Len(head) + m] = below(k)[m]
    BY <1>3, <1>4, StartAndRest
  <2> HIDE DEF path
  <2>2. DOMAIN path(k) = 1 .. Len(head) + Len(tail(k)) /\ Len(tail(k)) = Len(below(k))
    BY <1>3, <2>1, LenProperties
  <2>3. \A m \in 1 .. Len(tail(k)) : Len(head) + m \in DOMAIN path(k)
    BY <2>1, <2>2
  <2>4. \A m \in 1 .. Len(tail(k)) : path(k)[Len(head) + m] = <<tail(k)[m]>>
    BY <1>3, <2>1, <2>2
  <2> QED
    BY <2>2, <2>3, <2>4, Zenon
<1>6. dirs(i) = dirs(j) /\ Sanitize(files[i].base, l) = Sanitize(files[j].base, l)
  <2>1. dsts[i] = dsts[j]
    OBVIOUS
  <2> HIDE DEF dsts, dirs
  <2> QED
    BY <1>2, <2>1
<1>7. Len(head) \in Nat
  BY <1>4, LenProperties
<1> HIDE DEF dirs
<1>8. Len(tail(i)) = Len(tail(j))
  <2>1. 1 .. Len(head) + Len(tail(i)) = 1 .. Len(head) + Len(tail(j))
    BY <1>5, <1>6
  <2> QED
    BY <1>3, <1>7, <2>1
<1>9. ASSUME NEW m \in 1 .. Len(tail(i)) PROVE tail(i)[m] = tail(j)[m]
  <2> DEFINE v == tail(i)[m]
             w == tail(j)[m]
  <2>1. v \in Discs /\ w \in Discs
    BY <1>3, <1>8, ElementOfSeq
  <2>2. Sanitize(<<v>>, l) = Sanitize(<<w>>, l)
    BY <1>5, <1>6, <1>8
  <2> HIDE DEF v, w
  <2>3. <<v>> \in Seq(Discs) /\ <<w>> \in Seq(Discs) /\ Len(<<v>>) = 1 /\ <<v>>[1] = v /\ <<w>>[1] = w
    BY <2>1
  <2>4. Clean(v, l) = Clean(w, l)
    <3> DEFINE a == <<v>>
               b == <<w>>
    <3> HIDE DEF a, b
    <3>1. a \in Seq(Discs) /\ b \in Seq(Discs) /\ Sanitize(a, l) = Sanitize(b, l)
      BY <2>2, <2>3 DEF a, b
    <3>2. \A k \in 1 .. Len(a) : Clean(a[k], l) = Clean(b[k], l)
      BY <3>1, SameClean
    <3>3. 1 \in 1 .. Len(a) /\ a[1] = v /\ b[1] = w
      BY <2>3 DEF a, b
    <3> QED
      BY <3>2, <3>3
  <2>5. v \notin Odd /\ w \notin Odd
    BY <2>1 DEF Discs, Odd
  <2>6. v = w
    BY <2>4, <2>5, Zenon DEF Clean
  <2> QED
    BY <2>6 DEF v, w
<1>10. tail(i) = tail(j)
  BY <1>3, <1>8, <1>9, SeqEqual
<1>11. DiscsAbove(files[i]) = DiscsAbove(files[j])
  <2>1. \A k \in DOMAIN files : DiscsAbove(files[k]) =
          {<<Len(tail(k)) - m, tail(k)[m]>> : m \in 1 .. Len(tail(k))}
    BY TailIs DEF Held, tail
  <2> QED
    BY <1>10, <2>1, Zenon
<1> QED
  BY <1>6, <1>11

-----------------------------------------------------------------------------
(* Destinations *)

LEMMA PayloadHeld ==
    ASSUME NEW files \in Payloads, NEW l PROVE Held(Payload(files, l))
<1> DEFINE kept == Kept(files, l)
           s == Payload(files, l)
<1>1. Len(files) \in Nat /\ DOMAIN files = 1 .. Len(files) /\ kept \in SUBSET (1 .. Len(files))
  BY PositionsAre
<1>2. /\ Cardinality(kept) \in Nat /\ DOMAIN s = 1 .. Cardinality(kept)
      /\ FilesOf(s) = {files[i] : i \in kept}
  <2>1. s = ElementsAt(files, kept)
    BY DEF Payload
  <2> HIDE DEF s, kept
  <2> QED
    BY <1>1, <2>1, ElementsAtAre
<1> HIDE DEF s, kept
<1>3. \A k \in DOMAIN s : s[k] \in FilesOf(files)
  <2>1. \A k \in DOMAIN s : s[k] \in FilesOf(s)
    BY DEF FilesOf
  <2>2. FilesOf(s) \subseteq FilesOf(files)
    BY <1>1, <1>2 DEF FilesOf
  <2> QED
    BY <2>1, <2>2
<1>4. \A f \in FilesOf(files) : /\ f.dir \in Seq(STRING) /\ f.base \in Seq(STRING)
                                /\ f.size \in Nat /\ WellFormed(f.code)
  BY PayloadsAssumption
<1>5. DOMAIN s \subseteq Nat \ {0}
  BY <1>2
<1>6. Held(s)
  BY <1>3, <1>4, <1>5, Zenon DEF Held
<1> QED
  BY <1>6 DEF s

\* Each step takes a file of the payload to the destination of that file.
LEMMA PlacedAre ==
    ASSUME NEW type, NEW p, NEW files, NEW l, NEW s \in FilesOf(Build(type, p, files, l).placed)
    PROVE  LET payload == Payload(files, l) IN
           \E i \in DOMAIN payload :
               s.src = payload[i] /\ s.dst = Destinations(type, p, payload, l)[i]
<1> DEFINE b == Build(type, p, files, l)
           payload == Payload(files, l)
           dsts == Destinations(type, p, payload, l)
           refused == payload # <<>> /\ Refuses(type, p, payload, l)
           steps == [i \in DOMAIN payload |-> [src |-> payload[i], dst |-> dsts[i]]]
<1>1. b.placed = IF refused \/ payload = <<>> THEN <<>> ELSE steps
  BY Zenon DEF Build
<1>2. FilesOf(<<>>) = {}
  BY DEF FilesOf
<1>3. b.placed = steps
  <2> HIDE DEF b, steps, refused
  <2> QED
    BY <1>1, <1>2 DEF b
<1>4. \A i \in DOMAIN payload : steps[i].src = payload[i] /\ steps[i].dst = dsts[i]
  OBVIOUS
<1>5. DOMAIN steps = DOMAIN payload
  OBVIOUS
<1>6. PICK i \in DOMAIN steps : s = steps[i]
  <2>1. s \in FilesOf(steps)
    BY <1>3
  <2> HIDE DEF steps
  <2> QED
    BY <2>1 DEF FilesOf
<1> HIDE DEF steps, dsts, payload
<1> QED
  BY <1>4, <1>5, <1>6 DEF dsts, payload

LEMMA DestinationsAre ==
    ASSUME NEW type \in Types, NEW p, NEW files, NEW l
    PROVE  LET dsts == Destinations(type, p, files, l) IN
           /\ type = "movie" => dsts = BuildMovie(p, files, l)
           /\ type = "tv" => dsts = BuildTV(p, files, l)
           /\ type = "music" => dsts = BuildVerbatim(files, l, MusicFolder(p))
           /\ type = "audiobook" => dsts = BuildVerbatim(files, l, AudiobookFolder(p))
           /\ type = "comic" => dsts = BuildComic(p, files, l)
           /\ type = "ebook" => dsts = BuildEbook(p, files, l)
           /\ type = "rom" => dsts = BuildROM(p, files, l)
BY DEF Destinations

\* Comics and games keep their names, below a folder of all.
LEMMA NamedApart ==
    ASSUME NEW p, NEW files, Held(files), NEW l, NEW i \in DOMAIN files, NEW j \in DOMAIN files,
           NEW dsts, dsts \in {BuildComic(p, files, l), BuildROM(p, files, l)},
           dsts[i].name = dsts[j].name, \A w \in ToSet(dsts[i].name) : w \notin Long
    PROVE  Sanitize(files[i].base, l) = Sanitize(files[j].base, l)
<1>1. \E folders : dsts = [k \in DOMAIN files |-> Cut(l, folders, files[k].base, files[k].ext)]
  <2>1. CASE dsts = BuildComic(p, files, l)
    BY <2>1, Zenon DEF BuildComic
  <2>2. CASE dsts = BuildROM(p, files, l)
    BY <2>2, Zenon DEF BuildROM
  <2> QED
    BY <2>1, <2>2
<1>2. PICK folders : dsts = [k \in DOMAIN files |-> Cut(l, folders, files[k].base, files[k].ext)]
  BY <1>1
<1>3. /\ dsts[i] = Cut(l, folders, files[i].base, files[i].ext)
      /\ dsts[j] = Cut(l, folders, files[j].base, files[j].ext)
  BY <1>2
<1>4. files[i].base \in Seq(STRING) /\ files[j].base \in Seq(STRING)
  BY DEF Held
<1> QED
  BY <1>3, <1>4, SameName

LEMMA FoldersAre ==
    ASSUME NEW p PROVE \E T : MusicFolder(p) \in Seq(T) /\ AudiobookFolder(p) \in Seq(T)
<1>1. \A a, b : \E T : <<a, b>> \in Seq(T)
  <2> SUFFICES ASSUME NEW a, NEW b PROVE <<a, b>> \in Seq({a, b})
    BY Zenon
  <2> QED
    OBVIOUS
<1>2. \A a, b, c : \E T : <<a, b, c>> \in Seq(T)
  <2> SUFFICES ASSUME NEW a, NEW b, NEW c PROVE <<a, b, c>> \in Seq({a, b, c})
    BY Zenon
  <2> QED
    OBVIOUS
<1>3. PICK T : MusicFolder(p) \in Seq(T)
  BY <1>1, Zenon DEF MusicFolder
<1>4. PICK S : AudiobookFolder(p) \in Seq(S)
  BY <1>2, Zenon DEF AudiobookFolder
<1>5. MusicFolder(p) \in Seq(T \cup S) /\ AudiobookFolder(p) \in Seq(T \cup S)
  BY <1>3, <1>4, SeqMonotonic
<1> QED
  BY <1>5

\* What the loop has laid out is the layout of what it has found.
LaidOut ==
    /\ pc \in {"decide", "explain", "save"} =>
          /\ verdict.type \in Types
          /\ result = Build(verdict.type, parsed, item.files, lib)
    /\ pc # "classify" => parsed.tv = ParseTV(item.name.code) \/ pc = "done"

LEMMA EnrichTV ==
    ASSUME NEW type, NEW n, NEW files PROVE Enrich(type, n, files).tv = ParseTV(n.code)
<1> DEFINE p == ToParsed(Parse(n))
<1>1. p.tv = ParseTV(n.code)
  BY DEF ToParsed, Parse
<1>2. /\ EnrichMusic(p, n).tv = p.tv /\ EnrichAudiobook(p, n, files).tv = p.tv
      /\ EnrichEbook(p, n, files).tv = p.tv /\ EnrichComic(p, n).tv = p.tv
      /\ EnrichROM(p, n, files).tv = p.tv
  BY DEF ToParsed, EnrichMusic, EnrichAudiobook, EnrichEbook, EnrichComic, EnrichROM
<1> HIDE DEF p
<1> QED
  BY <1>1, <1>2 DEF Enrich, p

LEMMA LaidOutInit == Init => LaidOut
BY DEF Init, LaidOut

LEMMA LaidOutNext == TypeInv /\ LaidOut /\ [Next]_vars => LaidOut'
<1> SUFFICES ASSUME TypeInv, LaidOut, [Next]_vars PROVE LaidOut'
  OBVIOUS
<1> USE DEF LaidOut, Goes, Ends, madeVars
<1>1. CASE ClassifyItem
  <2>1. parsed'.tv = ParseTV(item.name.code)
    BY <1>1, EnrichTV DEF ClassifyItem
  <2>2. pc' \in {"library", "done"} /\ item' = item
    BY <1>1 DEF ClassifyItem
  <2> QED
    BY <2>1, <2>2
<1>2. CASE Fails
  BY <1>2 DEF Fails
<1>3. CASE NoLibrary
  BY <1>3 DEF NoLibrary
<1>4. CASE BuildItem
  <2>1. /\ pc = "library" /\ pc' \in {"decide", "done"}
        /\ result' = Build(verdict.type, parsed, item.files, lib')
        /\ UNCHANGED <<item, verdict, parsed>>
    BY <1>4 DEF BuildItem
  <2>2. verdict.type \in Types
    BY <2>1 DEF TypeInv
  <2> QED
    BY <2>1, <2>2
<1>5. CASE NeedReview
  BY <1>5 DEF NeedReview
<1>6. CASE Explain
  BY <1>6 DEF Explain
<1>7. CASE Skips
  BY <1>7 DEF Skips
<1>8. CASE SavePlan
  BY <1>8 DEF SavePlan
<1>9. CASE SetConfig
  BY <1>9 DEF SetConfig
<1>10. CASE UNCHANGED vars
  BY <1>10 DEF vars
<1> QED
  BY <1>1, <1>2, <1>3, <1>4, <1>5, <1>6, <1>7, <1>8, <1>9, <1>10 DEF Next

LEMMA LaidOutApart == TypeInv /\ LaidOut => NamesKeptApart
<1> SUFFICES ASSUME TypeInv, LaidOut, pc \in {"decide", "explain", "save"},
                    NEW s \in FilesOf(result.placed), NEW t \in FilesOf(result.placed),
                    s.dst = t.dst, ~(IsCut(s) /\ verdict.type \notin {"music", "audiobook"})
             PROVE  Alike(s.src, t.src)
  BY TypeInvIs, Zenon DEF NamesKeptApart
<1> DEFINE type == verdict.type
           files == Payload(item.files, lib)
           dsts == Destinations(type, parsed, files, lib)
<1>1. /\ type \in Types /\ item.files \in Payloads /\ item.name \in Names
      /\ result = Build(type, parsed, item.files, lib)
      /\ parsed.tv = ParseTV(item.name.code) /\ WellFormed(item.name.code)
  BY NamesAssumption DEF LaidOut, TypeInv
<1>2. Held(files)
  BY <1>1, PayloadHeld
<1>3. PICK i \in DOMAIN files : s.src = files[i] /\ s.dst = dsts[i]
  BY <1>1, PlacedAre
<1>4. PICK j \in DOMAIN files : t.src = files[j] /\ t.dst = dsts[j]
  BY <1>1, PlacedAre
<1>5. dsts[i] = dsts[j]
  BY <1>3, <1>4
<1>6. type \notin {"music", "audiobook"} => \A w \in ToSet(dsts[i].name) : w \notin Long
  BY <1>3 DEF IsCut
<1> HIDE DEF type, files, dsts
<1> DEFINE f == files[i]
           g == files[j]
<1>7. CASE type = "movie"
  <2>1. dsts = BuildMovie(parsed, files, lib)
    BY <1>1, <1>7, DestinationsAre DEF dsts
  <2>2. \A w \in ToSet(BuildMovie(parsed, files, lib)[i].name) : w \notin Long
    BY <1>6, <1>7, <2>1
  <2>3. \/ IsSuffix(Sanitize(f.base, lib), Sanitize(g.base, lib))
        \/ IsSuffix(Sanitize(g.base, lib), Sanitize(f.base, lib))
    BY <1>2, <1>5, <2>1, <2>2, MovieApart
  <2> QED
    BY <1>3, <1>4, <1>7, <2>3 DEF Alike, type
<1>8. CASE type = "tv"
  <2>1. dsts = BuildTV(parsed, files, lib)
    BY <1>1, <1>8, DestinationsAre DEF dsts
  <2>2. \A w \in ToSet(BuildTV(parsed, files, lib)[i].name) : w \notin Long
    BY <1>6, <1>8, <2>1
  <2>3. EpisodeFor(parsed, f) = EpisodeFor(parsed, g)
    BY <1>1, <1>2, <1>5, <2>1, <2>2, TVApart
  <2>4. \/ OwnPosition(f) = OwnPosition(g)
        \/ {OwnPosition(f), OwnPosition(g)} = {<<>>, TorrentPosition(parsed)}
    BY <2>3, Zenon DEF EpisodeFor
  <2> QED
    BY <1>3, <1>4, <1>8, <2>4 DEF Alike, type
<1>9. CASE type \in {"music", "audiobook"}
  <2>1. PICK T : MusicFolder(parsed) \in Seq(T) /\ AudiobookFolder(parsed) \in Seq(T)
    BY FoldersAre
  <2>2. \E folder \in Seq(T) : dsts = BuildVerbatim(files, lib, folder)
    BY <1>1, <1>9, <2>1, DestinationsAre DEF dsts
  <2>3. Sanitize(f.base, lib) = Sanitize(g.base, lib) /\ DiscsAbove(f) = DiscsAbove(g)
    BY <1>2, <1>5, <2>2, VerbatimApart
  <2> QED
    BY <1>3, <1>4, <1>9, <2>3 DEF Alike, type
<1>10. CASE type \in {"comic", "rom"}
  <2>1. dsts \in {BuildComic(parsed, files, lib), BuildROM(parsed, files, lib)}
    BY <1>1, <1>10, DestinationsAre DEF dsts
  <2>2. Sanitize(f.base, lib) = Sanitize(g.base, lib)
    BY <1>2, <1>5, <1>6, <1>10, <2>1, NamedApart
  <2> QED
    BY <1>3, <1>4, <1>10, <2>2 DEF Alike, type
<1>11. CASE type = "ebook"
  BY <1>11 DEF Alike, type
<1> QED
  BY <1>1, <1>7, <1>8, <1>9, <1>10, <1>11 DEF Types, AllTypes

\* For all names, payloads and libraries: no file is forgotten, and two are sent
\* to one destination only if a name was cut or the layout drops what tells them
\* apart (layout.go, the builders; sanitize.go).
THEOREM NamesKeptApartHolds == Spec => []NamesKeptApart
<1>1. Spec => []LaidOut
  BY LaidOutInit, LaidOutNext, TypeInvHolds, PTL DEF Spec
<1> QED
  BY <1>1, TypeInvHolds, LaidOutApart, PTL
-----------------------------------------------------------------------------
(* Numbers of episodes *)

\* A marker comes out of Sanitize as it is.
LEMMA MarkerKept == ASSUME NEW m \in Seq(Marks), NEW l PROVE Sanitize(m, l) = m
<1>1. Len(m) \in Nat /\ \A i \in 1 .. Len(m) : m[i] \in Marks
  BY LenProperties, ElementOfSeq
<1>2. /\ Sanitize(m, l) \in Seq(Marks \cup {"_"}) /\ Len(Sanitize(m, l)) = Len(m)
      /\ \A i \in 1 .. Len(m) : Sanitize(m, l)[i] = Clean(m[i], l)
  BY SanitizeIs
<1>3. m \in Seq(Marks \cup {"_"})
  BY SeqMonotonic
<1>4. \A i \in 1 .. Len(m) : Sanitize(m, l)[i] = m[i]
  BY <1>1, <1>2, MarkKept
<1> QED
  BY <1>2, <1>3, <1>4, SeqEqual

\* The position a file gets is made of numbers there is a word for.
LEMMA PositionIs ==
    ASSUME NEW p, NEW t, WellFormed(t), p.tv = ParseTV(t),
           NEW files, Held(files), NEW i \in DOMAIN files
    PROVE  EpisodeFor(p, files[i]) \in Positions \cup {<<>>}
<1>1. OwnPosition(files[i]) \in Positions \cup {<<>>}
  BY OwnIs DEF Held
<1>2. TorrentPosition(p) \in Positions \cup {<<>>}
  BY TorrentIs
<1> QED
  BY <1>1, <1>2 DEF EpisodeFor

\* A name that is not cut ends with the marker of its episode.
LEMMA EpisodeNamed ==
    ASSUME NEW p, NEW t, WellFormed(t), p.tv = ParseTV(t),
           NEW files, Held(files), NEW l, NEW i \in DOMAIN files, EpisodeFor(p, files[i]) # <<>>,
           \A w \in ToSet(BuildTV(p, files, l)[i].name) : w \notin Long
    PROVE  IsSuffix(Marker(EpisodeFor(p, files[i])), BuildTV(p, files, l)[i].name)
<1> DEFINE at == EpisodeFor(p, files[i])
           folders == <<TitleYear(p), <<"Season", Numeral[at[1]]>>>>
           title == Component(<<p.title, "-">>)
           marker == Marker(at)
           words == {p.title, "-"}
           T == Marks \cup words
           dst == BuildTV(p, files, l)[i]
<1>1. dst = Cut(l, folders, title \o marker, files[i].ext)
  BY Zenon DEF BuildTV
<1>2. at \in Positions
  BY PositionIs
<1> HIDE DEF at
<1>3. marker \in Seq(Marks) /\ marker \in Seq(T)
  <2>1. marker \in Seq(Marks)
    BY <1>2, MarkerIs
  <2> HIDE DEF marker
  <2> QED
    BY <2>1, SeqMonotonic DEF T
<1>4. title \in Seq(T)
  <2> DEFINE s == <<p.title, "-">>
  <2>1. s \in Seq(words)
    OBVIOUS
  <2> HIDE DEF s, words
  <2>2. Filled(s, "") \in Seq(words)
    BY <2>1, FilledIn
  <2>3. title = Filled(s, "")
    BY Zenon DEF Component, s
  <2> QED
    BY <2>2, <2>3, SeqMonotonic DEF T
<1> HIDE DEF title, marker, folders, dst, T
<1>5. title \o marker \in Seq(T)
  BY <1>3, <1>4, ConcatProperties
<1>6. dst.name = Sanitize(Truncate(title \o marker), l)
  BY <1>1, Zenon DEF Cut, Join
<1>7. Truncate(title \o marker) = title \o marker
  <2>1. \A w \in ToSet(dst.name) : w \notin Long
    BY DEF dst
  <2> QED
    BY <1>5, <1>6, <2>1, NotCut
<1>8. IsSuffix(Sanitize(marker, l), Sanitize(title \o marker, l))
  BY <1>3, <1>4, EndsWith
<1>9. Sanitize(marker, l) = marker
  BY <1>3, MarkerKept
<1> QED
  BY <1>6, <1>7, <1>8, <1>9 DEF marker, dst, at

\* A plan is the layout of the item it is for.
PlanLaidOut ==
    plan.made =>
        /\ pc = "done" /\ verdict.type \in Types /\ parsed.tv = ParseTV(item.name.code)
        /\ plan.steps = Build(verdict.type, parsed, item.files, lib).placed

LEMMA PlanLaidOutInit == Init => PlanLaidOut
<1>1. ~ NoPlan.made
  BY DEF NoPlan
<1>2. Init => plan = NoPlan
  BY Zenon DEF Init
<1> QED
  BY <1>1, <1>2, Zenon DEF PlanLaidOut

LEMMA PlanLaidOutNext == LaidOut /\ PlanLaidOut /\ [Next]_vars => PlanLaidOut'
<1> SUFFICES ASSUME LaidOut, PlanLaidOut, [Next]_vars PROVE PlanLaidOut'
  OBVIOUS
<1> USE DEF PlanLaidOut, Goes, Ends, madeVars
<1>1. CASE SavePlan
  <2>1. /\ pc = "save" /\ pc' = "done" /\ plan'.steps = result.placed
        /\ UNCHANGED <<item, lib, verdict, parsed>>
    BY <1>1 DEF SavePlan
  <2>2. /\ verdict.type \in Types /\ result = Build(verdict.type, parsed, item.files, lib)
        /\ parsed.tv = ParseTV(item.name.code)
    BY <2>1 DEF LaidOut
  <2> QED
    BY <2>1, <2>2
<1>2. ASSUME pc # "done", plan' = plan PROVE PlanLaidOut'
  BY <1>2
<1>3. CASE UNCHANGED vars
  BY <1>3 DEF vars
<1>4. CASE ClassifyItem \/ Fails \/ NoLibrary \/ BuildItem
  BY <1>2, <1>4 DEF ClassifyItem, Fails, NoLibrary, BuildItem
<1>5. CASE NeedReview \/ Explain \/ Skips \/ SetConfig
  BY <1>2, <1>5 DEF NeedReview, Explain, Skips, SetConfig
<1> QED
  BY <1>1, <1>3, <1>4, <1>5 DEF Next

\* What is left of EpisodeSurvives: only a name that was cut can lose its episode.
UncutEpisodeSurvives ==
    plan.made /\ verdict.type = "tv" =>
        \A s \in FilesOf(plan.steps) : EpisodeFor(parsed, s.src) # <<>> /\ ~IsCut(s) =>
            IsSuffix(Marker(EpisodeFor(parsed, s.src)), s.dst.name)

LEMMA PlanLaidOutKeeps == TypeInv /\ PlanLaidOut => UncutEpisodeSurvives
<1> SUFFICES ASSUME TypeInv, PlanLaidOut, plan.made, verdict.type = "tv",
                    NEW s \in FilesOf(plan.steps), EpisodeFor(parsed, s.src) # <<>>, ~IsCut(s)
             PROVE  IsSuffix(Marker(EpisodeFor(parsed, s.src)), s.dst.name)
  BY Zenon DEF UncutEpisodeSurvives
<1> DEFINE files == Payload(item.files, lib)
           dsts == Destinations("tv", parsed, files, lib)
<1>1. /\ item.files \in Payloads /\ item.name \in Names /\ WellFormed(item.name.code)
      /\ parsed.tv = ParseTV(item.name.code)
      /\ plan.steps = Build("tv", parsed, item.files, lib).placed
  BY NamesAssumption DEF PlanLaidOut, TypeInv
<1>2. Held(files)
  BY <1>1, PayloadHeld
<1>3. PICK i \in DOMAIN files : s.src = files[i] /\ s.dst = dsts[i]
  BY <1>1, PlacedAre
<1>4. \A w \in ToSet(dsts[i].name) : w \notin Long
  BY <1>3 DEF IsCut
<1> HIDE DEF files, dsts
<1>5. dsts = BuildTV(parsed, files, lib)
  <2>1. "tv" \in Types
    BY DEF Types, AllTypes
  <2> QED
    BY <2>1, DestinationsAre DEF dsts
<1>6. IsSuffix(Marker(EpisodeFor(parsed, files[i])), BuildTV(parsed, files, lib)[i].name)
  BY <1>1, <1>2, <1>3, <1>4, <1>5, EpisodeNamed
<1> QED
  BY <1>3, <1>5, <1>6

\* For all names, payloads and libraries: an episode loses its number only by
\* truncation, as buildTV hands title and marker over as one stem (layout.go).
THEOREM UncutEpisodeSurvivesHolds == Spec => []UncutEpisodeSurvives
<1>1. Spec => [](LaidOut /\ PlanLaidOut)
  BY LaidOutInit, LaidOutNext, PlanLaidOutInit, PlanLaidOutNext, TypeInvHolds, PTL DEF Spec
<1> QED
  BY <1>1, TypeInvHolds, PlanLaidOutKeeps, PTL
=============================================================================
