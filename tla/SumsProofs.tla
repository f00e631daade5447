----------------------------- MODULE SumsProofs -----------------------------
(***************************************************************************)
(* What the sum of a function of integers with a finite domain is, and     *)
(* what a step that changes one value, adds one element or adds two        *)
(* functions does to it.                                                   *)
(*                                                                         *)
(* The induction behind these lemmas is the choice of a minimal element:   *)
(* the strict subsets of a finite set are well founded, so a set of        *)
(* subsets on which a sum were wrong would have a minimal one.  So have     *)
(* the sets of what lies above or below each of finitely many integers,    *)
(* which gives them a greatest and a least element and ranks without gaps. *)
(***************************************************************************)
EXTENDS Sums, FiniteSetTheorems, WellFoundedInduction, TLAPS

\* g gives every subset of D the sum of f over it.
SumsOver(g, f, D) ==
  /\ g \in [SUBSET D -> Int]
  /\ g[{}] = 0
  /\ \A T \in SUBSET D : \A x \in D \ T : g[T \cup {x}] = g[T] + f[x]

\* A non-empty set of subsets of a finite set has a minimal element.
LEMMA MinimalSubset ==
  ASSUME NEW D, IsFiniteSet(D), NEW C, C \subseteq SUBSET D, C # {}
  PROVE  \E T \in C : \A U \in C : U \subseteq T => U = T
<1>1. IsWellFoundedOn(StrictSubsetOrdering(D), SUBSET D)
  BY FS_StrictSubsetOrderingWellFounded, FS_FiniteSubsetsOfFinite
<1>2. PICK T \in C : \A U \in C : <<U, T>> \notin StrictSubsetOrdering(D)
  <2> HIDE DEF IsWellFoundedOn, StrictSubsetOrdering
  <2> QED BY <1>1, WFMin, Zenon
<1>3. QED
  BY <1>2 DEF StrictSubsetOrdering

\* A function of integers with a finite domain has sums.
LEMMA SumsExist ==
  ASSUME NEW D, IsFiniteSet(D), NEW f \in [D -> Int]
  PROVE  \E g : SumsOver(g, f, D)
<1> DEFINE C == {T \in SUBSET D : ~ \E g : SumsOver(g, f, T)}
<1>1. SUFFICES ASSUME C # {}
               PROVE  FALSE
  OBVIOUS
<1>2. PICK T \in C : \A U \in C : U \subseteq T => U = T
  <2> HIDE DEF C
  <2>1. C \subseteq SUBSET D
    BY DEF C
  <2>2. QED
    BY <1>1, <2>1, MinimalSubset
<1>3. CASE T = {}
  <2>1. SumsOver([U \in SUBSET T |-> 0], f, T)
    BY <1>3 DEF SumsOver
  <2>2. QED
    BY <2>1
<1>4. CASE T # {}
  <2>1. PICK x : x \in T
    BY <1>4
  <2>2. PICK g : SumsOver(g, f, T \ {x})
    BY <1>2, <2>1
  <2> DEFINE h == [U \in SUBSET T |-> IF x \in U THEN g[U \ {x}] + f[x] ELSE g[U]]
  <2>3. f[x] \in Int
    BY <2>1
  <2>4. h \in [SUBSET T -> Int] /\ h[{}] = 0
    BY <2>2, <2>3 DEF SumsOver
  <2>5. ASSUME NEW U \in SUBSET T, NEW y \in T \ U
        PROVE  h[U \cup {y}] = h[U] + f[y]
    <3>0. f[y] \in Int
      OBVIOUS
    <3>1. CASE x \in U
      <4>1. (U \cup {y}) \ {x} = (U \ {x}) \cup {y}
        BY <3>1
      <4>2. g[(U \ {x}) \cup {y}] = g[U \ {x}] + f[y]
        BY <2>2, <3>1 DEF SumsOver
      <4>3. g[U \ {x}] \in Int
        BY <2>2 DEF SumsOver
      <4>4. h[U] = g[U \ {x}] + f[x] /\ h[U \cup {y}] = g[(U \ {x}) \cup {y}] + f[x]
        BY <3>1, <4>1
      <4>5. QED
        BY <2>3, <3>0, <4>2, <4>3, <4>4
    <3>2. CASE x \notin U /\ y = x
      <4>1. (U \cup {y}) \ {x} = U
        BY <3>2
      <4>2. QED
        BY <3>2, <4>1
    <3>3. CASE x \notin U /\ y # x
      <4>1. g[U \cup {y}] = g[U] + f[y]
        BY <2>2, <3>3 DEF SumsOver
      <4>2. QED
        BY <3>3, <4>1
    <3>4. QED
      BY <3>1, <3>2, <3>3
  <2>6. SumsOver(h, f, T)
    BY <2>4, <2>5 DEF SumsOver
  <2>7. QED
    BY <2>6
<1>5. QED
  BY <1>3, <1>4

\* SumOf computes these sums.
LEMMA SumOfIs ==
  ASSUME NEW D, IsFiniteSet(D), NEW f \in [D -> Int], NEW g, SumsOver(g, f, D)
  PROVE  SumOf(f) = g[D]
<1> DEFINE pick(s) == CHOOSE x \in s : TRUE
           Step(i) == [s \in SUBSET D |-> IF s = {} THEN 0 ELSE f[pick(s)] + i[s \ {pick(s)}]]
           iter == CHOOSE i : i = Step(i)
<1>1. SumOf(f) = iter[D]
  BY DEF SumOf, MapThenSumSet, MapThenFoldSet
<1> HIDE DEF iter
<1>2. \A s \in SUBSET D : s # {} => pick(s) \in s
  OBVIOUS
<1> HIDE DEF pick
<1>3. g = Step(g)
  <2>1. ASSUME NEW s \in SUBSET D
        PROVE  g[s] = IF s = {} THEN 0 ELSE f[pick(s)] + g[s \ {pick(s)}]
    <3>1. CASE s # {}
      <4>1. PICK x \in s : x = pick(s)
        BY <1>2, <3>1
      <4>2. g[(s \ {x}) \cup {x}] = g[s \ {x}] + f[x]
        BY DEF SumsOver
      <4>3. (s \ {x}) \cup {x} = s
        OBVIOUS
      <4>4. f[x] \in Int /\ g[s \ {x}] \in Int
        BY DEF SumsOver
      <4>5. QED
        BY <3>1, <4>1, <4>2, <4>3, <4>4
    <3>2. QED
      BY <3>1 DEF SumsOver
  <2>2. QED
    BY <2>1 DEF SumsOver
<1>4. iter = Step(iter)
  BY <1>3 DEF iter
<1>5. ASSUME NEW s \in SUBSET D
      PROVE  iter[s] = g[s]
  <2> DEFINE C == {T \in SUBSET D : iter[T] # g[T]}
  <2>1. SUFFICES ASSUME C # {}
                 PROVE  FALSE
    OBVIOUS
  <2>2. PICK T \in C : \A U \in C : U \subseteq T => U = T
    <3>1. C \subseteq SUBSET D
      OBVIOUS
    <3> HIDE DEF C
    <3>2. QED
      BY <2>1, <3>1, MinimalSubset
  <2>3. T # {}
    BY <1>4 DEF SumsOver
  <2>4. PICK x \in T : x = pick(T)
    BY <1>2, <2>3
  <2>5. iter[T \ {x}] = g[T \ {x}]
    BY <2>2, <2>4
  <2>6. iter[T] = f[x] + iter[T \ {x}]
    BY <1>4, <2>3, <2>4
  <2>7. g[T] = f[x] + g[T \ {x}]
    BY <1>3, <2>3, <2>4
  <2>8. QED
    BY <2>5, <2>6, <2>7
<1>6. QED
  BY <1>1, <1>5

\* A sum of integers is an integer ...
LEMMA SumIsInt ==
  ASSUME NEW D, IsFiniteSet(D), NEW f \in [D -> Int]
  PROVE  SumOf(f) \in Int
<1>1. PICK g : SumsOver(g, f, D)
  BY SumsExist
<1>2. SumOf(f) = g[D]
  BY <1>1, SumOfIs
<1>3. QED
  BY <1>1, <1>2 DEF SumsOver

\* A sum of numbers that are not negative is none.
LEMMA SumIsNat ==
  ASSUME NEW D, IsFiniteSet(D), NEW f \in [D -> Nat]
  PROVE  SumOf(f) \in Nat
<1>1. f \in [D -> Int]
  OBVIOUS
<1>2. PICK g : SumsOver(g, f, D)
  BY <1>1, SumsExist
<1> DEFINE C == {T \in SUBSET D : g[T] < 0}
<1>3. C = {}
  <2>1. SUFFICES ASSUME C # {} PROVE FALSE
    OBVIOUS
  <2>2. PICK T \in C : \A U \in C : U \subseteq T => U = T
    <3>1. C \subseteq SUBSET D
      OBVIOUS
    <3> HIDE DEF C
    <3>2. QED
      BY <2>1, <3>1, MinimalSubset
  <2>3. T # {}
    <3>1. g[T] < 0 /\ g[{}] = 0
      BY <1>2 DEF SumsOver
    <3>2. QED
      BY <3>1
  <2>4. PICK x : x \in T
    BY <2>3
  <2>5. PICK U \in SUBSET D : U = T \ {x}
    OBVIOUS
  <2>6. T = U \cup {x} /\ x \in D \ U /\ U # T /\ U \subseteq T
    BY <2>4, <2>5
  <2>7. g[T] = g[U] + f[x]
    BY <1>2, <2>6 DEF SumsOver
  <2>8. g[U] \in Int /\ f[x] \in Nat /\ g[T] < 0
    BY <1>2, <2>6 DEF SumsOver
  <2>9. U \in C
    BY <2>7, <2>8
  <2>10. QED
    BY <2>2, <2>6, <2>9
<1>4. SumOf(f) = g[D]
  BY <1>1, <1>2, SumOfIs
<1>5. g[D] \in Int /\ ~(g[D] < 0)
  BY <1>2, <1>3 DEF SumsOver
<1>6. QED
  BY <1>4, <1>5

\* ... and zero where every value is.
LEMMA SumIsZero ==
  ASSUME NEW D, IsFiniteSet(D), NEW f \in [D -> Int], \A x \in D : f[x] = 0
  PROVE  SumOf(f) = 0
<1> DEFINE g == [T \in SUBSET D |-> 0]
<1>1. SumsOver(g, f, D)
  BY DEF SumsOver
<1>2. QED
  BY <1>1, SumOfIs

\* What a change of one value does to a sum.
LEMMA SumChanges ==
  ASSUME NEW D, IsFiniteSet(D), NEW f \in [D -> Int], NEW h \in [D -> Int],
         NEW x \in D, \A y \in D \ {x} : h[y] = f[y]
  PROVE  SumOf(h) = SumOf(f) + (h[x] - f[x])
<1>1. PICK g : SumsOver(g, f, D)
  BY SumsExist
<1> DEFINE e == [T \in SUBSET D |-> IF x \in T THEN g[T] + (h[x] - f[x]) ELSE g[T]]
<1>2. SumsOver(e, h, D)
  <2>1. e \in [SUBSET D -> Int] /\ e[{}] = 0
    BY <1>1 DEF SumsOver
  <2>2. ASSUME NEW T \in SUBSET D, NEW y \in D \ T
        PROVE  e[T \cup {y}] = e[T] + h[y]
    <3>1. g[T \cup {y}] = g[T] + f[y] /\ g[T] \in Int /\ f[y] \in Int /\ h[y] \in Int
      BY <1>1 DEF SumsOver
    <3>2. CASE y = x
      BY <3>1, <3>2
    <3>3. CASE y # x
      BY <3>1, <3>3
    <3>4. QED
      BY <3>2, <3>3
  <2>3. QED
    BY <2>1, <2>2 DEF SumsOver
<1>3. e[D] = g[D] + (h[x] - f[x])
  OBVIOUS
<1> HIDE DEF e
<1>4. QED
  BY <1>1, <1>2, <1>3, SumOfIs

\* One more element adds its value.
LEMMA SumExtends ==
  ASSUME NEW D, IsFiniteSet(D), NEW x, x \notin D, NEW f \in [D -> Int],
         NEW h \in [D \cup {x} -> Int], \A y \in D : h[y] = f[y]
  PROVE  SumOf(h) = SumOf(f) + h[x]
<1>1. IsFiniteSet(D \cup {x})
  BY FS_AddElement
<1>2. PICK g : SumsOver(g, h, D \cup {x})
  BY <1>1, SumsExist
<1> DEFINE e == [T \in SUBSET D |-> g[T]]
<1>3. SumsOver(e, f, D)
  BY <1>2 DEF SumsOver
<1>4. e[D] = g[D] /\ g[D \cup {x}] = g[D] + h[x]
  BY <1>2 DEF SumsOver
<1> HIDE DEF e
<1>5. QED
  BY <1>1, <1>2, <1>3, <1>4, SumOfIs

\* The sum of pointwise sums.
LEMMA SumsAdd ==
  ASSUME NEW D, IsFiniteSet(D), NEW f \in [D -> Int], NEW h \in [D -> Int],
         NEW d \in [D -> Int], \A x \in D : d[x] = f[x] + h[x]
  PROVE  SumOf(d) = SumOf(f) + SumOf(h)
<1>1. PICK g : SumsOver(g, f, D)
  BY SumsExist
<1>2. PICK k : SumsOver(k, h, D)
  BY SumsExist
<1> DEFINE e == [T \in SUBSET D |-> g[T] + k[T]]
<1>3. SumsOver(e, d, D)
  <2>1. e \in [SUBSET D -> Int] /\ e[{}] = 0
    BY <1>1, <1>2 DEF SumsOver
  <2>2. ASSUME NEW T \in SUBSET D, NEW y \in D \ T
        PROVE  e[T \cup {y}] = e[T] + d[y]
    <3>1. g[T \cup {y}] = g[T] + f[y] /\ k[T \cup {y}] = k[T] + h[y]
      BY <1>1, <1>2 DEF SumsOver
    <3>2. g[T] \in Int /\ k[T] \in Int /\ f[y] \in Int /\ h[y] \in Int
      BY <1>1, <1>2 DEF SumsOver
    <3>3. QED
      BY <3>1, <3>2
  <2>3. QED
    BY <2>1, <2>2 DEF SumsOver
<1>4. e[D] = g[D] + k[D]
  OBVIOUS
<1> HIDE DEF e
<1>5. QED
  BY <1>1, <1>2, <1>3, <1>4, SumOfIs

\* The values of a function with a finite domain are finitely many.
LEMMA FiniteImage ==
  ASSUME NEW S, IsFiniteSet(S), NEW f, DOMAIN f = S, f = [x \in S |-> f[x]]
  PROVE  IsFiniteSet({f[x] : x \in S})
<1> DEFINE T == {f[x] : x \in S}
<1>1. f \in [S -> T] /\ \A t \in T : \E x \in S : f[x] = t
  OBVIOUS
<1>2. f \in Surjection(S, T)
  BY <1>1 DEF Surjection
<1>3. QED
  BY <1>2, FS_Surjection

-----------------------------------------------------------------------------
\* Of finitely many subsets, named by the elements of a finite set, one is minimal.
LEMMA MinimalMember ==
  ASSUME NEW S, IsFiniteSet(S), S # {}, NEW f \in [S -> SUBSET S]
  PROVE  \E q \in S : \A r \in S : f[r] \subseteq f[q] => f[r] = f[q]
<1> DEFINE C == {f[q] : q \in S}
<1>1. C \subseteq SUBSET S
  OBVIOUS
<1>2. C # {}
  OBVIOUS
<1>3. \E T \in C : \A U \in C : U \subseteq T => U = T
  <2> HIDE DEF C
  <2> QED
    BY <1>1, <1>2, MinimalSubset
<1>4. QED
  BY <1>3

\* A non-empty finite set of integers has a greatest and a least element.
LEMMA LargestElement ==
  ASSUME NEW S, IsFiniteSet(S), S # {}
  PROVE  S \subseteq Int => \E m \in S : \A r \in S : r <= m
<1>1. PICK f : f = [q \in S |-> {r \in S : r >= q}]
  OBVIOUS
<1>2. f \in [S -> SUBSET S]
  BY <1>1
<1>3. PICK q \in S : \A r \in S : f[r] \subseteq f[q] => f[r] = f[q]
  BY <1>2, MinimalMember
<1> HAVE S \subseteq Int
<1>4. ASSUME NEW r \in S, ~ (r <= q)
      PROVE  FALSE
  <2>1. r \in Int /\ q \in Int
    OBVIOUS
  <2>2. ASSUME NEW x \in f[r] PROVE x \in f[q]
    <3>1. x \in S /\ x \in Int
      BY <1>1
    <3>2. QED
      BY <1>1, <1>4, <2>1, <3>1
  <2>3. q \notin f[r] /\ q \in f[q]
    BY <1>1, <1>4, <2>1
  <2>4. QED
    BY <1>3, <2>2, <2>3
<1>5. QED
  BY <1>4

LEMMA SmallestElement ==
  ASSUME NEW S, IsFiniteSet(S), S # {}
  PROVE  S \subseteq Int => \E m \in S : \A r \in S : m <= r
<1>1. PICK f : f = [q \in S |-> {r \in S : r <= q}]
  OBVIOUS
<1>2. f \in [S -> SUBSET S]
  BY <1>1
<1>3. PICK q \in S : \A r \in S : f[r] \subseteq f[q] => f[r] = f[q]
  BY <1>2, MinimalMember
<1> HAVE S \subseteq Int
<1>4. ASSUME NEW r \in S, ~ (q <= r)
      PROVE  FALSE
  <2>1. r \in Int /\ q \in Int
    OBVIOUS
  <2>2. ASSUME NEW x \in f[r] PROVE x \in f[q]
    <3>1. x \in S /\ x \in Int
      BY <1>1
    <3>2. QED
      BY <1>1, <1>4, <2>1, <3>1
  <2>3. q \notin f[r] /\ q \in f[q]
    BY <1>1, <1>4, <2>1
  <2>4. QED
    BY <1>3, <2>2, <2>3
<1>5. QED
  BY <1>4

\* How many elements of S lie below q.
RankIn(S, q) == Cardinality({r \in S : r < q})

\* In a finite set of integers no rank is left out below another one.
LEMMA RanksHaveNoGaps ==
  ASSUME NEW S, S \subseteq Int, IsFiniteSet(S), NEW k \in Nat, NEW p \in S,
         RankIn(S, p) >= k
  PROVE  \E q \in S : RankIn(S, q) = k
<1> USE DEF RankIn
<1> DEFINE Under(q) == {r \in S : r < q}
           High == {q \in S : Cardinality(Under(q)) >= k}
<1>1. \A q \in S : IsFiniteSet(Under(q)) /\ Cardinality(Under(q)) \in Nat
  <2>1. \A q \in S : Under(q) \subseteq S
    OBVIOUS
  <2>2. QED
    BY <2>1, FS_Subset, FS_CardinalityType
<1>2. PICK q \in High : \A r \in High : q <= r
  <2>1. IsFiniteSet(High) /\ High \subseteq Int /\ High # {}
    <3>1. High \subseteq S
      OBVIOUS
    <3>2. QED
      BY <3>1, FS_Subset
  <2> HIDE DEF High
  <2>2. QED
    BY <2>1, SmallestElement
<1>3. CASE Under(q) = {}
  BY <1>3, FS_EmptySet
<1>4. CASE Under(q) # {}
  <2>1. PICK m \in Under(q) : \A r \in Under(q) : r <= m
    <3>1. Under(q) \subseteq Int /\ IsFiniteSet(Under(q))
      BY <1>1
    <3> HIDE DEF Under
    <3>2. QED
      BY <1>4, <3>1, LargestElement
  <2>2. m \in S /\ m < q /\ m \in Int /\ q \in Int /\ S \subseteq Int
    BY <2>1
  <2>3. m \notin Under(m)
    BY <2>2
  <2>4. Under(q) = Under(m) \cup {m}
    <3>1. ASSUME NEW r \in S PROVE r < q <=> r < m \/ r = m
      BY <2>1, <2>2
    <3>2. QED
      BY <2>2, <3>1
  <2>5. Cardinality(Under(q)) = Cardinality(Under(m)) + 1
    <3>1. IsFiniteSet(Under(m))
      BY <1>1, <2>2
    <3> HIDE DEF Under
    <3>2. QED
      BY <2>3, <2>4, <3>1, FS_AddElement
  <2>6. m \notin High
    BY <1>2, <2>2
  <2>7. Cardinality(Under(m)) < k
    BY <1>1, <2>2, <2>6
  <2>8. Cardinality(Under(q)) = k
    <3> HIDE DEF Under
    <3>1. Cardinality(Under(q)) >= k
      BY <1>2
    <3>2. Cardinality(Under(m)) \in Nat /\ Cardinality(Under(q)) \in Nat
      BY <1>1, <1>2, <2>2
    <3>3. QED
      BY <2>5, <2>7, <3>1, <3>2
  <2>9. QED
    BY <2>8
<1>5. QED
  BY <1>3, <1>4
=============================================================================
