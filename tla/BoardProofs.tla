---------------------------- MODULE BoardProofs -----------------------------
(***************************************************************************)
(* Theorems about Board, for a board of any size, any letters, scores and  *)
(* layouts: what Board::score adds up by scanning is what the rules say,   *)
(* and the order of the tiles does not matter.                             *)
(*                                                                         *)
(* The sums and products are folds of the community modules, which pick    *)
(* the elements of a set in an order that nothing is known of.  The first  *)
(* part shows for any commutative operation that the order is irrelevant,  *)
(* that elements may go by other names, and that those which add nothing   *)
(* may be left out, each by a least set for which it would not hold.  The  *)
(* second shows that a scan reads the cells of a word, each once; the      *)
(* third that the tiles of a play are what the rules see on the board.     *)
(***************************************************************************)
EXTENDS Board, FiniteSetTheorems, SequenceTheorems, TLAPS

-----------------------------------------------------------------------------
(* Folds.                                                                  *)

(* A set of subsets of a finite set has a least one, and a set of natural  *)
(* numbers a least number: what the proofs below use for induction.        *)
LEMMA LeastSet ==
  ASSUME NEW S, IsFiniteSet(S), NEW B \in SUBSET SUBSET S, B # {}
  PROVE  \E T \in B : \A U \in B : U \subseteq T => U = T
<1>1. /\ IsWellFoundedOn(StrictSubsetOrdering(S), FiniteSubsetsOf(S))
      /\ FiniteSubsetsOf(S) = SUBSET S
  BY FS_StrictSubsetOrderingWellFounded, FS_FiniteSubsetsOfFinite
<1>2. PICK T \in B : \A U \in B : ~(<<U, T>> \in StrictSubsetOrdering(S))
  BY <1>1, WFMin
<1>3. QED BY <1>2 DEF StrictSubsetOrdering

LEMMA Least == ASSUME NEW T \in SUBSET Nat, T # {}
               PROVE  \E x \in T : \A y \in T : x <= y
<1>1. PICK x \in T : \A y \in T : ~(<<y, x>> \in OpToRel(<, Nat))
  BY NatLessThanWellFounded, WFMin
<1>2. \A y \in T : <<y, x>> \in OpToRel(<, Nat) <=> y < x
  BY DEF OpToRel
<1>3. ASSUME NEW y \in T PROVE x <= y
  <2>1. ~(y < x) /\ x \in Nat /\ y \in Nat
    BY <1>1, <1>2
  <2>2. QED BY <2>1
<1>4. QED BY <1>3

(* A commutative way to add up numbers, with e for none.                   *)
Adds(op, e) ==
  /\ e \in Int
  /\ op \in [Int -> [Int -> Int]]
  /\ \A a, b, c \in Int : op[a][op[b][c]] = op[b][op[a][c]]
  /\ \A a \in Int : op[e][a] = a

LEMMA AddsType ==
  ASSUME NEW op, NEW e, Adds(op, e), NEW a \in Int, NEW b \in Int
  PROVE  op[a][b] \in Int
BY DEF Adds

LEMMA AddsNone ==
  ASSUME NEW op, NEW e, Adds(op, e), NEW a \in Int
  PROVE  op[e][a] = a
BY DEF Adds

LEMMA AddsSwap ==
  ASSUME NEW op, NEW e, Adds(op, e), NEW a \in Int, NEW b \in Int, NEW c \in Int
  PROVE  op[a][op[b][c]] = op[b][op[a][c]]
BY DEF Adds

(* The recursion that the folds choose a solution of: op[a][b] is what a   *)
(* and b add up to.                                                        *)
Pick(s) == CHOOSE x \in s : TRUE
Step(op, e, f, g, s) == IF s = {} THEN e ELSE op[f[Pick(s)]][g[s \ {Pick(s)}]]
Recur(op, e, f, g) == g = [s \in SUBSET DOMAIN f |-> Step(op, e, f, g, s)]
Total(op, e, f) == (CHOOSE g : Recur(op, e, f, g))[DOMAIN f]

LEMMA PickIn == ASSUME NEW s, s # {} PROVE Pick(s) \in s
BY DEF Pick

(* It has a solution.                                                      *)
LEMMA RecurExists == ASSUME NEW op, NEW e, NEW f, IsFiniteSet(DOMAIN f)
                     PROVE  \E g : Recur(op, e, f, g)
<1> DEFINE S == DOMAIN f
           Fits(g, n) ==
             /\ g = [s \in SUBSET S |-> g[s]]
             /\ \A s \in SUBSET S :
                  Cardinality(s) <= n => g[s] = Step(op, e, f, g, s)
           N == {n \in Nat : ~\E g : Fits(g, n)}
<1>1. \A s \in SUBSET S : /\ IsFiniteSet(s)
                           /\ Cardinality(s) \in Nat /\ Cardinality(s) <= Cardinality(S)
  BY FS_Subset, FS_CardinalityType
<1>2. N = {}
  <2> SUFFICES ASSUME N # {} PROVE FALSE
    OBVIOUS
  <2>1. PICK n \in N : \A m \in N : n <= m
    BY Least
  <2>2. n # 0
    <3> DEFINE g == [s \in SUBSET S |-> e]
    <3>1. ASSUME NEW s \in SUBSET S, Cardinality(s) <= 0
          PROVE  g[s] = Step(op, e, f, g, s)
      BY <1>1, <3>1, FS_EmptySet DEF Step
    <3>2. Fits(g, 0)
      BY <3>1
    <3>3. QED BY <3>2
  <2>3. PICK g : Fits(g, n - 1)
    <3> HIDE DEF Fits
    <3>1. n \in Nat /\ n - 1 \in Nat /\ ~(n <= n - 1)
      BY <2>1, <2>2
    <3>2. n - 1 \notin N
      BY <2>1, <3>1
    <3>3. QED BY <3>1, <3>2
  <2> DEFINE h == [s \in SUBSET S |->
                     IF Cardinality(s) = n THEN Step(op, e, f, g, s) ELSE g[s]]
  <2>4. ASSUME NEW s \in SUBSET S, Cardinality(s) <= n
        PROVE  h[s] = Step(op, e, f, h, s)
    <3>0. /\ n \in Nat /\ Cardinality(s) \in Nat
          /\ h[s] = IF Cardinality(s) = n THEN Step(op, e, f, g, s) ELSE g[s]
      BY <1>1, <2>1
    <3>1. h[s] = Step(op, e, f, g, s)
      <4>1. CASE Cardinality(s) = n
        BY <3>0, <4>1
      <4>2. CASE Cardinality(s) # n
        <5>1. Cardinality(s) <= n - 1
          BY <2>4, <3>0, <4>2
        <5>2. QED BY <2>3, <3>0, <4>2, <5>1
      <4>3. QED BY <4>1, <4>2
    <3>2. CASE s = {}
      BY <3>1, <3>2 DEF Step
    <3>3. CASE s # {}
      <4>1. s \ {Pick(s)} \in SUBSET S /\ Cardinality(s \ {Pick(s)}) = Cardinality(s) - 1
        BY <1>1, <3>3, PickIn, FS_RemoveElement
      <4>2. h[s \ {Pick(s)}] = g[s \ {Pick(s)}]
        <5>1. h[s \ {Pick(s)}] = IF Cardinality(s \ {Pick(s)}) = n
                               THEN Step(op, e, f, g, s \ {Pick(s)}) ELSE g[s \ {Pick(s)}]
          BY <4>1
        <5>2. QED BY <2>4, <3>0, <4>1, <5>1
      <4>3. QED BY <3>1, <3>3, <4>2 DEF Step
    <3>4. QED BY <3>2, <3>3
  <2>5. Fits(h, n)
    BY <2>4
  <2>6. QED BY <2>5
<1>3. Cardinality(S) \in Nat
  BY <1>1
<1>4. PICK g : Fits(g, Cardinality(S))
  BY <1>2, <1>3
<1>5. \A s \in SUBSET S : g[s] = Step(op, e, f, g, s)
  BY <1>1, <1>4
<1>6. g = [s \in SUBSET S |-> Step(op, e, f, g, s)]
  BY <1>4, <1>5
<1>7. QED BY <1>6 DEF Recur

(* What is added up over the subsets of the domain of f.                   *)
Sums(op, e, f, g) ==
  /\ g \in [SUBSET DOMAIN f -> Int]
  /\ g[{}] = e
  /\ \A T \in SUBSET DOMAIN f : \A x \in T : g[T] = op[f[x]][g[T \ {x}]]

Numbers(f) == IsFiniteSet(DOMAIN f) /\ f \in [DOMAIN f -> Int]

(* Whatever is picked first.                                               *)
LEMMA TotalSums ==
  ASSUME NEW op, NEW e, Adds(op, e), NEW f, Numbers(f)
  PROVE  \E g : /\ Recur(op, e, f, g) /\ Sums(op, e, f, g)
                /\ Total(op, e, f) = g[DOMAIN f]
<1> DEFINE S == DOMAIN f
           g == CHOOSE g : Recur(op, e, f, g)
<1>1. Recur(op, e, f, g)
  BY RecurExists DEF Numbers
<1> HIDE DEF g
<1>2. \A s \in SUBSET S : g[s] = Step(op, e, f, g, s)
  BY <1>1 DEF Recur
<1>3. \A x \in S : f[x] \in Int
  BY DEF Numbers
<1>4. \A T \in SUBSET S : g[T] \in Int
  <2> DEFINE B == {T \in SUBSET S : g[T] \notin Int}
  <2> SUFFICES ASSUME B # {} PROVE FALSE
    OBVIOUS
  <2>1. PICK T \in B : \A U \in B : U \subseteq T => U = T
    <3>1. B \in SUBSET SUBSET S /\ IsFiniteSet(S)
      BY DEF Numbers
    <3> HIDE DEF B
    <3>2. QED BY <3>1, LeastSet
  <2>2. T # {}
    <3>1. g[{}] = e
      BY <1>2 DEF Step
    <3>2. QED BY <2>1, <3>1 DEF Adds
  <2>3. Pick(T) \in T /\ T \ {Pick(T)} \in SUBSET S /\ f[Pick(T)] \in Int
    BY <1>3, <2>1, <2>2, PickIn
  <2>4. T \ {Pick(T)} \notin B
    BY <2>1, <2>3
  <2>5. g[T \ {Pick(T)}] \in Int
    BY <2>3, <2>4
  <2>6. g[T] = op[f[Pick(T)]][g[T \ {Pick(T)}]]
    BY <1>2, <2>1, <2>2 DEF Step
  <2>7. g[T] \in Int
    BY <2>3, <2>5, <2>6, AddsType
  <2>8. QED BY <2>1, <2>7
<1>5. ASSUME NEW T \in SUBSET S, NEW x \in T PROVE g[T] = op[f[x]][g[T \ {x}]]
  <2> DEFINE B == {U \in SUBSET S : \E y \in U : g[U] # op[f[y]][g[U \ {y}]]}
  <2> SUFFICES ASSUME B # {} PROVE FALSE
    BY <1>5
  <2>1. PICK U \in B : \A V \in B : V \subseteq U => V = U
    <3>1. B \in SUBSET SUBSET S /\ IsFiniteSet(S)
      BY DEF Numbers
    <3> HIDE DEF B
    <3>2. QED BY <3>1, LeastSet
  <2>2. PICK y \in U : g[U] # op[f[y]][g[U \ {y}]]
    BY <2>1
  <2> DEFINE p == Pick(U)
  <2>3. U \in SUBSET S /\ p \in U /\ g[U] = op[f[p]][g[U \ {p}]]
    BY <1>2, <2>1, <2>2, PickIn DEF Step
  <2> HIDE DEF p
  <2>4. p # y
    BY <2>2, <2>3
  <2>5. U \ {p} \notin B /\ U \ {y} \notin B
    BY <2>1, <2>2, <2>3
  <2> DEFINE r == (U \ {p}) \ {y}
  <2>6. /\ U \ {p} \in SUBSET S /\ U \ {y} \in SUBSET S /\ r \in SUBSET S
        /\ y \in U \ {p} /\ p \in U \ {y} /\ (U \ {y}) \ {p} = r
    BY <2>2, <2>3, <2>4
  <2>7. g[U \ {p}] = op[f[y]][g[r]]
    BY <2>5, <2>6
  <2>8. g[U \ {y}] = op[f[p]][g[r]]
    BY <2>5, <2>6
  <2>9. f[p] \in Int /\ f[y] \in Int /\ g[r] \in Int
    BY <1>3, <1>4, <2>2, <2>3, <2>6
  <2>10. op[f[p]][op[f[y]][g[r]]] = op[f[y]][op[f[p]][g[r]]]
    BY <2>9, AddsSwap
  <2>11. QED BY <2>2, <2>3, <2>7, <2>8, <2>10
<1>6. g[{}] = e
  BY <1>2 DEF Step
<1>7. g \in [SUBSET S -> Int]
  BY <1>1, <1>4 DEF Recur
<1>8. Sums(op, e, f, g)
  BY <1>5, <1>6, <1>7 DEF Sums
<1>9. QED BY <1>1, <1>8 DEF g, Total

(* It is the same in a larger domain.                                      *)
LEMMA SumsSame ==
  ASSUME NEW op, NEW e, NEW f, NEW g, NEW h, NEW i,
         Sums(op, e, f, h), Sums(op, e, g, i),
         NEW S, IsFiniteSet(S), S \subseteq DOMAIN f, S \subseteq DOMAIN g,
         \A x \in S : f[x] = g[x]
  PROVE  h[S] = i[S]
<1> DEFINE B == {U \in SUBSET S : h[U] # i[U]}
<1> SUFFICES ASSUME B # {} PROVE FALSE
  OBVIOUS
<1>1. PICK U \in B : \A V \in B : V \subseteq U => V = U
  <2>1. B \in SUBSET SUBSET S
    OBVIOUS
  <2> HIDE DEF B
  <2>2. QED BY <2>1, LeastSet
<1>2. U # {}
  BY <1>1 DEF Sums
<1>3. PICK x \in U : TRUE
  BY <1>2
<1>4. U \ {x} \notin B /\ U \ {x} \in SUBSET S
  BY <1>1, <1>3
<1>5. h[U \ {x}] = i[U \ {x}]
  BY <1>4
<1>6. h[U] = op[f[x]][h[U \ {x}]]
  BY <1>1, <1>3 DEF Sums
<1>7. i[U] = op[g[x]][i[U \ {x}]]
  BY <1>1, <1>3 DEF Sums
<1>8. f[x] = g[x]
  BY <1>1, <1>3
<1>9. QED BY <1>1, <1>5, <1>6, <1>7, <1>8

(* One number more or less.                                                *)
LEMMA TotalFacts ==
  ASSUME NEW op, NEW e, Adds(op, e), NEW f, Numbers(f)
  PROVE  /\ Total(op, e, f) \in Int
         /\ DOMAIN f = {} => Total(op, e, f) = e
<1>1. PICK g : Sums(op, e, f, g) /\ Total(op, e, f) = g[DOMAIN f]
  BY TotalSums
<1>2. QED BY <1>1 DEF Sums

LEMMA TotalMore ==
  ASSUME NEW op, NEW e, Adds(op, e), NEW f, Numbers(f), NEW x \in DOMAIN f
  PROVE  Total(op, e, f) = op[f[x]][Total(op, e, Restrict(f, DOMAIN f \ {x}))]
<1>0. PICK g : Sums(op, e, f, g) /\ Total(op, e, f) = g[DOMAIN f]
  BY TotalSums
<1> DEFINE S == DOMAIN f \ {x}
           r == Restrict(f, S)
<1>1. Numbers(r) /\ DOMAIN r = S /\ IsFiniteSet(S) /\ \A y \in S : f[y] = r[y]
  BY FS_RemoveElement DEF Numbers, Restrict
<1>2. PICK h : Sums(op, e, r, h) /\ Total(op, e, r) = h[S]
  BY <1>1, TotalSums
<1>3. h[S] = g[S]
  <2>1. S \subseteq DOMAIN f
    OBVIOUS
  <2> HIDE DEF S, r
  <2>2. QED BY <1>0, <1>1, <1>2, <2>1, SumsSame
<1>4. Total(op, e, f) = op[f[x]][g[S]]
  BY <1>0 DEF Sums
<1>5. QED BY <1>2, <1>3, <1>4

(* h names each element of the domain of f once.                           *)
Names(h, T, S) ==
  /\ h \in [T -> S]
  /\ \A x, y \in T : h[x] = h[y] => x = y
  /\ \A z \in S : \E x \in T : h[x] = z

(* The total is the same by other names.                                   *)
LEMMA TotalRenamed ==
  ASSUME NEW op, NEW e, Adds(op, e), NEW f, Numbers(f),
         NEW T, IsFiniteSet(T), NEW h, Names(h, T, DOMAIN f)
  PROVE  Total(op, e, [x \in T |-> f[h[x]]]) = Total(op, e, f)
<1> DEFINE S == DOMAIN f
           k == [x \in T |-> f[h[x]]]
           Img(U) == {h[x] : x \in U}
<1>1. Numbers(k) /\ DOMAIN k = T /\ \A x \in T : k[x] = f[h[x]] /\ h[x] \in S
  BY DEF Numbers, Names
<1>2. PICK i : Sums(op, e, k, i) /\ Total(op, e, k) = i[T]
  BY <1>1, TotalSums
<1>3. PICK j : Sums(op, e, f, j) /\ Total(op, e, f) = j[S]
  BY TotalSums
<1>4. Img(T) = S
  BY DEF Names
<1> HIDE DEF k, S
<1>5. i[T] = j[Img(T)]
  <2> DEFINE B == {U \in SUBSET T : i[U] # j[Img(U)]}
  <2> SUFFICES ASSUME B # {} PROVE FALSE
    OBVIOUS
  <2>1. PICK U \in B : \A V \in B : V \subseteq U => V = U
    <3>1. B \in SUBSET SUBSET T
      OBVIOUS
    <3> HIDE DEF B
    <3>2. QED BY <3>1, LeastSet
  <2>2. U # {}
    <3>1. i[{}] = j[{}] /\ Img({}) = {}
      BY <1>2, <1>3 DEF Sums
    <3>2. QED BY <2>1, <3>1
  <2>3. PICK x \in U : TRUE
    BY <2>2
  <2>4. i[U \ {x}] = j[Img(U \ {x})]
    BY <2>1, <2>3
  <2>5. i[U] = op[k[x]][i[U \ {x}]]
    BY <1>1, <1>2, <2>1, <2>3 DEF Sums
  <2>6. Img(U) \in SUBSET S /\ h[x] \in Img(U) /\ Img(U) \ {h[x]} = Img(U \ {x})
    BY <1>1, <2>1, <2>3 DEF Names
  <2>7. j[Img(U)] = op[f[h[x]]][j[Img(U) \ {h[x]}]]
    BY <1>3, <2>6 DEF Sums, S
  <2>8. k[x] = f[h[x]]
    BY <1>1, <2>1, <2>3
  <2>9. QED BY <2>1, <2>4, <2>5, <2>6, <2>7, <2>8
<1>6. QED BY <1>2, <1>3, <1>4, <1>5 DEF k, S

(* Numbers that do not count may be left out.                              *)
LEMMA TotalWithin ==
  ASSUME NEW op, NEW e, Adds(op, e), NEW f, Numbers(f), NEW A \in SUBSET DOMAIN f,
         \A x \in DOMAIN f \ A : f[x] = e
  PROVE  Total(op, e, f) = Total(op, e, Restrict(f, A))
<1> DEFINE S == DOMAIN f
           r == Restrict(f, A)
<1>1. Numbers(r) /\ DOMAIN r = A /\ IsFiniteSet(A) /\ \A x \in A : f[x] = r[x]
  BY FS_Subset DEF Numbers, Restrict
<1>2. PICK i : Sums(op, e, f, i) /\ Total(op, e, f) = i[S]
  BY TotalSums
<1>3. PICK j : Sums(op, e, r, j) /\ Total(op, e, r) = j[A]
  BY <1>1, TotalSums
<1> HIDE DEF r
<1>4. i[A] = j[A]
  BY <1>1, <1>2, <1>3, SumsSame
<1>5. i[S] = i[S \cap A]
  <2> DEFINE B == {U \in SUBSET S : i[U] # i[U \cap A]}
  <2> SUFFICES ASSUME B # {} PROVE FALSE
    OBVIOUS
  <2>1. PICK U \in B : \A V \in B : V \subseteq U => V = U
    <3>1. B \in SUBSET SUBSET S /\ IsFiniteSet(S)
      BY DEF Numbers
    <3> HIDE DEF B
    <3>2. QED BY <3>1, LeastSet
  <2>2. PICK x \in U : TRUE
    <3>1. {} \cap A = {}
      OBVIOUS
    <3>2. QED BY <2>1, <3>1
  <2>3. i[U \ {x}] = i[(U \ {x}) \cap A]
    BY <2>1, <2>2
  <2>4. i[U] = op[f[x]][i[U \ {x}]]
    BY <1>2, <2>1, <2>2 DEF Sums
  <2>5. CASE x \in A
    <3>1. U \cap A \in SUBSET S /\ x \in U \cap A /\ (U \cap A) \ {x} = (U \ {x}) \cap A
      BY <2>1, <2>2, <2>5
    <3>2. i[U \cap A] = op[f[x]][i[(U \cap A) \ {x}]]
      BY <1>2, <3>1 DEF Sums
    <3>3. QED BY <2>1, <2>3, <2>4, <3>1, <3>2
  <2>6. CASE x \notin A
    <3>1. f[x] = e /\ (U \ {x}) \cap A = U \cap A
      BY <2>1, <2>2, <2>6
    <3>2. i[U \ {x}] \in Int
      <4>1. U \ {x} \in SUBSET S
        BY <2>1
      <4>2. QED BY <1>2, <4>1 DEF Sums
    <3>3. op[e][i[U \ {x}]] = i[U \ {x}]
      BY <3>2, AddsNone
    <3>4. QED BY <2>1, <2>3, <2>4, <3>1, <3>3
  <2>7. QED BY <2>5, <2>6
<1>6. S \cap A = A
  OBVIOUS
<1>7. QED BY <1>2, <1>3, <1>4, <1>5, <1>6 DEF r

-----------------------------------------------------------------------------
(* The two ways to add up numbers.                                         *)

Plus  == [a \in Int |-> [b \in Int |-> a + b]]
Times == [a \in Int |-> [b \in Int |-> a * b]]

(* Sums and products are both such ways.                                   *)
LEMMA PlusAdds == Adds(Plus, 0) /\ \A a, b \in Int : Plus[a][b] = a + b
<1>1. \A a, b \in Int : Plus[a][b] = a + b
  BY DEF Plus
<1>2. Plus \in [Int -> [Int -> Int]]
  BY DEF Plus
<1>3. ASSUME NEW a \in Int, NEW b \in Int, NEW c \in Int
      PROVE  Plus[a][Plus[b][c]] = Plus[b][Plus[a][c]]
  <2>1. a + c \in Int /\ b + c \in Int /\ a + (b + c) = b + (a + c)
    OBVIOUS
  <2>2. Plus[a][b + c] = a + (b + c) /\ Plus[b][a + c] = b + (a + c)
    BY <1>1, <2>1
  <2>3. Plus[b][c] = b + c /\ Plus[a][c] = a + c
    BY <1>1
  <2>4. QED BY <2>1, <2>2, <2>3
<1>4. ASSUME NEW a \in Int PROVE Plus[0][a] = a
  <2>1. ASSUME NEW z \in Int, z = 0 PROVE Plus[z][a] = a
    <3>1. Plus[z][a] = z + a
      BY <1>1
    <3>2. QED BY <2>1, <3>1
  <2>2. QED BY <2>1
<1>5. QED BY <1>1, <1>2, <1>3, <1>4 DEF Adds

LEMMA TimesAdds == Adds(Times, 1) /\ \A a, b \in Int : Times[a][b] = a * b
<1>1. \A a, b \in Int : Times[a][b] = a * b
  BY DEF Times
<1>2. Times \in [Int -> [Int -> Int]]
  <2>1. \A a, b \in Int : a * b \in Int
    OBVIOUS
  <2>2. QED BY <2>1 DEF Times
<1>3. ASSUME NEW a \in Int, NEW b \in Int, NEW c \in Int
      PROVE  Times[a][Times[b][c]] = Times[b][Times[a][c]]
  <2>1. a * c \in Int /\ b * c \in Int /\ a * (b * c) = b * (a * c)
    OBVIOUS
  <2>2. Times[a][b * c] = a * (b * c) /\ Times[b][a * c] = b * (a * c)
    BY <1>1, <2>1
  <2>3. Times[b][c] = b * c /\ Times[a][c] = a * c
    BY <1>1
  <2>4. QED BY <2>1, <2>2, <2>3
<1>4. ASSUME NEW a \in Int PROVE Times[1][a] = a
  <2>1. ASSUME NEW z \in Int, z = 1 PROVE Times[z][a] = a
    <3>1. Times[z][a] = z * a
      BY <1>1
    <3>2. QED BY <2>1, <3>1
  <2>2. QED BY <2>1
<1>5. QED BY <1>1, <1>2, <1>3, <1>4 DEF Adds

(* What the folds of FiniteSetsExt and Functions compute is the total.     *)
LEMMA SumIsTotal ==
  ASSUME NEW f, Numbers(f)
  PROVE  SumFunction(f) = Total(Plus, 0, f)
<1> DEFINE S == DOMAIN f
           k == CHOOSE k : k = [s \in SUBSET S |->
                  IF s = {} THEN 0 ELSE f[Pick(s)] + k[s \ {Pick(s)}]]
<1>1. SumFunction(f) = k[S]
  <2>1. f = [x \in S |-> f[x]]
    BY DEF Numbers
  <2>2. QED BY <2>1 DEF SumFunction, SumFunctionOnSet, FoldFunctionOnSet,
                        MapThenFoldSet, Pick
<1>2. PICK g : /\ Recur(Plus, 0, f, g) /\ Sums(Plus, 0, f, g)
               /\ Total(Plus, 0, f) = g[S]
  BY TotalSums, PlusAdds
<1>3. ASSUME NEW s \in SUBSET S
      PROVE  g[s] = IF s = {} THEN 0 ELSE f[Pick(s)] + g[s \ {Pick(s)}]
  <2>1. g[s] = Step(Plus, 0, f, g, s)
    BY <1>2 DEF Recur
  <2>2. CASE s = {}
    BY <2>1, <2>2 DEF Step
  <2>3. CASE s # {}
    <3>1. Pick(s) \in s /\ s \ {Pick(s)} \in SUBSET S
      BY <2>3, PickIn
    <3>2. f[Pick(s)] \in Int /\ g[s \ {Pick(s)}] \in Int
      BY <1>2, <3>1 DEF Numbers, Sums
    <3>3. g[s] = Plus[f[Pick(s)]][g[s \ {Pick(s)}]]
      BY <2>1, <2>3 DEF Step
    <3>4. QED BY <2>3, <3>2, <3>3, PlusAdds
  <2>4. QED BY <2>2, <2>3
<1>4. g = [s \in SUBSET S |-> IF s = {} THEN 0 ELSE f[Pick(s)] + g[s \ {Pick(s)}]]
  BY <1>2, <1>3 DEF Sums
<1>5. k = [s \in SUBSET S |-> IF s = {} THEN 0 ELSE f[Pick(s)] + k[s \ {Pick(s)}]]
  BY <1>4
<1> HIDE DEF k
<1>6. k[S] = g[S]
  <2> DEFINE B == {U \in SUBSET S : k[U] # g[U]}
  <2> SUFFICES ASSUME B # {} PROVE FALSE
    OBVIOUS
  <2>1. PICK U \in B : \A V \in B : V \subseteq U => V = U
    <3>1. B \in SUBSET SUBSET S /\ IsFiniteSet(S)
      BY DEF Numbers
    <3> HIDE DEF B
    <3>2. QED BY <3>1, LeastSet
  <2>2. U # {} /\ k[U] = f[Pick(U)] + k[U \ {Pick(U)}]
    BY <1>3, <1>5, <2>1
  <2>3. Pick(U) \in U
    BY <2>2, PickIn
  <2>4. k[U \ {Pick(U)}] = g[U \ {Pick(U)}]
    BY <2>1, <2>3
  <2>5. g[U] = f[Pick(U)] + g[U \ {Pick(U)}]
    BY <1>3, <2>1, <2>2
  <2>6. QED BY <2>1, <2>2, <2>4, <2>5
<1>7. QED BY <1>1, <1>2, <1>6

LEMMA ProductIsTotal ==
  ASSUME NEW f, Numbers(f)
  PROVE  Product(f) = Total(Times, 1, f)
<1> DEFINE S == DOMAIN f
           k == CHOOSE k : k = [s \in SUBSET S |->
                  IF s = {} THEN 1 ELSE f[Pick(s)] * k[s \ {Pick(s)}]]
<1>1. Product(f) = k[S]
  <2>1. f = [x \in S |-> f[x]]
    BY DEF Numbers
  <2>2. QED BY <2>1 DEF Product, FoldFunction, FoldFunctionOnSet,
                        MapThenFoldSet, Pick
<1>2. PICK g : /\ Recur(Times, 1, f, g) /\ Sums(Times, 1, f, g)
               /\ Total(Times, 1, f) = g[S]
  BY TotalSums, TimesAdds
<1>3. ASSUME NEW s \in SUBSET S
      PROVE  g[s] = IF s = {} THEN 1 ELSE f[Pick(s)] * g[s \ {Pick(s)}]
  <2>1. g[s] = Step(Times, 1, f, g, s)
    BY <1>2 DEF Recur
  <2>2. CASE s = {}
    BY <2>1, <2>2 DEF Step
  <2>3. CASE s # {}
    <3>1. Pick(s) \in s /\ s \ {Pick(s)} \in SUBSET S
      BY <2>3, PickIn
    <3>2. f[Pick(s)] \in Int /\ g[s \ {Pick(s)}] \in Int
      BY <1>2, <3>1 DEF Numbers, Sums
    <3>3. g[s] = Times[f[Pick(s)]][g[s \ {Pick(s)}]]
      BY <2>1, <2>3 DEF Step
    <3>4. QED BY <2>3, <3>2, <3>3, TimesAdds
  <2>4. QED BY <2>2, <2>3
<1>4. g = [s \in SUBSET S |-> IF s = {} THEN 1 ELSE f[Pick(s)] * g[s \ {Pick(s)}]]
  BY <1>2, <1>3 DEF Sums
<1>5. k = [s \in SUBSET S |-> IF s = {} THEN 1 ELSE f[Pick(s)] * k[s \ {Pick(s)}]]
  BY <1>4
<1> HIDE DEF k
<1>6. k[S] = g[S]
  <2> DEFINE B == {U \in SUBSET S : k[U] # g[U]}
  <2> SUFFICES ASSUME B # {} PROVE FALSE
    OBVIOUS
  <2>1. PICK U \in B : \A V \in B : V \subseteq U => V = U
    <3>1. B \in SUBSET SUBSET S /\ IsFiniteSet(S)
      BY DEF Numbers
    <3> HIDE DEF B
    <3>2. QED BY <3>1, LeastSet
  <2>2. U # {} /\ k[U] = f[Pick(U)] * k[U \ {Pick(U)}]
    BY <1>3, <1>5, <2>1
  <2>3. Pick(U) \in U
    BY <2>2, PickIn
  <2>4. k[U \ {Pick(U)}] = g[U \ {Pick(U)}]
    BY <2>1, <2>3
  <2>5. g[U] = f[Pick(U)] * g[U \ {Pick(U)}]
    BY <1>3, <2>1, <2>2
  <2>6. QED BY <2>1, <2>2, <2>4, <2>5
<1>7. QED BY <1>1, <1>2, <1>6

-----------------------------------------------------------------------------
(* Sums and products.                                                      *)

LEMMA SumFacts ==
  ASSUME NEW f, Numbers(f)
  PROVE  SumFunction(f) \in Int /\ (DOMAIN f = {} => SumFunction(f) = 0)
BY SumIsTotal, PlusAdds, TotalFacts

LEMMA ProductType == ASSUME NEW f, Numbers(f) PROVE Product(f) \in Int
BY ProductIsTotal, TimesAdds, TotalFacts

(* By other names.                                                         *)
LEMMA SumRenamed ==
  ASSUME NEW f, Numbers(f), NEW T, IsFiniteSet(T), NEW h, Names(h, T, DOMAIN f)
  PROVE  SumFunction([x \in T |-> f[h[x]]]) = SumFunction(f)
<1>1. Numbers([x \in T |-> f[h[x]]])
  BY DEF Numbers, Names
<1>2. QED BY <1>1, SumIsTotal, PlusAdds, TotalRenamed

LEMMA ProductRenamed ==
  ASSUME NEW f, Numbers(f), NEW T, IsFiniteSet(T), NEW h, Names(h, T, DOMAIN f)
  PROVE  Product([x \in T |-> f[h[x]]]) = Product(f)
<1>1. Numbers([x \in T |-> f[h[x]]])
  BY DEF Numbers, Names
<1>2. QED BY <1>1, ProductIsTotal, TimesAdds, TotalRenamed

(* Without those that are zero.                                            *)
LEMMA SumWithin ==
  ASSUME NEW f, Numbers(f), NEW A \in SUBSET DOMAIN f,
         \A x \in DOMAIN f \ A : f[x] = 0
  PROVE  SumFunction(f) = SumFunction([x \in A |-> f[x]])
<1>1. Numbers(Restrict(f, A))
  BY FS_Subset DEF Numbers, Restrict
<1>2. SumFunction(f) = SumFunction(Restrict(f, A))
  BY <1>1, SumIsTotal, PlusAdds, TotalWithin
<1>3. QED BY <1>2 DEF Restrict

LEMMA SumOfNone ==
  ASSUME NEW f, Numbers(f), \A x \in DOMAIN f : f[x] = 0
  PROVE  SumFunction(f) = 0
<1>1. {} \in SUBSET DOMAIN f /\ \A x \in DOMAIN f \ {} : f[x] = 0
  OBVIOUS
<1>2. SumFunction(f) = SumFunction([x \in {} |-> f[x]])
  BY <1>1, SumWithin
<1>3. Numbers([x \in {} |-> f[x]])
  BY FS_EmptySet DEF Numbers
<1>4. SumFunction([x \in {} |-> f[x]]) = 0
  BY <1>3, SumFacts
<1>5. QED BY <1>2, <1>4

(* Of a single number.                                                    *)
LEMMA SumOfOne ==
  ASSUME NEW c, NEW n \in Int
  PROVE  SumFunction([x \in {c} |-> n]) = n
<1> DEFINE f == [x \in {c} |-> n]
           r == Restrict(f, DOMAIN f \ {c})
<1>1. Numbers(f) /\ Numbers(r) /\ DOMAIN r = {} /\ c \in DOMAIN f /\ f[c] = n
  BY FS_Singleton, FS_EmptySet DEF Numbers, Restrict
<1> HIDE DEF f
<1>2. Total(Plus, 0, f) = Plus[f[c]][Total(Plus, 0, r)]
  <2>1. Adds(Plus, 0)
    BY PlusAdds
  <2>2. Numbers(f) /\ c \in DOMAIN f
    BY <1>1
  <2>3. QED BY <2>1, <2>2, TotalMore
<1>3. Total(Plus, 0, r) = 0
  <2> HIDE DEF r
  <2>1. QED BY <1>1, TotalFacts, PlusAdds
<1>4. Plus[n][0] = n
  BY PlusAdds
<1>5. SumFunction(f) = n
  BY <1>1, <1>2, <1>3, <1>4, SumIsTotal
<1>6. QED BY <1>5 DEF f

LEMMA ProductOfOne ==
  ASSUME NEW c, NEW n \in Int
  PROVE  Product([x \in {c} |-> n]) = n
<1> DEFINE f == [x \in {c} |-> n]
           r == Restrict(f, DOMAIN f \ {c})
<1>1. Numbers(f) /\ Numbers(r) /\ DOMAIN r = {} /\ c \in DOMAIN f /\ f[c] = n
  BY FS_Singleton, FS_EmptySet DEF Numbers, Restrict
<1> HIDE DEF f
<1>2. Total(Times, 1, f) = Times[f[c]][Total(Times, 1, r)]
  <2>1. Adds(Times, 1)
    BY TimesAdds
  <2>2. Numbers(f) /\ c \in DOMAIN f
    BY <1>1
  <2>3. QED BY <2>1, <2>2, TotalMore
<1>6. Total(Times, 1, r) = 1
  <2> HIDE DEF r
  <2>1. QED BY <1>1, TotalFacts, TimesAdds
<1>3. Times[n][1] = n
  BY TimesAdds
<1>4. Product(f) = n
  BY <1>1, <1>2, <1>3, <1>6, ProductIsTotal
<1>5. QED BY <1>4 DEF f

(* A sum of sums.                                                          *)
LEMMA SumOfBoth ==
  ASSUME NEW f, Numbers(f), NEW g, Numbers(g), DOMAIN g = DOMAIN f
  PROVE  SumFunction([x \in DOMAIN f |-> f[x] + g[x]])
           = SumFunction(f) + SumFunction(g)
<1> DEFINE S == DOMAIN f
           k == [x \in S |-> f[x] + g[x]]
<1>1. /\ Numbers(k) /\ DOMAIN k = S
      /\ \A x \in S : f[x] \in Int /\ g[x] \in Int /\ k[x] \in Int /\ k[x] = f[x] + g[x]
  BY DEF Numbers
<1> HIDE DEF k
<1>2. PICK h : Sums(Plus, 0, f, h) /\ SumFunction(f) = h[S]
  BY TotalSums, PlusAdds, SumIsTotal
<1>3. PICK i : Sums(Plus, 0, g, i) /\ SumFunction(g) = i[S]
  BY TotalSums, PlusAdds, SumIsTotal
<1>4. PICK j : Sums(Plus, 0, k, j) /\ SumFunction(k) = j[S]
  BY <1>1, TotalSums, PlusAdds, SumIsTotal
<1>5. j[S] = h[S] + i[S]
  <2> DEFINE B == {U \in SUBSET S : j[U] # h[U] + i[U]}
  <2> SUFFICES ASSUME B # {} PROVE FALSE
    OBVIOUS
  <2>1. PICK U \in B : \A V \in B : V \subseteq U => V = U
    <3>1. B \in SUBSET SUBSET S /\ IsFiniteSet(S)
      BY DEF Numbers
    <3> HIDE DEF B
    <3>2. QED BY <3>1, LeastSet
  <2>2. PICK x \in U : TRUE
    <3>1. j[{}] = h[{}] + i[{}]
      BY <1>2, <1>3, <1>4 DEF Sums
    <3>2. QED BY <2>1, <3>1
  <2> DEFINE V == U \ {x}
  <2>3. x \in S /\ V \in SUBSET S /\ U \in SUBSET S
    BY <2>1
  <2>4. j[V] = h[V] + i[V]
    BY <2>1, <2>2
  <2>5. /\ j[U] = Plus[k[x]][j[V]]
        /\ h[U] = Plus[f[x]][h[V]]
        /\ i[U] = Plus[g[x]][i[V]]
    BY <1>1, <1>2, <1>3, <1>4, <2>2, <2>3 DEF Sums
  <2>6. j[V] \in Int /\ h[V] \in Int /\ i[V] \in Int
    BY <1>1, <1>2, <1>3, <1>4, <2>3 DEF Sums
  <2> HIDE DEF V
  <2>7. /\ j[U] = k[x] + j[V] /\ h[U] = f[x] + h[V] /\ i[U] = g[x] + i[V]
        /\ f[x] \in Int /\ g[x] \in Int /\ k[x] = f[x] + g[x]
    <3>1. f[x] \in Int /\ g[x] \in Int /\ k[x] \in Int /\ k[x] = f[x] + g[x]
      BY <1>1, <2>3
    <3>2. Plus[k[x]][j[V]] = k[x] + j[V]
      BY <2>6, <3>1, PlusAdds
    <3>3. Plus[f[x]][h[V]] = f[x] + h[V]
      BY <2>6, <3>1, PlusAdds
    <3>4. Plus[g[x]][i[V]] = g[x] + i[V]
      BY <2>6, <3>1, PlusAdds
    <3>5. QED BY <2>5, <3>1, <3>2, <3>3, <3>4
  <2>8. j[U] = h[U] + i[U]
    BY <2>4, <2>6, <2>7
  <2>9. QED BY <2>1, <2>8
<1>6. QED BY <1>2, <1>3, <1>4, <1>5 DEF k

-----------------------------------------------------------------------------
(* Lines and words.                                                        *)

Dirs == {"horizontal", "vertical"}
OnBoard == character \in [Cells -> Letters \cup {Blank}]
Value(c) == ScoreOf[character[c]]
Set(dir, k, b) == IsSet(At(dir, k, b))

(* k is between a and x.                                                   *)
Mid(a, k, x) == (a <= k /\ k <= x) \/ (x <= k /\ k <= a)

(* A cell and its two numbers.                                             *)
LEMMA Coordinates ==
  ASSUME NEW dir \in Dirs, NEW a \in Indices, NEW b \in Indices
  PROVE  /\ At(dir, a, b) \in Cells
         /\ Along(dir, At(dir, a, b)) = a /\ Across(dir, At(dir, a, b)) = b
BY DEF Dirs, Cells, At, Along, Across

LEMMA CellAt ==
  ASSUME NEW dir \in Dirs, NEW c \in Cells
  PROVE  /\ Other(dir) \in Dirs
         /\ Along(dir, c) \in Indices /\ Across(dir, c) \in Indices
         /\ c = At(dir, Along(dir, c), Across(dir, c))
         /\ Along(Other(dir), c) = Across(dir, c)
         /\ Across(Other(dir), c) = Along(dir, c)
<1>1. c = <<c[1], c[2]>> /\ c[1] \in Indices /\ c[2] \in Indices
  BY DEF Cells
<1>2. QED BY <1>1 DEF Dirs, Other, At, Along, Across

LEMMA FiniteCells == IsFiniteSet(Cells) /\ \A W \in SUBSET Cells : IsFiniteSet(W)
<1>1. IsFiniteSet(Indices)
  <2>1. 0 \in Int /\ Size - 1 \in Int
    BY BoardAssumption
  <2>2. QED BY <2>1, FS_Interval DEF Indices
<1>2. IsFiniteSet(Cells)
  BY <1>1, FS_Product DEF Cells
<1>3. QED BY <1>2, FS_Subset

(* A word, by the numbers of its cells.                                    *)
LEMMA WordAt ==
  ASSUME NEW dir \in Dirs, NEW a \in Indices, NEW b \in Indices, NEW d
  PROVE  d \in Word(dir, At(dir, a, b)) <=>
           \E x \in Indices : /\ d = At(dir, x, b)
                              /\ \A k \in Indices : Mid(a, k, x) => Set(dir, k, b)
<1> DEFINE c == At(dir, a, b)
<1>1. c \in Cells /\ Along(dir, c) = a /\ Across(dir, c) = b
  BY Coordinates
<1> HIDE DEF c
<1>2. ASSUME NEW x \in Indices
      PROVE  /\ At(dir, x, b) \in Line(dir, c)
             /\ Between(dir, c, At(dir, x, b)) =
                  {At(dir, k, b) : k \in {k \in Indices : Mid(a, k, x)}}
  <2>1. /\ At(dir, x, b) \in Cells
        /\ Along(dir, At(dir, x, b)) = x /\ Across(dir, At(dir, x, b)) = b
    BY Coordinates
  <2>2. \A k \in Indices : /\ At(dir, k, b) \in Cells
                           /\ Along(dir, At(dir, k, b)) = k
                           /\ Across(dir, At(dir, k, b)) = b
    BY Coordinates
  <2>3. \A e \in Cells : Across(dir, e) = b =>
          Along(dir, e) \in Indices /\ e = At(dir, Along(dir, e), b)
    BY CellAt
  <2>4. Line(dir, c) = {e \in Cells : Across(dir, e) = b}
    BY <1>1 DEF Line
  <2>5. Between(dir, c, At(dir, x, b))
          = {e \in Line(dir, c) : Mid(a, Along(dir, e), x)}
    <3>1. \A f : Between(dir, c, f) =
                   {e \in Line(dir, c) :
                      Mid(Along(dir, c), Along(dir, e), Along(dir, f))}
      BY DEF Between, Mid
    <3>2. QED BY <1>1, <2>1, <3>1
  <2>6. ASSUME NEW e \in Line(dir, c), Mid(a, Along(dir, e), x)
        PROVE  \E k \in {k \in Indices : Mid(a, k, x)} : e = At(dir, k, b)
    BY <2>3, <2>4, <2>6
  <2>7. ASSUME NEW k \in {k \in Indices : Mid(a, k, x)}
        PROVE  /\ At(dir, k, b) \in Line(dir, c)
               /\ Mid(a, Along(dir, At(dir, k, b)), x)
    BY <2>2, <2>4
  <2>8. QED BY <2>1, <2>4, <2>5, <2>6, <2>7
<1>3. d \in Line(dir, c) <=> \E x \in Indices : d = At(dir, x, b)
  <2>1. d \in Line(dir, c) => /\ Along(dir, d) \in Indices
                              /\ d = At(dir, Along(dir, d), b)
    BY <1>1, CellAt DEF Line
  <2>2. QED BY <1>2, <2>1
<1>4. ASSUME NEW x \in Indices, d = At(dir, x, b)
      PROVE  d \in Word(dir, c) <=>
               \A k \in Indices : Mid(a, k, x) => Set(dir, k, b)
  BY <1>2, <1>4 DEF Word, Set
<1>5. ASSUME NEW x \in Indices, NEW y \in Indices, At(dir, x, b) = At(dir, y, b)
      PROVE  x = y
  BY <1>5, Coordinates
<1>6. d \in Word(dir, c) => d \in Line(dir, c)
  BY DEF Word
<1>7. QED BY <1>3, <1>4, <1>5, <1>6 DEF c

LEMMA IndexFacts == /\ Size \in Nat
                    /\ \A k : k \in Indices <=> k \in Nat /\ k < Size
BY BoardAssumption DEF Indices

(* A word is of letters, and the same from each of them.                   *)
LEMMA WordIsSet ==
  ASSUME NEW dir \in Dirs, NEW c \in Cells, NEW d \in Word(dir, c)
  PROVE  IsSet(d) /\ Across(dir, d) = Across(dir, c) /\ d \in Cells
<1>1. d \in Line(dir, c) /\ \A e \in Between(dir, c, d) : IsSet(e)
  BY DEF Word
<1>2. Along(dir, d) \in Nat /\ Along(dir, c) \in Nat
  BY <1>1, CellAt, IndexFacts DEF Line
<1>3. d \in Between(dir, c, d)
  BY <1>1, <1>2 DEF Between
<1>4. QED BY <1>1, <1>3 DEF Line

LEMMA WordSame ==
  ASSUME NEW dir \in Dirs, NEW c \in Cells, NEW d \in Word(dir, c)
  PROVE  Word(dir, d) = Word(dir, c)
<1> DEFINE a == Along(dir, c)
           b == Across(dir, c)
           x == Along(dir, d)
           Whole(i, j) == \A k \in Indices : Mid(i, k, j) => Set(dir, k, b)
<1>1. a \in Indices /\ b \in Indices /\ c = At(dir, a, b)
  BY CellAt
<1>2. x \in Indices /\ d = At(dir, x, b)
  BY CellAt, WordIsSet
<1>3. Whole(a, x)
  <2>1. PICK y \in Indices : d = At(dir, y, b) /\ Whole(a, y)
    BY <1>1, WordAt
  <2>2. y = x
    BY <1>1, <2>1, Coordinates
  <2>3. QED BY <2>1, <2>2
<1> HIDE DEF a, b, x
<1>4. ASSUME NEW i \in Indices, NEW j \in Indices, NEW k \in Indices,
             NEW l \in Indices, Mid(i, l, k)
      PROVE  Mid(i, l, j) \/ Mid(j, l, k)
  BY <1>4, IndexFacts DEF Mid
<1>5. ASSUME NEW y \in Indices PROVE Whole(x, y) <=> Whole(a, y)
  <2>1. ASSUME Whole(a, y) PROVE Whole(x, y)
    <3>1. ASSUME NEW k \in Indices, Mid(x, k, y) PROVE Mid(a, k, x) \/ Mid(a, k, y)
      BY <1>1, <1>2, <3>1, IndexFacts DEF Mid
    <3>2. QED BY <1>3, <2>1, <3>1
  <2>2. ASSUME Whole(x, y) PROVE Whole(a, y)
    BY <1>1, <1>2, <1>3, <1>4, <2>2
  <2>3. QED BY <2>1, <2>2
<1>6. \A e : e \in Word(dir, c) <=>
        \E y \in Indices : e = At(dir, y, b) /\ Whole(a, y)
  BY <1>1, WordAt
<1>7. \A e : e \in Word(dir, d) <=>
        \E y \in Indices : e = At(dir, y, b) /\ Whole(x, y)
  BY <1>1, <1>2, WordAt
<1> HIDE DEF Whole
<1>8. QED BY <1>5, <1>6, <1>7

(* Scanning back ends at the first cell of the word.                       *)
LEMMA ScanBackFacts ==
  ASSUME NEW dir \in Dirs, NEW a \in Indices, NEW b \in Indices
  PROVE  /\ ScanBack(dir, a, b) \in Indices /\ ScanBack(dir, a, b) <= a
         /\ \A k \in Indices : ScanBack(dir, a, b) <= k /\ k < a => Set(dir, k, b)
         /\ \A s \in Indices : s < ScanBack(dir, a, b) =>
              \E k \in Indices : s <= k /\ k < a /\ ~Set(dir, k, b)
<1> DEFINE T == {s \in 0 .. a : \A k \in s .. a - 1 : Set(dir, k, b)}
           m == CHOOSE x \in T : \A y \in T : x <= y
<1>1. a \in Nat /\ a < Size /\ Size \in Nat
  BY IndexFacts
<1>2. a \in T /\ T \subseteq Nat
  BY <1>1
<1> HIDE DEF T
<1>3. m \in T /\ \A y \in T : m <= y
  BY <1>2, Least
<1>4. ScanBack(dir, a, b) = m
  BY DEF ScanBack, Min, T, Set
<1> HIDE DEF m
<1>5. m \in Indices /\ m <= a
  BY <1>1, <1>3, IndexFacts DEF T
<1>6. ASSUME NEW k \in Indices, m <= k, k < a PROVE Set(dir, k, b)
  BY <1>1, <1>3, <1>5, <1>6, IndexFacts DEF T
<1>7. ASSUME NEW s \in Indices, s < m
      PROVE  \E k \in Indices : s <= k /\ k < a /\ ~Set(dir, k, b)
  <2>1. s \in Nat /\ m \in Nat
    BY <1>5, IndexFacts
  <2>2. s \notin T
    BY <1>3, <1>7, <2>1
  <2>3. s \in 0 .. a
    BY <1>1, <1>5, <1>7, <2>1
  <2>4. PICK k \in s .. a - 1 : ~Set(dir, k, b)
    BY <2>2, <2>3 DEF T
  <2>5. k \in Indices /\ s <= k /\ k < a
    BY <1>1, <2>1, <2>4, IndexFacts
  <2>6. QED BY <2>4, <2>5
<1>8. QED BY <1>4, <1>5, <1>6, <1>7

(* What is scanned from the first cell of a word is the word.              *)
LEMMA ScanIsWord ==
  ASSUME OnBoard, NEW dir \in Dirs, NEW a \in Indices, NEW b \in Indices,
         Set(dir, a, b)
  PROVE  SumFrom(dir, ScanBack(dir, a, b), b) =
           SumFunction([c \in Word(dir, At(dir, a, b)) |-> Value(c)])
<1> DEFINE s == ScanBack(dir, a, b)
           W == Word(dir, At(dir, a, b))
           T == {e \in s .. Size - 1 : \A k \in s .. e : Set(dir, k, b)}
           f == [c \in W |-> Value(c)]
           h == [k \in T |-> At(dir, k, b)]
<1>0. s \in Indices /\ s \in Nat /\ a \in Nat /\ a < Size /\ Size \in Nat /\ s <= a
  BY ScanBackFacts, IndexFacts
<1>1. ASSUME NEW k \in T PROVE k \in Indices /\ k \in Nat /\ s <= k
  BY <1>0, IndexFacts
<1>2. ASSUME NEW k \in T PROVE At(dir, k, b) \in W
  <2>1. ASSUME NEW i \in Indices, Mid(a, i, k) PROVE Set(dir, i, b)
    <3>1. i \in Nat
      BY IndexFacts
    <3>2. CASE a < i
      <4>1. i \in s .. k
        BY <1>0, <1>1, <2>1, <3>1, <3>2 DEF Mid
      <4>2. QED BY <4>1
    <3>3. CASE i < a
      <4>1. s <= i
        BY <1>0, <1>1, <2>1, <3>1, <3>3 DEF Mid
      <4>2. QED BY <3>3, <4>1, ScanBackFacts
    <3>4. CASE i = a
      BY <3>4
    <3>5. QED BY <1>0, <3>1, <3>2, <3>3, <3>4
  <2>2. QED BY <1>1, <2>1, WordAt
<1>3. ASSUME NEW c \in W PROVE \E k \in T : c = At(dir, k, b)
  <2>1. PICK x \in Indices : /\ c = At(dir, x, b)
                             /\ \A k \in Indices : Mid(a, k, x) => Set(dir, k, b)
    BY WordAt
  <2>2. x \in Nat /\ x < Size
    BY IndexFacts
  <2>3. s <= x
    <3> SUFFICES ASSUME x < s PROVE FALSE
      BY <1>0, <2>2
    <3>1. PICK k \in Indices : x <= k /\ k < a /\ ~Set(dir, k, b)
      BY ScanBackFacts
    <3>2. k \in Nat
      BY IndexFacts
    <3>3. Mid(a, k, x)
      BY <1>0, <2>2, <3>1, <3>2 DEF Mid
    <3>4. QED BY <2>1, <3>1, <3>3
  <2>4. ASSUME NEW k \in s .. x PROVE Set(dir, k, b)
    <3>1. k \in Nat /\ k \in Indices /\ s <= k /\ k <= x
      BY <1>0, <2>2, IndexFacts
    <3>2. CASE k < a
      BY <3>1, <3>2, ScanBackFacts
    <3>3. CASE a <= k
      BY <2>1, <3>1, <3>3 DEF Mid
    <3>4. QED BY <1>0, <3>1, <3>2, <3>3
  <2>5. x \in T
    BY <1>0, <2>2, <2>3, <2>4
  <2>6. QED BY <2>1, <2>5
<1>4. IsFiniteSet(T) /\ IsFiniteSet(W) /\ W \subseteq Cells
  <2>1. IsFiniteSet(s .. Size - 1)
    BY <1>0, FS_Interval
  <2>2. T \in SUBSET (s .. Size - 1)
    OBVIOUS
  <2>3. W \subseteq Cells
    BY DEF Word, Line
  <2> HIDE DEF T, W
  <2>4. QED BY <2>1, <2>2, <2>3, FS_Subset, FiniteCells
<1>5. Numbers(f)
  <2>1. \A c \in W : c \in Cells /\ IsSet(c)
    BY <1>4, Coordinates, WordIsSet
  <2>2. \A c \in W : Value(c) \in Int
    BY <2>1, BoardAssumption DEF Value, OnBoard, IsSet
  <2>3. QED BY <1>4, <2>2 DEF Numbers
<1>6. Names(h, T, W)
  <2>1. h \in [T -> W] /\ \A k \in T : h[k] = At(dir, k, b)
    BY <1>2
  <2>2. ASSUME NEW x \in T, NEW y \in T, h[x] = h[y] PROVE x = y
    <3>1. Along(dir, h[x]) = x /\ Along(dir, h[y]) = y
      BY <1>1, <2>1, Coordinates
    <3>2. QED BY <2>2, <3>1
  <2> HIDE DEF h, T, W
  <2>3. QED BY <1>3, <2>1, <2>2 DEF Names
<1>7. SumFrom(dir, s, b) = SumFunction([k \in T |-> Value(At(dir, k, b))])
  BY DEF SumFrom, Value, Set
<1>8. [k \in T |-> Value(At(dir, k, b))] = [k \in T |-> f[h[k]]]
  BY <1>2
<1> HIDE DEF T, h, s
<1>9. SumFunction([k \in T |-> f[h[k]]]) = SumFunction(f)
  <2>1. DOMAIN f = W
    OBVIOUS
  <2> HIDE DEF f, W
  <2>2. QED BY <1>4, <1>5, <1>6, <2>1, SumRenamed
<1>10. QED BY <1>7, <1>8, <1>9 DEF s

-----------------------------------------------------------------------------
(* Plays.                                                                  *)

Tiles == [pos : Cells, letter : Letters, mask : SUBSET Flags]

(* word is a play.                                                         *)
Plays(dir, word) ==
  /\ word \in Seq(Tiles)
  /\ Len(word) > 1
  /\ \A i, j \in DOMAIN word : word[i].pos = word[j].pos => i = j
  /\ \A i \in DOMAIN word : word[i].pos \in Word(dir, word[1].pos)

(* The tiles of a play, and the words along it from each of them.          *)
LEMMA PlayFacts ==
  ASSUME NEW dir \in Dirs, NEW word, Plays(dir, word)
  PROVE  /\ Len(word) \in Nat /\ DOMAIN word = 1 .. Len(word)
         /\ IsFiniteSet(DOMAIN word)
         /\ 1 \in DOMAIN word /\ 2 \in DOMAIN word
         /\ \A i \in DOMAIN word :
              /\ word[i] \in Tiles /\ word[i].pos \in Cells /\ IsSet(word[i].pos)
              /\ Across(dir, word[i].pos) = Across(dir, word[1].pos)
              /\ Word(dir, word[i].pos) = Word(dir, word[1].pos)
<1>1. Len(word) \in Nat /\ DOMAIN word = 1 .. Len(word) /\ Len(word) > 1
  BY DEF Plays
<1>2. 1 \in DOMAIN word /\ 2 \in DOMAIN word /\ IsFiniteSet(DOMAIN word)
  BY <1>1, FS_Interval
<1>3. \A i \in DOMAIN word : word[i] \in Tiles
  BY DEF Plays
<1>4. \A i \in DOMAIN word : word[i].pos \in Cells
  BY <1>3 DEF Tiles
<1>5. \A i \in DOMAIN word : word[i].pos \in Word(dir, word[1].pos)
  BY DEF Plays
<1>6. QED BY <1>1, <1>2, <1>3, <1>4, <1>5, WordIsSet, WordSame

(* The first two tiles tell the direction of a play.                       *)
LEMMA DirectionOfPlay ==
  ASSUME NEW dir \in Dirs, NEW word, Plays(dir, word)
  PROVE  Direction(word) = dir
<1>1. word[1].pos \in Cells /\ word[2].pos \in Cells /\ word[1].pos # word[2].pos
  BY PlayFacts DEF Plays
<1>2. Across(dir, word[1].pos) = Across(dir, word[2].pos)
  BY PlayFacts
<1>3. ~(Len(word) < 2)
  BY PlayFacts DEF Plays
<1>4. \A c \in Cells : c = <<c[1], c[2]>>
  BY DEF Cells
<1>5. CASE dir = "horizontal"
  <2>1. word[1].pos[1] # word[2].pos[1]
    BY <1>1, <1>2, <1>4, <1>5 DEF Across
  <2>2. QED BY <1>3, <1>5, <2>1 DEF Direction
<1>6. CASE dir = "vertical"
  <2>1. word[1].pos[1] = word[2].pos[1]
    BY <1>2, <1>6 DEF Across
  <2>2. QED BY <1>3, <1>6, <2>1 DEF Direction
<1>7. QED BY <1>5, <1>6 DEF Dirs

(* What is counted along a play is its word.                               *)
LEMMA WordScoreIs ==
  ASSUME OnBoard, NEW dir \in Dirs, NEW word, Plays(dir, word)
  PROVE  WordScore(word) = SumFunction([c \in Word(dir, word[1].pos) |-> Value(c)])
<1> DEFINE c == word[1].pos
           a == Along(dir, c)
           b == Across(dir, c)
<1>1. c \in Cells /\ IsSet(c)
  BY PlayFacts
<1>2. a \in Indices /\ b \in Indices /\ c = At(dir, a, b) /\ Set(dir, a, b)
  BY <1>1, CellAt DEF Set
<1>3. WordScore(word) = SumFrom(dir, ScanBack(dir, a, b), b)
  BY DirectionOfPlay DEF WordScore, Dirs
<1> HIDE DEF a, b, c
<1>4. SumFrom(dir, ScanBack(dir, a, b), b)
        = SumFunction([d \in Word(dir, c) |-> Value(d)])
  BY <1>2, ScanIsWord
<1>5. QED BY <1>3, <1>4 DEF c

(* Multipliers are at least one.                                           *)
LEMMA MultiplierFacts ==
  ASSUME NEW mask
  PROVE  GetWord(mask) \in Nat /\ GetChar(mask) \in Nat /\ GetChar(mask) >= 1
<1>1. \A flag : \A n \in {2, 3, 4} : Factor(mask, flag, n) \in {1, n}
  BY DEF Factor
<1>2. QED BY <1>1 DEF GetWord, GetChar

LEMMA AdditionalType == ASSUME NEW t \in Tiles PROVE Additional(t) \in Int
<1>1. ScoreOf[t.letter] \in Nat
  BY BoardAssumption DEF Tiles
<1>2. GetChar(t.mask) - 1 \in Int
  BY MultiplierFacts
<1>3. QED BY <1>1, <1>2 DEF Additional

(* What is scanned is a number.                                            *)
LEMMA SumFromType ==
  ASSUME OnBoard, NEW dir \in Dirs, NEW s \in Indices, NEW b \in Indices
  PROVE  SumFrom(dir, s, b) \in Int
<1> DEFINE T == {e \in s .. Size - 1 : \A k \in s .. e : Set(dir, k, b)}
           f == [k \in T |-> Value(At(dir, k, b))]
<1>1. s \in Nat /\ Size \in Nat
  BY IndexFacts
<1>2. IsFiniteSet(T)
  <2>1. IsFiniteSet(s .. Size - 1) /\ T \in SUBSET (s .. Size - 1)
    BY <1>1, FS_Interval
  <2> HIDE DEF T
  <2>2. QED BY <2>1, FS_Subset
<1>3. ASSUME NEW k \in T PROVE Value(At(dir, k, b)) \in Int
  <2>1. k \in Indices /\ Set(dir, k, b)
    BY <1>1, IndexFacts
  <2>2. At(dir, k, b) \in Cells
    BY <2>1, Coordinates
  <2>3. character[At(dir, k, b)] \in Letters
    BY <2>1, <2>2 DEF OnBoard, Set, IsSet
  <2>4. QED BY <2>3, BoardAssumption DEF Value
<1>4. Numbers(f) /\ SumFrom(dir, s, b) = SumFunction(f)
  <2>1. SumFrom(dir, s, b) = SumFunction(f)
    BY DEF SumFrom, Value, Set
  <2> HIDE DEF T
  <2>2. QED BY <1>2, <1>3, <2>1 DEF Numbers
<1>5. QED BY <1>4, SumFacts

LEMMA CrossScoreType ==
  ASSUME OnBoard, NEW dir \in Dirs, NEW t \in Tiles
  PROVE  CrossScore(dir, t) \in Int
<1> DEFINE o == Other(dir)
           a == Along(o, t.pos)
           b == Across(o, t.pos)
           start == IF a > 1 /\ IsSet(At(o, a - 1, b)) THEN ScanBack(o, a, b) ELSE a
<1>1. o \in Dirs /\ a \in Indices /\ b \in Indices
  BY CellAt DEF Tiles
<1>2. start \in Indices
  BY <1>1, ScanBackFacts
<1>3. SumFrom(o, start, b) \in Int
  BY <1>1, <1>2, SumFromType
<1>4. CrossScore(dir, t) =
        IF dir # "none" /\ (\/ a > 1 /\ IsSet(At(o, a - 1, b))
                            \/ a + 1 < Size /\ IsSet(At(o, a + 1, b)))
        THEN (Additional(t) + SumFrom(o, start, b)) * GetWord(t.mask) + Additional(t)
        ELSE 0
  BY DEF CrossScore
<1> HIDE DEF start
<1>5. Additional(t) \in Int /\ GetWord(t.mask) \in Int
  BY AdditionalType, MultiplierFacts
<1>6. (Additional(t) + SumFrom(o, start, b)) * GetWord(t.mask) + Additional(t) \in Int
  BY <1>3, <1>5
<1>7. QED BY <1>4, <1>6

(* There is a word across a tile if a cell next to it is set; the code     *)
(* sees it, and all of it, but for the one at the edge.                    *)
LEMMA CrossScoreIs ==
  ASSUME OnBoard, NEW dir \in Dirs, NEW t \in Tiles, IsSet(t.pos),
         ~(Across(dir, t.pos) = 1 /\ IsSet(At(dir, Along(dir, t.pos), 0)))
  PROVE  CrossScore(dir, t) =
           LET word == Word(Other(dir), t.pos)
           IN  IF word = {t.pos} THEN 0
               ELSE (Additional(t) + SumFunction([c \in word |-> Value(c)]))
                      * GetWord(t.mask) + Additional(t)
<1> DEFINE o == Other(dir)
           a == Along(o, t.pos)
           b == Across(o, t.pos)
           back == a > 1 /\ IsSet(At(o, a - 1, b))
           forth == a + 1 < Size /\ IsSet(At(o, a + 1, b))
           start == IF back THEN ScanBack(o, a, b) ELSE a
           word == Word(o, t.pos)
<1>1. t.pos \in Cells
  BY DEF Tiles
<1>2. /\ o \in Dirs /\ a \in Indices /\ b \in Indices /\ t.pos = At(o, a, b)
      /\ a = Across(dir, t.pos) /\ b = Along(dir, t.pos)
  BY <1>1, CellAt
<1>3. a \in Nat /\ a < Size /\ Size \in Nat
  BY <1>2, IndexFacts
<1>4. CrossScore(dir, t) =
        IF back \/ forth
        THEN (Additional(t) + SumFrom(o, start, b)) * GetWord(t.mask) + Additional(t)
        ELSE 0
  BY DEF CrossScore, Dirs
<1>5. ~(a = 1 /\ IsSet(At(o, 0, b)))
  <2>1. At(o, 0, b) = At(dir, b, 0)
    BY DEF At, Other, Dirs
  <2>2. QED BY <1>2, <2>1
<1> HIDE DEF o, a, b
<1>6. Set(o, a, b)
  BY <1>2 DEF Set
<1>7. ~back => \A k \in Indices : k + 1 = a => ~Set(o, k, b)
  <2> SUFFICES ASSUME ~back, NEW k \in Indices, k + 1 = a PROVE ~Set(o, k, b)
    OBVIOUS
  <2>1. k \in Nat /\ k = a - 1
    BY <1>3, IndexFacts
  <2>2. CASE a > 1
    BY <2>1, <2>2 DEF Set
  <2>3. CASE a = 1
    BY <1>5, <2>1, <2>3 DEF Set
  <2>4. QED BY <1>3, <2>1, <2>2, <2>3
<1>8. SumFrom(o, start, b) = SumFunction([c \in word |-> Value(c)])
  <2>1. start = ScanBack(o, a, b)
    <3> SUFFICES ASSUME ~back, ScanBack(o, a, b) # a PROVE FALSE
      OBVIOUS
    <3>0. ScanBack(o, a, b) \in Indices /\ ScanBack(o, a, b) <= a
      BY <1>2, ScanBackFacts
    <3>1. ScanBack(o, a, b) \in Nat /\ ScanBack(o, a, b) < a
      BY <1>3, <3>0, IndexFacts
    <3>2. a - 1 \in Indices /\ ScanBack(o, a, b) <= a - 1 /\ a - 1 < a
      BY <1>3, <3>1, IndexFacts
    <3>3. Set(o, a - 1, b)
      BY <1>2, <3>2, ScanBackFacts
    <3>4. QED BY <1>3, <1>7, <3>2, <3>3
  <2>2. QED BY <1>2, <1>6, <2>1, ScanIsWord
<1>9. t.pos \in word
  <2>1. \A k \in Indices : Mid(a, k, a) => k = a
    BY <1>3, IndexFacts DEF Mid
  <2>2. QED BY <1>2, <1>6, <2>1, WordAt
<1>10. ASSUME NEW x \in Indices, x = a - 1 \/ x = a + 1, Set(o, x, b)
       PROVE  word # {t.pos}
  <2>1. \A k \in Indices : Mid(a, k, x) => k = a \/ k = x
    BY <1>3, <1>10, IndexFacts DEF Mid
  <2>2. At(o, x, b) \in word
    BY <1>2, <1>6, <1>10, <2>1, WordAt
  <2>3. x # a
    BY <1>3, <1>10
  <2>4. At(o, x, b) # t.pos
    BY <1>2, <2>3, Coordinates
  <2>5. QED BY <2>2, <2>4
<1>11. back \/ forth => word # {t.pos}
  <2>1. back => a - 1 \in Indices /\ Set(o, a - 1, b)
    BY <1>3, IndexFacts DEF Set
  <2>2. forth => a + 1 \in Indices /\ Set(o, a + 1, b)
    BY <1>3, IndexFacts DEF Set
  <2>3. QED BY <1>10, <2>1, <2>2
<1>12. word # {t.pos} => back \/ forth
  <2> SUFFICES ASSUME word # {t.pos}, ~back PROVE forth
    OBVIOUS
  <2>1. PICK d \in word : d # t.pos
    BY <1>9
  <2>2. PICK x \in Indices : /\ d = At(o, x, b)
                             /\ \A k \in Indices : Mid(a, k, x) => Set(o, k, b)
    BY <1>2, WordAt
  <2>3. x # a /\ x \in Nat /\ x < Size
    BY <1>2, <2>1, <2>2, IndexFacts
  <2>4. ~(x < a)
    <3> SUFFICES ASSUME x < a PROVE FALSE
      OBVIOUS
    <3>1. a - 1 \in Indices /\ Mid(a, a - 1, x) /\ (a - 1) + 1 = a
      BY <1>3, <2>3, IndexFacts DEF Mid
    <3>2. QED BY <1>7, <2>2, <3>1
  <2>5. a + 1 \in Indices /\ Mid(a, a + 1, x) /\ a + 1 < Size
    BY <1>3, <2>3, <2>4, IndexFacts DEF Mid
  <2>6. QED BY <2>2, <2>5 DEF Set
<1>13. QED BY <1>4, <1>8, <1>11, <1>12 DEF o

-----------------------------------------------------------------------------
(* The same play in another order.                                         *)

LEMMA ScoreRenamed ==
  ASSUME OnBoard, NEW dir \in Dirs, NEW w, Plays(dir, w), NEW v, Plays(dir, v),
         NEW p, Names(p, DOMAIN v, DOMAIN w), \A j \in DOMAIN v : v[j] = w[p[j]]
  PROVE  Score(v) = Score(w)
<1> DEFINE add(u)    == [i \in DOMAIN u |-> Additional(u[i])]
           word(u)   == [i \in DOMAIN u |-> GetWord(u[i].mask)]
           across(u) == [i \in DOMAIN u |-> CrossScore(dir, u[i])]
<1>1. /\ IsFiniteSet(DOMAIN v) /\ IsFiniteSet(DOMAIN w) /\ 1 \in DOMAIN v
      /\ \A i \in DOMAIN w : w[i] \in Tiles
  BY PlayFacts
<1>2. \A j \in DOMAIN v : p[j] \in DOMAIN w
  BY DEF Names
<1>3. Numbers(add(w)) /\ Numbers(word(w)) /\ Numbers(across(w))
  <2>1. \A i \in DOMAIN w : /\ Additional(w[i]) \in Int
                            /\ GetWord(w[i].mask) \in Int
                            /\ CrossScore(dir, w[i]) \in Int
    BY <1>1, AdditionalType, MultiplierFacts, CrossScoreType
  <2>2. QED BY <1>1, <2>1 DEF Numbers
<1>4. SumFunction(add(v)) = SumFunction(add(w))
  <2>1. add(v) = [j \in DOMAIN v |-> add(w)[p[j]]] /\ DOMAIN add(w) = DOMAIN w
    BY <1>2
  <2> HIDE DEF add
  <2>2. QED BY <1>1, <1>3, <2>1, SumRenamed
<1>5. Product(word(v)) = Product(word(w))
  <2>1. word(v) = [j \in DOMAIN v |-> word(w)[p[j]]] /\ DOMAIN word(w) = DOMAIN w
    BY <1>2
  <2> HIDE DEF word
  <2>2. QED BY <1>1, <1>3, <2>1, ProductRenamed
<1>6. SumFunction(across(v)) = SumFunction(across(w))
  <2>1. /\ across(v) = [j \in DOMAIN v |-> across(w)[p[j]]]
        /\ DOMAIN across(w) = DOMAIN w
    BY <1>2
  <2> HIDE DEF across
  <2>2. QED BY <1>1, <1>3, <2>1, SumRenamed
<1>7. WordScore(v) = WordScore(w)
  <2>1. v[1].pos = w[p[1]].pos /\ p[1] \in DOMAIN w
    BY <1>1, <1>2
  <2>2. Word(dir, v[1].pos) = Word(dir, w[1].pos)
    BY <2>1, PlayFacts
  <2>3. QED BY <2>2, WordScoreIs
<1>8. Direction(v) = dir /\ Direction(w) = dir
  BY DirectionOfPlay
<1>9. /\ Score(v) = (WordScore(v) + SumFunction(add(v))) * Product(word(v))
                    + SumFunction(across(v))
      /\ Score(w) = (WordScore(w) + SumFunction(add(w))) * Product(word(w))
                    + SumFunction(across(w))
  BY <1>8 DEF Score
<1> HIDE DEF add, word, across
<1>10. QED BY <1>4, <1>5, <1>6, <1>7, <1>9

(* Another first tile.                                                     *)
LEMMA Rotated ==
  ASSUME NEW w \in Seq(Tiles), NEW i \in DOMAIN w
  PROVE  LET v == SubSeq(w, i + 1, Len(w)) \o SubSeq(w, 1, i)
             p == [j \in DOMAIN w |->
                     IF j <= Len(w) - i THEN i + j ELSE j - (Len(w) - i)]
         IN  /\ v \in Seq(Tiles) /\ Len(v) = Len(w) /\ DOMAIN v = DOMAIN w
             /\ Names(p, DOMAIN v, DOMAIN w)
             /\ \A j \in DOMAIN v : v[j] = w[p[j]]
<1> DEFINE n == Len(w)
           f == SubSeq(w, i + 1, n)
           g == SubSeq(w, 1, i)
           v == f \o g
           p == [j \in DOMAIN w |-> IF j <= n - i THEN i + j ELSE j - (n - i)]
<1>1. n \in Nat /\ DOMAIN w = 1 .. n /\ i \in Nat /\ 1 <= i /\ i <= n
  OBVIOUS
<1>2. f \in Seq(Tiles) /\ Len(f) = n - i /\ \A j \in 1 .. n - i : f[j] = w[i + j]
  BY <1>1
<1>3. g \in Seq(Tiles) /\ Len(g) = i /\ \A j \in 1 .. i : g[j] = w[j]
  BY <1>1
<1> HIDE DEF f, g
<1>4. /\ v \in Seq(Tiles) /\ Len(v) = n /\ DOMAIN v = 1 .. n
      /\ \A j \in 1 .. n : v[j] = IF j <= n - i THEN f[j] ELSE g[j - (n - i)]
  <2>1. /\ v \in Seq(Tiles) /\ Len(v) = Len(f) + Len(g)
        /\ \A j \in 1 .. Len(f) + Len(g) :
             v[j] = IF j <= Len(f) THEN f[j] ELSE g[j - Len(f)]
    BY <1>2, <1>3, ConcatProperties
  <2>2. Len(f) + Len(g) = n
    BY <1>1, <1>2, <1>3
  <2> HIDE DEF v
  <2>3. QED BY <1>2, <2>1, <2>2
<1>5. ASSUME NEW j \in 1 .. n PROVE v[j] = w[p[j]]
  <2>1. CASE j <= n - i
    <3>1. j \in 1 .. n - i /\ p[j] = i + j
      BY <1>1, <2>1
    <3>2. v[j] = f[j]
      BY <1>4, <2>1
    <3>3. QED BY <1>2, <3>1, <3>2
  <2>2. CASE n - i < j
    <3>1. j - (n - i) \in 1 .. i /\ ~(j <= n - i)
      BY <1>1, <2>2
    <3>2. v[j] = g[j - (n - i)]
      BY <1>4, <3>1
    <3>3. p[j] = j - (n - i)
      BY <1>1, <3>1
    <3>4. QED BY <1>3, <3>1, <3>2, <3>3
  <2>3. j <= n - i \/ n - i < j
    BY <1>1
  <2>4. QED BY <2>1, <2>2, <2>3
<1>6. Names(p, 1 .. n, 1 .. n)
  <2>1. p \in [1 .. n -> 1 .. n]
    BY <1>1
  <2>2. \A x, y \in 1 .. n : p[x] = p[y] => x = y
    BY <1>1
  <2>3. ASSUME NEW z \in 1 .. n PROVE \E x \in 1 .. n : p[x] = z
    <3>1. CASE z <= i
      <4>1. z + (n - i) \in 1 .. n /\ p[z + (n - i)] = z
        BY <1>1, <3>1
      <4>2. QED BY <4>1
    <3>2. CASE i < z
      <4>1. z - i \in 1 .. n /\ p[z - i] = z
        BY <1>1, <3>2
      <4>2. QED BY <4>1
    <3>3. QED BY <1>1, <3>1, <3>2
  <2>4. QED BY <2>1, <2>2, <2>3 DEF Names
<1>7. QED BY <1>1, <1>4, <1>5, <1>6 DEF f, g

(* The tiles of a play by other numbers are a play, of the same score.     *)
LEMMA PlayReordered ==
  ASSUME OnBoard, NEW dir \in Dirs, NEW w, Plays(dir, w),
         NEW v \in Seq(Tiles), Len(v) = Len(w), DOMAIN v = DOMAIN w,
         NEW p, Names(p, DOMAIN v, DOMAIN w), \A j \in DOMAIN v : v[j] = w[p[j]]
  PROVE  Score(v) = Score(w)
<1>1. \A j \in DOMAIN v : p[j] \in DOMAIN w
  BY DEF Names
<1>2. ASSUME NEW j \in DOMAIN v, NEW k \in DOMAIN v, v[j].pos = v[k].pos PROVE j = k
  <2>1. w[p[j]].pos = w[p[k]].pos
    BY <1>2
  <2>2. p[j] = p[k]
    BY <1>1, <2>1 DEF Plays
  <2>3. QED BY <2>2 DEF Names
<1>3. 1 \in DOMAIN v
  BY PlayFacts
<1>4. \A j \in DOMAIN v : v[j].pos \in Word(dir, w[1].pos)
  BY <1>1 DEF Plays
<1>5. Word(dir, v[1].pos) = Word(dir, w[1].pos)
  BY <1>1, <1>3, PlayFacts
<1>6. Plays(dir, v)
  BY <1>2, <1>4, <1>5 DEF Plays
<1>7. QED BY <1>6, ScoreRenamed

LEMMA PlayRotated ==
  ASSUME OnBoard, NEW dir \in Dirs, NEW w, Plays(dir, w), NEW i \in DOMAIN w
  PROVE  Score(SubSeq(w, i + 1, Len(w)) \o SubSeq(w, 1, i)) = Score(w)
<1> DEFINE v == SubSeq(w, i + 1, Len(w)) \o SubSeq(w, 1, i)
           p == [j \in DOMAIN w |->
                   IF j <= Len(w) - i THEN i + j ELSE j - (Len(w) - i)]
<1>1. w \in Seq(Tiles)
  BY DEF Plays
<1>2. /\ v \in Seq(Tiles) /\ Len(v) = Len(w) /\ DOMAIN v = DOMAIN w
      /\ Names(p, DOMAIN v, DOMAIN w)
      /\ \A j \in DOMAIN v : v[j] = w[p[j]]
  BY <1>1, Rotated
<1> HIDE DEF v, p
<1>3. Score(v) = Score(w)
  BY <1>2, PlayReordered
<1>4. QED BY <1>3 DEF v

LEMMA PlayPermuted ==
  ASSUME OnBoard, NEW dir \in Dirs, NEW w, Plays(dir, w),
         NEW p, Names(p, DOMAIN w, DOMAIN w)
  PROVE  Score([j \in DOMAIN w |-> w[p[j]]]) = Score(w)
<1> DEFINE v == [j \in DOMAIN w |-> w[p[j]]]
<1>1. /\ DOMAIN w = 1 .. Len(w) /\ Len(w) \in Nat
      /\ \A j \in DOMAIN w : w[j] \in Tiles
  BY PlayFacts
<1>2. \A j \in DOMAIN w : p[j] \in DOMAIN w
  BY DEF Names
<1>3. v \in [1 .. Len(w) -> Tiles] /\ \A j \in DOMAIN w : v[j] = w[p[j]]
  BY <1>1, <1>2
<1> HIDE DEF v
<1>4. v \in Seq(Tiles) /\ Len(v) = Len(w) /\ DOMAIN v = DOMAIN w
  BY <1>1, <1>3
<1>5. Score(v) = Score(w)
  BY <1>3, <1>4, PlayReordered
<1>6. QED BY <1>5 DEF v

-----------------------------------------------------------------------------
(* The invariant.                                                          *)

(* The last tile set in a cell is the one that is there.                   *)
Shown == \A i \in DOMAIN letters :
  (\A j \in DOMAIN letters : letters[j].pos = letters[i].pos => j <= i)
    => character[letters[i].pos] = letters[i].letter

Inv ==
  /\ OnBoard
  /\ multipliers \in [Cells -> SUBSET Flags]
  /\ letters \in Seq(Tiles)
  /\ ~turn => letters = <<>>
  /\ Shown

LEMMA NoTiles == <<>> \in Seq(Tiles) /\ DOMAIN <<>> = {}
OBVIOUS

(* The invariant holds at the start, and every step keeps it.              *)
LEMMA InvInit == Init => Inv
BY NoTiles DEF Init, Inv, OnBoard, Shown

LEMMA InvSetTile ==
  ASSUME Inv, NEW c \in Cells, NEW ch \in Letters, SetTile(c, ch)
  PROVE  Inv'
<1> DEFINE t == [pos |-> c, letter |-> ch, mask |-> multipliers[c]]
           n == Len(letters)
<1>1. OnBoard'
  BY DEF Inv, OnBoard, SetTile
<1>2. multipliers' \in [Cells -> SUBSET Flags]
  BY DEF Inv, SetTile
<1>3. character' = [character EXCEPT ![c] = ch]
  BY DEF SetTile
<1>4. CASE ~turn
  <2>1. letters' = <<>> /\ turn' = turn
    BY <1>4 DEF Inv, SetTile
  <2>2. Shown'
    BY <2>1, NoTiles DEF Shown
  <2>3. QED BY <1>1, <1>2, <2>1, <2>2, NoTiles DEF Inv
<1>5. CASE turn
  <2>1. letters' = Append(letters, t) /\ turn'
    BY <1>5 DEF SetTile
  <2>2. t \in Tiles /\ t.pos = c /\ t.letter = ch
    BY DEF Inv, Tiles
  <2>3. letters \in Seq(Tiles) /\ n \in Nat /\ DOMAIN letters = 1 .. n
    BY DEF Inv
  <2> HIDE DEF t
  <2>4. /\ letters' \in Seq(Tiles) /\ Len(letters') = n + 1
        /\ \A i \in 1 .. n : letters'[i] = letters[i]
        /\ letters'[n + 1] = t
    BY <2>1, <2>2, <2>3, AppendProperties
  <2>5. DOMAIN letters' = 1 .. n + 1
    BY <2>4
  <2>6. ASSUME NEW i \in 1 .. n + 1,
               \A j \in 1 .. n + 1 : letters'[j].pos = letters'[i].pos => j <= i
        PROVE  character'[letters'[i].pos] = letters'[i].letter
    <3>1. CASE i = n + 1
      BY <1>3, <2>2, <2>4, <3>1 DEF Inv, OnBoard
    <3>2. CASE i # n + 1
      <4>1. i \in 1 .. n
        BY <2>3, <3>2
      <4>2. n + 1 \in 1 .. n + 1 /\ ~(n + 1 <= i)
        BY <2>3, <4>1
      <4>3. letters[i].pos # c
        BY <2>2, <2>4, <2>6, <4>1, <4>2
      <4>4. \A j \in 1 .. n : letters[j].pos = letters[i].pos => j <= i
        <5>1. \A j \in 1 .. n : j \in 1 .. n + 1
          BY <2>3
        <5>2. QED BY <2>4, <2>6, <4>1, <5>1
      <4>5. character[letters[i].pos] = letters[i].letter
        BY <2>3, <4>1, <4>4 DEF Inv, Shown
      <4>6. letters[i].pos \in Cells
        <5>1. letters[i] \in Tiles
          BY <2>3, <4>1
        <5>2. QED BY <5>1 DEF Tiles
      <4>7. character'[letters[i].pos] = character[letters[i].pos]
        BY <1>3, <4>3, <4>6 DEF Inv, OnBoard
      <4>8. QED BY <2>4, <4>1, <4>5, <4>7
    <3>3. QED BY <3>1, <3>2
  <2>7. Shown'
    BY <2>5, <2>6 DEF Shown
  <2>8. QED BY <1>1, <1>2, <2>1, <2>4, <2>7 DEF Inv
<1>6. QED BY <1>4, <1>5

LEMMA InvNext == Inv /\ [Next]_vars => Inv'
<1> SUFFICES ASSUME Inv, [Next]_vars PROVE Inv'
  OBVIOUS
<1>1. ASSUME NEW c \in Cells, NEW ch \in Letters, SetTile(c, ch) PROVE Inv'
  BY <1>1, InvSetTile
<1>2. CASE DoTurn
  <2>1. letters' = <<>> /\ turn' /\ UNCHANGED <<character, multipliers>>
    BY <1>2 DEF DoTurn
  <2>2. Shown'
    BY <2>1, NoTiles DEF Shown
  <2>3. QED BY <2>1, <2>2, NoTiles DEF Inv, OnBoard
<1>3. ASSUME NEW l \in Layouts, SetLayout(l) PROVE Inv'
  <2>1. UNCHANGED <<character, turn, letters>>
    BY <1>3 DEF SetLayout
  <2>2. multipliers' \in [Cells -> SUBSET Flags]
    <3>1. \A k : Decode(k) \in SUBSET Flags
      BY DEF Decode, Flags
    <3> HIDE DEF Decode
    <3>2. multipliers' = [c \in Cells |->
                            IF c \in DOMAIN l THEN Decode(l[c]) ELSE multipliers[c]]
      BY <1>3 DEF SetLayout
    <3>3. QED BY <3>1, <3>2 DEF Inv
  <2>3. QED BY <2>1, <2>2 DEF Inv, OnBoard, Shown
<1>4. CASE UNCHANGED vars
  BY <1>4 DEF Inv, OnBoard, Shown, vars
<1>5. QED BY <1>1, <1>2, <1>3, <1>4 DEF Next

(* A play has a tile in each of its cells, and it is there.                *)
LEMMA PlayIs ==
  ASSUME Inv, NEW dir \in Dirs, Play(dir)
  PROVE  /\ Plays(dir, letters)
         /\ \A i \in DOMAIN letters :
              /\ character[letters[i].pos] = letters[i].letter
              /\ MaskOn(letters[i].pos) = letters[i].mask
         /\ Names([i \in DOMAIN letters |-> letters[i].pos], DOMAIN letters, Placed)
<1> DEFINE n == Len(letters)
           h == [i \in DOMAIN letters |-> letters[i].pos]
<1>1. letters \in Seq(Tiles) /\ n \in Nat /\ DOMAIN letters = 1 .. n /\ n > 1
  BY DEF Inv, Play
<1>2. h \in [1 .. n -> Placed] /\ \A i \in 1 .. n : h[i] = letters[i].pos
  BY <1>1 DEF Placed
<1>3. \A z \in Placed : \E i \in 1 .. n : h[i] = z
  BY <1>1 DEF Placed
<1>4. h \in Surjection(1 .. n, Placed)
  BY <1>2, <1>3 DEF Surjection
<1>5. IsFiniteSet(1 .. n) /\ Cardinality(1 .. n) = n
  BY <1>1, FS_Interval
<1>6. Cardinality(1 .. n) = Cardinality(Placed)
  BY <1>5 DEF Play
<1> HIDE DEF h, n
<1>7. h \in Injection(1 .. n, Placed)
  BY <1>4, <1>5, <1>6, FS_SurjSameCardinalityImpliesInj
<1>8. ASSUME NEW i \in 1 .. n, NEW j \in 1 .. n, h[i] = h[j] PROVE i = j
  BY <1>7, <1>8 DEF Injection, IsInjective
<1>9. Names(h, 1 .. n, Placed)
  BY <1>2, <1>3, <1>8 DEF Names
<1>10. Plays(dir, letters)
  <2>1. \A i \in 1 .. n : letters[i].pos \in Word(dir, letters[1].pos)
    BY <1>1 DEF Play, Placed
  <2>2. QED BY <1>1, <1>2, <1>8, <2>1 DEF Plays, n
<1>11. ASSUME NEW i \in 1 .. n
       PROVE  /\ character[letters[i].pos] = letters[i].letter
              /\ MaskOn(letters[i].pos) = letters[i].mask
  <2>1. \A j \in 1 .. n : letters[j].pos = letters[i].pos => j = i
    BY <1>2, <1>8
  <2>2. character[letters[i].pos] = letters[i].letter
    <3>1. \A j \in 1 .. n : letters[j].pos = letters[i].pos => j <= i
      BY <1>1, <2>1
    <3>2. QED BY <1>1, <3>1 DEF Inv, Shown
  <2>3. (CHOOSE j \in DOMAIN letters : letters[j].pos = letters[i].pos) = i
    BY <1>1, <2>1
  <2>4. QED BY <2>2, <2>3 DEF MaskOn
<1>12. QED BY <1>1, <1>9, <1>10, <1>11 DEF h

-----------------------------------------------------------------------------
(* The rules.                                                              *)

(* A letter is a word of its own, or within one.                           *)
LEMMA InWord ==
  ASSUME NEW dir \in Dirs, NEW c \in Cells, IsSet(c)
  PROVE  c \in Word(dir, c)
<1> DEFINE a == Along(dir, c)
           b == Across(dir, c)
<1>1. a \in Indices /\ b \in Indices /\ c = At(dir, a, b)
  BY CellAt
<1> HIDE DEF a, b
<1>2. \A k \in Indices : Mid(a, k, a) => k = a
  BY <1>1, IndexFacts DEF Mid
<1>3. Set(dir, a, b)
  BY <1>1 DEF Set
<1>4. QED BY <1>1, <1>2, <1>3, WordAt

(* What the multipliers of the cells of a play add to the letters of W.    *)
Added(c) == (GetChar(MaskOn(c)) - 1) * Value(c)

(* A word is worth its letters and what the play adds to them, times the   *)
(* multipliers of the play.                                                *)
LEMMA WorthIs ==
  ASSUME OnBoard, NEW W \in SUBSET Cells, \A c \in W : IsSet(c)
  PROVE  Worth(W) = (SumFunction([c \in W |-> Value(c)])
                       + SumFunction([c \in W \cap Placed |-> Added(c)]))
                      * Product([c \in W \cap Placed |-> GetWord(MaskOn(c))])
<1> DEFINE f == [c \in W |-> Value(c)]
           g == [c \in W |-> IF c \in Placed THEN Added(c) ELSE 0]
           A == W \cap Placed
<1>1. \A c \in W : Value(c) \in Int /\ Added(c) \in Int
  <2>1. \A c \in W : Value(c) \in Int
    BY BoardAssumption DEF Value, OnBoard, IsSet
  <2>2. \A c \in W : GetChar(MaskOn(c)) - 1 \in Int
    BY MultiplierFacts
  <2>3. QED BY <2>1, <2>2 DEF Added
<1>2. IsFiniteSet(W)
  BY FiniteCells
<1>3. Numbers(f) /\ Numbers(g) /\ DOMAIN f = W /\ DOMAIN g = W
  BY <1>1, <1>2 DEF Numbers
<1>4. ASSUME NEW c \in W PROVE ScoreOf[character[c]] * Multiplier(c) = f[c] + g[c]
  <2>1. Value(c) \in Int /\ GetChar(MaskOn(c)) \in Int
    BY <1>1, MultiplierFacts
  <2>2. CASE c \in Placed
    BY <2>1, <2>2 DEF Multiplier, Added, Value
  <2>3. CASE c \notin Placed
    BY <2>1, <2>3 DEF Multiplier, Value
  <2>4. QED BY <2>2, <2>3
<1>5. [c \in W |-> ScoreOf[character[c]] * Multiplier(c)]
        = [c \in W |-> f[c] + g[c]]
  BY <1>4
<1>6. A \in SUBSET W /\ (\A c \in W \ A : g[c] = 0) /\ \A c \in A : g[c] = Added(c)
  OBVIOUS
<1> HIDE DEF f, g, A
<1>7. SumFunction([c \in W |-> f[c] + g[c]]) = SumFunction(f) + SumFunction(g)
  BY <1>3, SumOfBoth
<1>8. SumFunction(g) = SumFunction([c \in A |-> g[c]])
  BY <1>3, <1>6, SumWithin
<1>9. [c \in A |-> g[c]] = [c \in A |-> Added(c)]
  BY <1>6
<1>10. SumFunction([c \in W |-> ScoreOf[character[c]] * Multiplier(c)])
         = SumFunction(f) + SumFunction([c \in A |-> Added(c)])
  BY <1>5, <1>7, <1>8, <1>9
<1>11. Worth(W) = SumFunction([c \in W |-> ScoreOf[character[c]] * Multiplier(c)])
                    * Product([c \in A |-> GetWord(MaskOn(c))])
  BY DEF Worth, A
<1>12. QED BY <1>10, <1>11 DEF f, A

LEMMA WorthType ==
  ASSUME OnBoard, NEW W \in SUBSET Cells, \A c \in W : IsSet(c)
  PROVE  Worth(W) \in Int
<1> DEFINE f == [c \in W |-> ScoreOf[character[c]] * Multiplier(c)]
           g == [c \in W \cap Placed |-> GetWord(MaskOn(c))]
<1>1. IsFiniteSet(W) /\ IsFiniteSet(W \cap Placed)
  BY FiniteCells
<1>2. \A c \in W : ScoreOf[character[c]] \in Int /\ Multiplier(c) \in Int
  BY BoardAssumption, MultiplierFacts DEF OnBoard, IsSet, Multiplier
<1>3. \A c \in W : ScoreOf[character[c]] * Multiplier(c) \in Int
  BY <1>2
<1>4. Numbers(f) /\ Numbers(g)
  BY <1>1, <1>3, MultiplierFacts DEF Numbers
<1> HIDE DEF f, g
<1>5. SumFunction(f) \in Int /\ Product(g) \in Int
  BY <1>4, SumFacts, ProductType
<1>6. SumFunction(f) * Product(g) \in Int
  BY <1>5
<1>7. QED BY <1>6 DEF Worth, f, g

(* The word of the play: every cell of the play is in it.                  *)
LEMMA WorthOfPlay ==
  ASSUME Inv, NEW dir \in Dirs, Play(dir)
  PROVE  Worth(Word(dir, letters[1].pos)) =
           (WordScore(letters)
              + SumFunction([i \in DOMAIN letters |-> Additional(letters[i])]))
             * Product([i \in DOMAIN letters |-> GetWord(letters[i].mask)])
<1> DEFINE T == DOMAIN letters
           W == Word(dir, letters[1].pos)
           h == [i \in T |-> letters[i].pos]
           f == [c \in Placed |-> Added(c)]
           g == [c \in Placed |-> GetWord(MaskOn(c))]
<1>1. /\ Plays(dir, letters) /\ Names(h, T, Placed)
      /\ \A i \in T : /\ character[letters[i].pos] = letters[i].letter
                      /\ MaskOn(letters[i].pos) = letters[i].mask
  BY PlayIs
<1>2. /\ IsFiniteSet(T) /\ 1 \in T
      /\ \A i \in T : /\ letters[i] \in Tiles
                      /\ letters[i].pos \in Cells /\ IsSet(letters[i].pos)
  BY <1>1, PlayFacts
<1>3. W \in SUBSET Cells /\ \A c \in W : IsSet(c)
  BY <1>2, WordIsSet DEF Word, Line
<1>4. W \cap Placed = Placed
  BY DEF Play
<1>5. Worth(W) = (SumFunction([c \in W |-> Value(c)]) + SumFunction(f)) * Product(g)
  <2>1. OnBoard
    BY DEF Inv
  <2> HIDE DEF W
  <2>2. QED BY <1>3, <1>4, <2>1, WorthIs
<1>6. WordScore(letters) = SumFunction([c \in W |-> Value(c)])
  BY <1>1, WordScoreIs DEF Inv
<1>7. \A i \in T : h[i] \in Placed /\ h[i] = letters[i].pos
  BY DEF Placed
<1>8. ASSUME NEW i \in T
      PROVE  f[h[i]] = Additional(letters[i]) /\ g[h[i]] = GetWord(letters[i].mask)
  <2>1. Added(letters[i].pos) = Additional(letters[i])
    BY <1>1 DEF Added, Value, Additional
  <2>2. QED BY <1>1, <1>7, <2>1
<1>9. Numbers(f) /\ Numbers(g) /\ DOMAIN f = Placed /\ DOMAIN g = Placed
  <2>1. ASSUME NEW c \in Placed PROVE Added(c) \in Int /\ GetWord(MaskOn(c)) \in Int
    <3>1. PICK i \in T : c = letters[i].pos
      BY DEF Placed
    <3>2. Added(c) = Additional(letters[i])
      BY <1>1, <3>1 DEF Added, Value, Additional
    <3>3. QED BY <1>2, <3>1, <3>2, AdditionalType, MultiplierFacts
  <2>2. IsFiniteSet(Placed)
    <3>1. Placed \in SUBSET Cells
      BY <1>2 DEF Placed
    <3>2. QED BY <3>1, FiniteCells
  <2>3. QED BY <2>1, <2>2 DEF Numbers
<1> HIDE DEF f, g, h, T
<1>10. SumFunction([i \in T |-> f[h[i]]]) = SumFunction(f)
  BY <1>1, <1>2, <1>9, SumRenamed
<1>11. Product([i \in T |-> g[h[i]]]) = Product(g)
  BY <1>1, <1>2, <1>9, ProductRenamed
<1>12. /\ [i \in T |-> f[h[i]]] = [i \in T |-> Additional(letters[i])]
       /\ [i \in T |-> g[h[i]]] = [i \in T |-> GetWord(letters[i].mask)]
  BY <1>8
<1>13. QED BY <1>5, <1>6, <1>10, <1>11, <1>12 DEF T

(* A word across a tile of a play has no other tile of it.                 *)
LEMMA OneAcross ==
  ASSUME Inv, NEW dir \in Dirs, Play(dir), NEW i \in DOMAIN letters
  PROVE  Word(Other(dir), letters[i].pos) \cap Placed = {letters[i].pos}
<1> DEFINE c == letters[i].pos
<1>1. /\ c \in Cells /\ IsSet(c) /\ c \in Placed
      /\ \A d \in Placed : d \in Cells /\ Across(dir, d) = Across(dir, c)
  BY PlayIs, PlayFacts DEF Placed
<1>2. Other(dir) \in Dirs
  BY <1>1, CellAt
<1> HIDE DEF c
<1>3. c \in Word(Other(dir), c)
  BY <1>1, <1>2, InWord
<1>4. ASSUME NEW d \in Placed, d \in Word(Other(dir), c) PROVE d = c
  <2>1. Across(Other(dir), d) = Across(Other(dir), c)
    BY <1>1, <1>2, <1>4, WordIsSet
  <2>2. Along(dir, d) = Along(dir, c)
    BY <1>1, <2>1, CellAt
  <2>3. QED BY <1>1, <2>2, CellAt
<1>5. QED BY <1>1, <1>3, <1>4 DEF c

(* What the code adds a second time for a letter with a word across it.    *)
Twice(dir, c) == IF Word(Other(dir), c) = {c} THEN 0 ELSE Added(c)

(* The word across a tile, but for the case that the code does not see.    *)
LEMMA WorthAcrossIs ==
  ASSUME Inv, NEW dir \in Dirs, Play(dir), ~AtTheEdge(dir), NEW i \in DOMAIN letters
  PROVE  /\ CrossScore(dir, letters[i]) = WorthAcross(dir, letters[i].pos)
                                             + Twice(dir, letters[i].pos)
         /\ WorthAcross(dir, letters[i].pos) \in Int
         /\ Twice(dir, letters[i].pos) \in Int
<1> DEFINE t == letters[i]
           c == t.pos
           o == Other(dir)
           W == Word(o, c)
           values == SumFunction([d \in W |-> Value(d)])
<1>1. /\ t \in Tiles /\ c \in Cells /\ IsSet(c) /\ c \in Placed
      /\ character[c] = t.letter /\ MaskOn(c) = t.mask
  BY PlayIs, PlayFacts DEF Placed
<1>2. o \in Dirs
  BY <1>1, CellAt
<1>3. ~(Across(dir, c) = 1 /\ IsSet(At(dir, Along(dir, c), 0)))
  BY <1>1 DEF AtTheEdge
<1>4. CrossScore(dir, t) =
        IF W = {c} THEN 0
        ELSE (Additional(t) + values) * GetWord(t.mask) + Additional(t)
  <2>1. OnBoard
    BY DEF Inv
  <2> HIDE DEF t
  <2>2. QED BY <1>1, <1>3, <2>1, CrossScoreIs
<1>5. WorthAcross(dir, c) = IF W = {c} THEN 0 ELSE Worth(W)
  BY DEF WorthAcross
<1>6. Added(c) = Additional(t) /\ Added(c) \in Int
  <2>1. Added(c) = Additional(t)
    BY <1>1 DEF Added, Value, Additional
  <2>2. QED BY <1>1, <2>1, AdditionalType
<1>7. GetWord(t.mask) \in Int
  BY MultiplierFacts
<1>8. W \in SUBSET Cells /\ \A d \in W : IsSet(d)
  BY <1>1, <1>2, WordIsSet DEF Word, Line
<1>9. values \in Int
  <2>1. \A d \in W : Value(d) \in Int
    BY <1>8, BoardAssumption DEF Inv, OnBoard, Value, IsSet
  <2>2. IsFiniteSet(W)
    BY <1>8, FiniteCells
  <2>3. Numbers([d \in W |-> Value(d)])
    BY <2>1, <2>2 DEF Numbers
  <2>4. QED BY <2>3, SumFacts
<1>10. Worth(W) = (values + Additional(t)) * GetWord(t.mask)
  <2>1. W \cap Placed = {c}
    BY OneAcross
  <2>2. Worth(W) = (values + SumFunction([d \in {c} |-> Added(d)]))
                     * Product([d \in {c} |-> GetWord(MaskOn(d))])
    <3>1. OnBoard
      BY DEF Inv
    <3> HIDE DEF W, c
    <3>2. QED BY <1>8, <2>1, <3>1, WorthIs
  <2>3. SumFunction([d \in {c} |-> Added(d)]) = Additional(t)
    <3>1. [d \in {c} |-> Added(d)] = [d \in {c} |-> Additional(t)]
      BY <1>6
    <3>2. Additional(t) \in Int
      BY <1>6
    <3>3. QED BY <3>1, <3>2, SumOfOne
  <2>4. Product([d \in {c} |-> GetWord(MaskOn(d))]) = GetWord(t.mask)
    <3>1. [d \in {c} |-> GetWord(MaskOn(d))] = [d \in {c} |-> GetWord(t.mask)]
      BY <1>1
    <3>2. QED BY <1>7, <3>1, ProductOfOne
  <2>5. QED BY <2>2, <2>3, <2>4
<1>11. Twice(dir, c) = IF W = {c} THEN 0 ELSE Additional(t)
  BY <1>6 DEF Twice
<1> HIDE DEF values, W, c, t
<1>12. Additional(t) \in Int
  BY <1>6
<1>13. CrossScore(dir, t) = WorthAcross(dir, c) + Twice(dir, c)
  <2>1. CASE W = {c}
    BY <1>4, <1>5, <1>11, <2>1
  <2>2. CASE W # {c}
    <3>1. Additional(t) + values = values + Additional(t)
      BY <1>9, <1>12
    <3>2. QED BY <1>4, <1>5, <1>10, <1>11, <2>2, <3>1
  <2>3. QED BY <2>1, <2>2
<1>14. Worth(W) \in Int
  BY <1>7, <1>9, <1>10, <1>12
<1>15. WorthAcross(dir, c) \in Int /\ Twice(dir, c) \in Int
  BY <1>5, <1>11, <1>12, <1>14
<1>16. QED BY <1>13, <1>15 DEF t, c

(* A play is worth what the rules say, and what is added twice.            *)
LEMMA PlayIsWorth ==
  ASSUME Inv, NEW dir \in Dirs, Play(dir), ~AtTheEdge(dir)
  PROVE  /\ Score(letters) = RulesScore(dir)
                               + SumFunction([c \in Placed |-> Twice(dir, c)])
         /\ RulesScore(dir) \in Int
<1> DEFINE T == DOMAIN letters
           h == [i \in T |-> letters[i].pos]
           f == [c \in Placed |-> WorthAcross(dir, c)]
           g == [c \in Placed |-> Twice(dir, c)]
           k == [c \in Placed |-> f[c] + g[c]]
           across == [i \in T |-> CrossScore(dir, letters[i])]
           main == Worth(Word(dir, letters[1].pos))
<1>1. Plays(dir, letters) /\ Names(h, T, Placed)
  BY PlayIs
<1>2. IsFiniteSet(T) /\ \A i \in T : letters[i].pos \in Cells
  BY <1>1, PlayFacts
<1>3. Score(letters) = main + SumFunction(across)
  <2>1. Direction(letters) = dir
    BY <1>1, DirectionOfPlay
  <2>2. Score(letters) =
          (WordScore(letters) + SumFunction([i \in T |-> Additional(letters[i])]))
            * Product([i \in T |-> GetWord(letters[i].mask)]) + SumFunction(across)
    BY <2>1 DEF Score
  <2>3. QED BY <2>2, WorthOfPlay
<1>4. IsFiniteSet(Placed)
  <2>1. Placed \in SUBSET Cells
    BY <1>2 DEF Placed
  <2>2. QED BY <2>1, FiniteCells
<1>5. \A c \in Placed : WorthAcross(dir, c) \in Int /\ Twice(dir, c) \in Int
  <2>1. ASSUME NEW c \in Placed PROVE \E i \in T : c = letters[i].pos
    BY DEF Placed
  <2>2. QED BY <2>1, WorthAcrossIs
<1>6. /\ Numbers(f) /\ Numbers(g) /\ Numbers(k)
      /\ DOMAIN f = Placed /\ DOMAIN g = Placed /\ DOMAIN k = Placed
  BY <1>4, <1>5 DEF Numbers
<1>7. \A i \in T : h[i] \in Placed /\ h[i] = letters[i].pos
  BY DEF Placed
<1>8. ASSUME NEW i \in T PROVE CrossScore(dir, letters[i]) = k[h[i]]
  BY <1>7, WorthAcrossIs
<1>9. across = [i \in T |-> k[h[i]]]
  BY <1>8
<1> HIDE DEF f, g, h, T, across
<1>10. SumFunction(k) = SumFunction(f) + SumFunction(g)
  BY <1>6, SumOfBoth
<1> HIDE DEF k
<1>11. SumFunction([i \in T |-> k[h[i]]]) = SumFunction(k)
  BY <1>1, <1>2, <1>6, SumRenamed
<1>12. SumFunction(f) \in Int /\ SumFunction(g) \in Int
  BY <1>6, SumFacts
<1>13. RulesScore(dir) = main + SumFunction(f)
  BY DEF RulesScore, f
<1>14. main \in Int
  <2> DEFINE W == Word(dir, letters[1].pos)
  <2>1. letters[1].pos \in Cells
    BY <1>1, PlayFacts
  <2>2. W \in SUBSET Cells /\ \A c \in W : IsSet(c)
    BY <2>1, WordIsSet DEF Word, Line
  <2>3. OnBoard
    BY DEF Inv
  <2> HIDE DEF W
  <2>4. Worth(W) \in Int
    BY <2>2, <2>3, WorthType
  <2>5. QED BY <2>4 DEF W
<1> HIDE DEF main
<1>15. /\ Score(letters) = RulesScore(dir) + SumFunction(g)
       /\ RulesScore(dir) \in Int
  BY <1>3, <1>9, <1>10, <1>11, <1>12, <1>13, <1>14
<1>16. QED BY <1>15 DEF g

(* It is worth what the rules say where there is nothing to add twice.     *)
LEMMA PlayByTheRules ==
  ASSUME Inv, NEW dir \in Dirs, Play(dir), ~AtTheEdge(dir), ~MultipliedAcross(dir)
  PROVE  Score(letters) = RulesScore(dir)
<1> DEFINE g == [c \in Placed |-> Twice(dir, c)]
<1>1. /\ Placed \in SUBSET Cells
      /\ \A c \in Placed : Value(c) \in Int
  <2>1. ASSUME NEW i \in DOMAIN letters
        PROVE  /\ letters[i].pos \in Cells
               /\ character[letters[i].pos] \in Letters
    <3>1. letters[i].pos \in Cells /\ IsSet(letters[i].pos)
      BY PlayIs, PlayFacts
    <3>2. QED BY <3>1 DEF Inv, OnBoard, IsSet
  <2>2. QED BY <2>1, BoardAssumption DEF Placed, Value
<1>2. ASSUME NEW c \in Placed PROVE Twice(dir, c) = 0
  <2>1. CASE Word(Other(dir), c) = {c}
    BY <2>1 DEF Twice
  <2>2. CASE Word(Other(dir), c) # {c}
    <3>1. ~(GetChar(MaskOn(c)) > 1)
      BY <2>2 DEF MultipliedAcross
    <3>2. GetChar(MaskOn(c)) = 1
      BY <3>1, MultiplierFacts
    <3>3. Added(c) = 0
      BY <1>1, <3>2 DEF Added
    <3>4. QED BY <2>2, <3>3 DEF Twice
  <2>3. QED BY <2>1, <2>2
<1>3. Numbers(g) /\ \A c \in DOMAIN g : g[c] = 0
  BY <1>1, <1>2, FiniteCells DEF Numbers
<1> HIDE DEF g
<1>4. SumFunction(g) = 0
  BY <1>3, SumOfNone
<1>5. /\ Score(letters) = RulesScore(dir) + SumFunction(g)
      /\ RulesScore(dir) \in Int
  BY PlayIsWorth DEF g
<1>6. QED BY <1>4, <1>5

(* Both properties follow from the invariant.                              *)
LEMMA InvIsEnough == Inv => ScoresByTheRules /\ OrderIsIrrelevant
<1>1. ASSUME Inv PROVE ScoresByTheRules
  BY <1>1, PlayByTheRules DEF ScoresByTheRules, Dirs
<1>2. ASSUME Inv PROVE OrderIsIrrelevant
  <2>1. ASSUME NEW dir \in Dirs, Play(dir), NEW i \in DOMAIN letters
        PROVE  Score(SubSeq(letters, i + 1, Len(letters)) \o SubSeq(letters, 1, i))
                 = Score(letters)
    <3>1. Plays(dir, letters) /\ OnBoard
      BY <1>2, <2>1, PlayIs DEF Inv
    <3>2. QED BY <3>1, PlayRotated
  <2>2. QED BY <2>1 DEF OrderIsIrrelevant, Dirs
<1>3. QED BY <1>1, <1>2

(* What is on the board and in a turn, in every reachable state            *)
(* (board.cpp:93-149): the last tile set in a cell is the one there.       *)
THEOREM BoardInvariance == Spec => []Inv
<1>1. QED BY InvInit, InvNext, PTL DEF Spec

(* What Board::score counts by scanning the board from the first tile and  *)
(* across each (board.cpp:34-193) is what the rules say the words of the   *)
(* play are worth, but for the two cases that ScoresByTheRules leaves out: *)
(* on a board of any size, with any letters, scores and layouts.           *)
THEOREM ScoredByTheRules == Spec => []ScoresByTheRules
<1>1. QED BY BoardInvariance, InvIsEnough, PTL

(* How far a letter on a multiplier with a word across it is from the      *)
(* rules (board.cpp:149-152, 184-187): its additional points are counted   *)
(* once more than that, and nothing else is amiss.                         *)
THEOREM AddedTwiceAcross ==
  Spec => [](\A dir \in Dirs : Play(dir) /\ ~AtTheEdge(dir) =>
               Score(letters) = RulesScore(dir)
                                  + SumFunction([c \in Placed |-> Twice(dir, c)]))
<1>1. Inv => \A dir \in Dirs : Play(dir) /\ ~AtTheEdge(dir) =>
               Score(letters) = RulesScore(dir)
                                  + SumFunction([c \in Placed |-> Twice(dir, c)])
  BY PlayIsWorth
<1>2. QED BY <1>1, BoardInvariance, PTL

(* Board::score reads the word and the direction of a play from its first  *)
(* tiles (board.cpp:34-79): the score is the same whichever came first.    *)
THEOREM AnyTileFirst == Spec => []OrderIsIrrelevant
<1>1. QED BY BoardInvariance, InvIsEnough, PTL

(* And in whatever order they were all set: p names the tiles anew.        *)
THEOREM ScoredInAnyOrder ==
  Spec => [](
      \A dir \in Dirs, p \in [DOMAIN letters -> DOMAIN letters] :
        Play(dir) /\ (\A i, j \in DOMAIN letters : p[i] = p[j] => i = j)
          => Score([i \in DOMAIN letters |-> letters[p[i]]]) = Score(letters))
<1> DEFINE AnyOrder ==
      \A dir \in Dirs, p \in [DOMAIN letters -> DOMAIN letters] :
        Play(dir) /\ (\A i, j \in DOMAIN letters : p[i] = p[j] => i = j)
          => Score([i \in DOMAIN letters |-> letters[p[i]]]) = Score(letters)
<1>1. Inv => AnyOrder
  <2> SUFFICES ASSUME Inv, NEW dir \in Dirs, Play(dir),
                      NEW p \in [DOMAIN letters -> DOMAIN letters],
                      \A i, j \in DOMAIN letters : p[i] = p[j] => i = j
               PROVE  Score([i \in DOMAIN letters |-> letters[p[i]]]) = Score(letters)
    OBVIOUS
  <2>1. Plays(dir, letters) /\ OnBoard
    BY PlayIs DEF Inv
  <2>2. p \in Surjection(DOMAIN letters, DOMAIN letters)
    <3>1. p \in Injection(DOMAIN letters, DOMAIN letters)
      BY DEF Injection, IsInjective
    <3>2. IsFiniteSet(DOMAIN letters)
      BY <2>1, PlayFacts
    <3>3. QED BY <3>1, <3>2, FS_Injection
  <2>3. Names(p, DOMAIN letters, DOMAIN letters)
    BY <2>2 DEF Names, Surjection
  <2>4. QED BY <2>1, <2>3, PlayPermuted
<1>2. QED BY <1>1, BoardInvariance, PTL
=============================================================================
