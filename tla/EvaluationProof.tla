--------------------------- MODULE EvaluationProof ---------------------------
(***************************************************************************)
(* What module Evaluation, and the verdict of module Verdict it gives each *)
(* case, satisfy for all settings, catalogues and datasets: types, the     *)
(* ceiling of the scores, the rule that numbers alone do not win, the      *)
(* automatic mode's fall-backs, and the report's figures.                  *)
(*                                                                         *)
(* Sums over finite sets come first (the folds of the community modules    *)
(* are recursive functions: their facts are proved from a least            *)
(* counterexample), then whole-number division, the scores, the inductive  *)
(* invariant of a classification and that of an evaluation.                *)
(***************************************************************************)
EXTENDS Evaluation, FiniteSetTheorems, SequenceTheorems, TLAPS

-----------------------------------------------------------------------------
(* Induction, by the least that fails.                                     *)

\* Every set of numbers that is not empty has a least.
LEMMA LeastNumber ==
    ASSUME NEW T \in SUBSET Nat, T # {}
    PROVE  \E n \in T : \A m \in T : n <= m
<1> DEFINE R == {ss \in Nat \X Nat : ss[1] < ss[2]}
<1>1. IsWellFoundedOn(R, Nat)
  BY NatLessThanWellFounded DEF OpToRel
<1>2. PICK n \in T : \A m \in T : ~ (<<m, n>> \in R)
  <2> HIDE DEF R
  <2> QED BY <1>1, WFMin
<1>3. \A m \in T : ~(m < n)
  BY <1>2
<1> QED
  BY <1>3

\* A set of numbers that has 0 and, of each number below n, the next has all to n.
LEMMA Climbing ==
    ASSUME NEW n \in Nat, NEW T,
           0 \in T,
           \A i \in 0..n : i \in T /\ i + 1 <= n => i + 1 \in T
    PROVE  \A i \in 0..n : i \in T
<1> DEFINE Missing == {i \in 0..n : i \notin T}
<1>1. SUFFICES ASSUME Missing # {} PROVE FALSE
  OBVIOUS
<1>2. PICK i \in Missing : \A j \in Missing : i <= j
  <2>1. Missing \in SUBSET Nat
    OBVIOUS
  <2> HIDE DEF Missing
  <2> QED BY <1>1, <2>1, LeastNumber
<1>3. i \in 0..n /\ i # 0 /\ i - 1 \in 0..n /\ i - 1 \in T
  BY <1>2
<1> QED
  BY <1>2, <1>3

\* G has a set of which it has all that lack one element.
Grows(G, T) == T # {} /\ (\A x \in T : T \ {x} \in G) => T \in G

\* A family of sets that has the empty one, and each of which it has all that
\* lack one element, has every subset of a finite set.
LEMMA Growing ==
    ASSUME NEW S, IsFiniteSet(S), NEW G, {} \in G, \A T \in SUBSET S : Grows(G, T)
    PROVE  \A T \in SUBSET S : T \in G
<1> DEFINE Missing == {T \in SUBSET S : T \notin G}
<1>1. SUFFICES ASSUME Missing # {} PROVE FALSE
  OBVIOUS
<1>2. PICK T \in Missing : \A U \in Missing : ~(<<U, T>> \in StrictSubsetOrdering(S))
  <2>1. Missing \subseteq FiniteSubsetsOf(S)
    BY FS_FiniteSubsetsOfFinite
  <2> HIDE DEF Missing
  <2> QED
    BY <1>1, <2>1, FS_StrictSubsetOrderingWellFounded, WFMin
<1>3. T # {}
  BY <1>2
<1>4. PICK x \in T : T \ {x} \notin G
  BY <1>2, <1>3 DEF Grows
<1>5. T \ {x} \in Missing /\ T \ {x} \subseteq T /\ T \ {x} # T
  BY <1>4
<1> QED
  BY <1>2, <1>5 DEF StrictSubsetOrdering

\* The greatest of a bounded set of numbers.
LEMMA Greatest ==
    ASSUME NEW T \in SUBSET Int, T # {}, NEW bound \in Int, \A x \in T : x <= bound
    PROVE  Max(T) \in T /\ \A y \in T : y <= Max(T)
<1> DEFINE U == {bound - x : x \in T}
<1>1. U \in SUBSET Nat /\ U # {}
  <2>1. \A x \in T : bound - x \in Nat
    OBVIOUS
  <2> QED
    BY <2>1
<1>2. PICK u \in U : \A m \in U : u <= m
  <2> HIDE DEF U
  <2> QED BY <1>1, LeastNumber
<1>3. PICK x \in T : u = bound - x
  OBVIOUS
<1>4. \A y \in T : x >= y
  <2>1. ASSUME NEW y \in T PROVE x >= y
    <3>1. bound - y \in U
      OBVIOUS
    <3>2. bound - x <= bound - y
      BY <1>2, <1>3, <3>1
    <3>3. x \in Int /\ y \in Int
      OBVIOUS
    <3> HIDE DEF U
    <3> QED
      BY <3>2, <3>3
  <2> QED
    BY <2>1
<1> QED
  BY <1>4 DEF Max

-----------------------------------------------------------------------------
(* Sums over finite sets.                                                  *)

Some(s) == CHOOSE x \in s : TRUE
SumStep(g, f, s) == IF s = {} THEN 0 ELSE f[Some(s)] + g[s \ {Some(s)}]
Sums(f, S) == CHOOSE g : g = [s \in SUBSET S |-> SumStep(g, f, s)]

LEMMA SumIs ==
    ASSUME NEW f, NEW S
    PROVE  SumFunctionOnSet(f, S) = Sums(f, S)[S]
BY DEF SumFunctionOnSet, FoldFunctionOnSet, MapThenFoldSet, Sums, SumStep, Some

LEMMA SomeOne ==
    ASSUME NEW s, s # {}
    PROVE  Some(s) \in s
BY DEF Some

\* The sums over the subsets of a finite set, a smaller one's before.
LEMMA SumsExist ==
    ASSUME NEW S, IsFiniteSet(S), NEW f
    PROVE  Sums(f, S) = [s \in SUBSET S |-> SumStep(Sums(f, S), f, s)]
<1> DEFINE n == Cardinality(S)
           Level(m) == {s \in SUBSET S : Cardinality(s) <= m}
           Solves(g, m) == g = [s \in Level(m) |-> SumStep(g, f, s)]
           Made == {m \in 0..n : \E g : Solves(g, m)}
<1>1. n \in Nat /\ \A s \in SUBSET S : IsFiniteSet(s) /\ Cardinality(s) \in Nat /\ Cardinality(s) <= n
  BY FS_Subset, FS_CardinalityType
<1>2. \A s \in SUBSET S : s # {} => /\ s \ {Some(s)} \in SUBSET S
                                    /\ Cardinality(s \ {Some(s)}) = Cardinality(s) - 1
  BY <1>1, SomeOne, FS_RemoveElement
<1>3. \A s \in SUBSET S : Cardinality(s) <= 0 => s = {}
  BY <1>1, FS_EmptySet
<1> HIDE DEF n
<1>4. 0 \in Made
  <2> DEFINE g == [s \in Level(0) |-> 0]
  <2>1. \A s \in Level(0) : SumStep(g, f, s) = 0
    BY <1>3 DEF SumStep
  <2>2. Solves(g, 0)
    <3> HIDE DEF Level
    <3>1. g = [s \in Level(0) |-> SumStep(g, f, s)]
      BY <2>1
    <3> QED
      BY <3>1
  <2>3. 0 \in 0..n
    BY <1>1
  <2> HIDE DEF g, Solves
  <2> QED
    BY <2>2, <2>3
<1>5. ASSUME NEW m \in 0..n, m \in Made, m + 1 <= n PROVE m + 1 \in Made
  <2>1. PICK g : Solves(g, m)
    BY <1>5
  <2> DEFINE h == [s \in Level(m + 1) |-> SumStep(g, f, s)]
  <2>2. ASSUME NEW s \in Level(m + 1) PROVE SumStep(h, f, s) = SumStep(g, f, s)
    <3>1. CASE s = {}
      BY <3>1 DEF SumStep
    <3>2. CASE s # {}
      <4> DEFINE r == s \ {Some(s)}
      <4>1. r \in Level(m) /\ r \in Level(m + 1)
        BY <1>1, <1>2, <1>5, <3>2
      <4> HIDE DEF r, Level
      <4>2. h[r] = SumStep(g, f, r)
        BY <4>1
      <4>3. g[r] = SumStep(g, f, r)
        BY <2>1, <4>1
      <4> QED
        BY <4>2, <4>3 DEF SumStep, r
    <3> QED
      BY <3>1, <3>2
  <2>3. Solves(h, m + 1)
    <3> HIDE DEF Level
    <3>1. h = [s \in Level(m + 1) |-> SumStep(h, f, s)]
      BY <2>2
    <3> QED
      BY <3>1
  <2>4. m + 1 \in 0..n
    BY <1>5
  <2> HIDE DEF h, Solves
  <2> QED
    BY <2>3, <2>4
<1>6. n \in Made
  <2> HIDE DEF Made
  <2>1. \A m \in 0..n : m \in Made
    BY <1>1, <1>4, <1>5, Climbing
  <2> QED
    BY <1>1, <2>1
<1>7. PICK g : Solves(g, n)
  BY <1>6
<1>8. Level(n) = SUBSET S
  BY <1>1
<1>9. g = [s \in SUBSET S |-> SumStep(g, f, s)]
  BY <1>7, <1>8
<1> QED
  BY <1>9 DEF Sums

\* The sums of a subset are those of the set.
LEMMA SumsAgree ==
    ASSUME NEW S, IsFiniteSet(S), NEW f, NEW T \in SUBSET S
    PROVE  \A s \in SUBSET T : Sums(f, S)[s] = Sums(f, T)[s]
<1> DEFINE G == {s \in SUBSET T : Sums(f, S)[s] = Sums(f, T)[s]}
<1>1. IsFiniteSet(T)
  BY FS_Subset
<1>2. ASSUME NEW s \in SUBSET T
      PROVE  Sums(f, S)[s] = SumStep(Sums(f, S), f, s) /\ Sums(f, T)[s] = SumStep(Sums(f, T), f, s)
  <2>1. Sums(f, S) = [t \in SUBSET S |-> SumStep(Sums(f, S), f, t)]
    BY SumsExist
  <2>2. Sums(f, T) = [t \in SUBSET T |-> SumStep(Sums(f, T), f, t)]
    BY <1>1, SumsExist
  <2>3. s \in SUBSET S
    OBVIOUS
  <2> DEFINE F == Sums(f, S)
             H == Sums(f, T)
  <2> HIDE DEF F, H
  <2>4. F[s] = SumStep(F, f, s)
    BY <2>1, <2>3 DEF F
  <2>5. H[s] = SumStep(H, f, s)
    BY <2>2 DEF H
  <2> QED
    BY <2>4, <2>5 DEF F, H
<1>3. {} \in G
  BY <1>2 DEF SumStep
<1>4. ASSUME NEW s \in SUBSET T PROVE Grows(G, s)
  <2> SUFFICES ASSUME s # {}, \A x \in s : s \ {x} \in G PROVE s \in G
    BY DEF Grows
  <2>1. s \ {Some(s)} \in G
    BY SomeOne
  <2>2. Sums(f, S)[s \ {Some(s)}] = Sums(f, T)[s \ {Some(s)}]
    BY <2>1
  <2> QED
    BY <1>2, <2>2 DEF SumStep
<1>5. \A s \in SUBSET T : s \in G
  <2> HIDE DEF G
  <2> QED BY <1>1, <1>3, <1>4, Growing
<1> QED
  BY <1>5

LEMMA SumUnfold ==
    ASSUME NEW S, IsFiniteSet(S), NEW f
    PROVE  /\ S = {} => SumFunctionOnSet(f, S) = 0
           /\ S # {} => SumFunctionOnSet(f, S) = f[Some(S)] + SumFunctionOnSet(f, S \ {Some(S)})
<1>1. Sums(f, S)[S] = SumStep(Sums(f, S), f, S)
  <2>1. Sums(f, S) = [t \in SUBSET S |-> SumStep(Sums(f, S), f, t)]
    BY SumsExist
  <2> DEFINE F == Sums(f, S)
  <2> HIDE DEF F
  <2>2. F = [t \in SUBSET S |-> SumStep(F, f, t)]
    BY <2>1 DEF F
  <2>3. F[S] = SumStep(F, f, S)
    BY <2>2
  <2> QED
    BY <2>3 DEF F
<1>2. SumFunctionOnSet(f, S) = Sums(f, S)[S]
  BY SumIs
<1>3. CASE S = {}
  BY <1>1, <1>2, <1>3 DEF SumStep
<1>4. CASE S # {}
  <2> DEFINE T == S \ {Some(S)}
  <2>1. T \in SUBSET S /\ T \in SUBSET T
    OBVIOUS
  <2> HIDE DEF T
  <2>2. Sums(f, S)[T] = Sums(f, T)[T]
    BY <2>1, SumsAgree
  <2>3. SumFunctionOnSet(f, T) = Sums(f, T)[T]
    BY SumIs
  <2> QED
    BY <1>1, <1>2, <1>4, <2>2, <2>3 DEF SumStep, T
<1> QED
  BY <1>3, <1>4

LEMMA SumEmpty ==
    ASSUME NEW f
    PROVE  SumFunctionOnSet(f, {}) = 0
<1>1. IsFiniteSet({})
  BY FS_EmptySet
<1> QED
  BY <1>1, SumUnfold

\* f has a number for each of S.
Numbers(f, S) == \A x \in S : f[x] \in Int

LEMMA SumInteger ==
    ASSUME NEW S, IsFiniteSet(S), NEW f, Numbers(f, S)
    PROVE  SumFunctionOnSet(f, S) \in Int
<1> DEFINE G == {T \in SUBSET S : SumFunctionOnSet(f, T) \in Int}
<1>1. {} \in G
  BY SumEmpty
<1>2. ASSUME NEW T \in SUBSET S PROVE Grows(G, T)
  <2> SUFFICES ASSUME T # {}, \A x \in T : T \ {x} \in G PROVE T \in G
    BY DEF Grows
  <2>1. Some(T) \in T /\ SumFunctionOnSet(f, T \ {Some(T)}) \in Int
    BY SomeOne
  <2>2. IsFiniteSet(T)
    BY FS_Subset
  <2>3. SumFunctionOnSet(f, T) = f[Some(T)] + SumFunctionOnSet(f, T \ {Some(T)})
    BY <2>2, SumUnfold
  <2> QED
    BY <2>1, <2>3 DEF Numbers
<1>3. \A T \in SUBSET S : T \in G
  <2> HIDE DEF G
  <2> QED BY <1>1, <1>2, Growing
<1> QED
  BY <1>3

\* Whichever element is taken off first, the sum is the same.
LEMMA SumRemove ==
    ASSUME NEW S, IsFiniteSet(S), NEW f, Numbers(f, S), NEW x \in S
    PROVE  SumFunctionOnSet(f, S) = f[x] + SumFunctionOnSet(f, S \ {x})
<1> DEFINE Right(T, y) == SumFunctionOnSet(f, T) = f[y] + SumFunctionOnSet(f, T \ {y})
           G == {T \in SUBSET S : \A y \in T : Right(T, y)}
<1>1. {} \in G
  OBVIOUS
<1>2. ASSUME NEW T \in SUBSET S PROVE Grows(G, T)
  <2> SUFFICES ASSUME T # {}, \A y \in T : T \ {y} \in G, NEW y \in T PROVE Right(T, y)
    BY DEF Grows
  <2> DEFINE p == Some(T)
             rest == SumFunctionOnSet(f, (T \ {p}) \ {y})
  <2>1. p \in T /\ IsFiniteSet(T)
    BY SomeOne, FS_Subset
  <2>2. SumFunctionOnSet(f, T) = f[p] + SumFunctionOnSet(f, T \ {p})
    BY <2>1, SumUnfold
  <2> HIDE DEF p
  <2>3. CASE p = y
    BY <2>2, <2>3
  <2>4. CASE p # y
    <3>1. T \ {p} \in G /\ T \ {y} \in G
      BY <2>1
    <3>2. Right(T \ {p}, y) /\ Right(T \ {y}, p)
      BY <2>1, <2>4, <3>1
    <3>3. (T \ {y}) \ {p} = (T \ {p}) \ {y}
      OBVIOUS
    <3>4. SumFunctionOnSet(f, T \ {p}) = f[y] + rest /\ SumFunctionOnSet(f, T \ {y}) = f[p] + rest
      BY <3>2, <3>3
    <3>5. rest \in Int
      <4>1. IsFiniteSet((T \ {p}) \ {y}) /\ Numbers(f, (T \ {p}) \ {y})
        BY <2>1, FS_Subset DEF Numbers
      <4> QED
        BY <4>1, SumInteger
    <3>6. f[p] \in Int /\ f[y] \in Int
      BY <2>1 DEF Numbers
    <3> HIDE DEF rest
    <3>7. f[p] + (f[y] + rest) = f[y] + (f[p] + rest)
      BY <3>5, <3>6
    <3> QED
      BY <2>2, <3>4, <3>7
  <2> QED
    BY <2>3, <2>4
<1>3. \A T \in SUBSET S : T \in G
  <2> HIDE DEF G
  <2> QED BY <1>1, <1>2, Growing
<1> QED
  BY <1>3

\* A sum of nothing negative is not negative.
LEMMA SumNatural ==
    ASSUME NEW S, IsFiniteSet(S), NEW f, \A x \in S : f[x] \in Nat
    PROVE  SumFunctionOnSet(f, S) \in Nat
<1> DEFINE G == {T \in SUBSET S : SumFunctionOnSet(f, T) \in Nat}
<1>1. {} \in G
  BY SumEmpty
<1>2. ASSUME NEW T \in SUBSET S PROVE Grows(G, T)
  <2> SUFFICES ASSUME T # {}, \A x \in T : T \ {x} \in G PROVE T \in G
    BY DEF Grows
  <2>1. Some(T) \in T /\ SumFunctionOnSet(f, T \ {Some(T)}) \in Nat
    BY SomeOne
  <2>2. IsFiniteSet(T)
    BY FS_Subset
  <2>3. SumFunctionOnSet(f, T) = f[Some(T)] + SumFunctionOnSet(f, T \ {Some(T)})
    BY <2>2, SumUnfold
  <2> QED
    BY <2>1, <2>3
<1>3. \A T \in SUBSET S : T \in G
  <2> HIDE DEF G
  <2> QED BY <1>1, <1>2, Growing
<1> QED
  BY <1>3

\* The sum of two functions is that of their sums.
LEMMA SumOfSums ==
    ASSUME NEW S, IsFiniteSet(S), NEW f, NEW g, NEW h, Numbers(g, S), Numbers(h, S),
           \A x \in S : f[x] = g[x] + h[x]
    PROVE  SumFunctionOnSet(f, S) = SumFunctionOnSet(g, S) + SumFunctionOnSet(h, S)
<1> DEFINE G == {T \in SUBSET S :
                   SumFunctionOnSet(f, T) = SumFunctionOnSet(g, T) + SumFunctionOnSet(h, T)}
<1>1. {} \in G
  BY SumEmpty
<1>2. ASSUME NEW T \in SUBSET S PROVE Grows(G, T)
  <2> SUFFICES ASSUME T # {}, \A x \in T : T \ {x} \in G PROVE T \in G
    BY DEF Grows
  <2> DEFINE p == Some(T)
             U == T \ {p}
  <2>1. p \in T /\ IsFiniteSet(T) /\ IsFiniteSet(U) /\ Numbers(g, U) /\ Numbers(h, U)
    BY SomeOne, FS_Subset DEF Numbers
  <2>2. SumFunctionOnSet(f, U) = SumFunctionOnSet(g, U) + SumFunctionOnSet(h, U)
    BY <2>1
  <2>3. /\ SumFunctionOnSet(f, T) = f[p] + SumFunctionOnSet(f, U)
        /\ SumFunctionOnSet(g, T) = g[p] + SumFunctionOnSet(g, U)
        /\ SumFunctionOnSet(h, T) = h[p] + SumFunctionOnSet(h, U)
    BY <2>1, SumUnfold
  <2>4. SumFunctionOnSet(g, U) \in Int /\ SumFunctionOnSet(h, U) \in Int
    BY <2>1, SumInteger
  <2>5. g[p] \in Int /\ h[p] \in Int /\ f[p] = g[p] + h[p]
    BY <2>1 DEF Numbers
  <2> HIDE DEF p, U
  <2> QED
    BY <2>2, <2>3, <2>4, <2>5
<1>3. \A T \in SUBSET S : T \in G
  <2> HIDE DEF G
  <2> QED BY <1>1, <1>2, Growing
<1> QED
  BY <1>3

\* A part's sum is no more than the whole's, when nothing is negative.
LEMMA SumOfPart ==
    ASSUME NEW S, IsFiniteSet(S), NEW f, \A x \in S : f[x] \in Nat, NEW T \in SUBSET S
    PROVE  SumFunctionOnSet(f, T) <= SumFunctionOnSet(f, S)
<1> DEFINE G == {D \in SUBSET S : SumFunctionOnSet(f, S \ D) <= SumFunctionOnSet(f, S)}
<1>1. {} \in G
  <2>1. S \ {} = S /\ SumFunctionOnSet(f, S) \in Nat
    BY SumNatural
  <2> QED
    BY <2>1
<1>2. ASSUME NEW D \in SUBSET S PROVE Grows(G, D)
  <2> SUFFICES ASSUME D # {}, \A x \in D : D \ {x} \in G PROVE D \in G
    BY DEF Grows
  <2> DEFINE p == Some(D)
             U == S \ (D \ {p})
  <2>1. p \in D /\ p \in U /\ U \ {p} = S \ D
    BY SomeOne
  <2>2. IsFiniteSet(U) /\ Numbers(f, U) /\ IsFiniteSet(S \ D)
    BY FS_Subset DEF Numbers
  <2>3. SumFunctionOnSet(f, U) = f[p] + SumFunctionOnSet(f, S \ D)
    BY <2>1, <2>2, SumRemove
  <2>4. SumFunctionOnSet(f, U) <= SumFunctionOnSet(f, S)
    BY <2>1
  <2>5. f[p] \in Nat /\ SumFunctionOnSet(f, S \ D) \in Nat /\ SumFunctionOnSet(f, S) \in Nat
    BY <2>1, <2>2, SumNatural
  <2> HIDE DEF p, U
  <2> QED
    BY <2>3, <2>4, <2>5
<1>3. \A D \in SUBSET S : D \in G
  <2> HIDE DEF G
  <2> QED BY <1>1, <1>2, Growing
<1>4. S \ T \in G /\ S \ (S \ T) = T
  BY <1>3
<1> QED
  BY <1>4

LEMMA SumOfNothing ==
    ASSUME NEW S, IsFiniteSet(S), NEW f, \A x \in S : f[x] = 0
    PROVE  SumFunctionOnSet(f, S) = 0
<1> DEFINE G == {T \in SUBSET S : SumFunctionOnSet(f, T) = 0}
<1>1. {} \in G
  BY SumEmpty
<1>2. ASSUME NEW T \in SUBSET S PROVE Grows(G, T)
  <2> SUFFICES ASSUME T # {}, \A x \in T : T \ {x} \in G PROVE T \in G
    BY DEF Grows
  <2>1. IsFiniteSet(T) /\ Numbers(f, T)
    BY FS_Subset DEF Numbers
  <2>2. PICK x \in T : SumFunctionOnSet(f, T \ {x}) = 0
    OBVIOUS
  <2>3. SumFunctionOnSet(f, T) = f[x] + SumFunctionOnSet(f, T \ {x})
    BY <2>1, SumRemove
  <2>4. f[x] = 0
    OBVIOUS
  <2> QED
    BY <2>2, <2>3, <2>4
<1>3. \A T \in SUBSET S : T \in G
  <2> HIDE DEF G
  <2> QED BY <1>1, <1>2, Growing
<1> QED
  BY <1>3

\* Of two sets the one with no fewer elements, each at least as large as every
\* one of the other's, has the larger sum.
LEMMA SumOfLarger ==
    ASSUME NEW A, IsFiniteSet(A), NEW B, IsFiniteSet(B), NEW f,
           \A x \in A \cup B : f[x] \in Nat,
           Cardinality(B) <= Cardinality(A),
           \A b \in B, a \in A : f[b] <= f[a]
    PROVE  SumFunctionOnSet(f, B) <= SumFunctionOnSet(f, A)
<1> DEFINE Beaten(T) == \A U \in SUBSET A : Cardinality(T) <= Cardinality(U) =>
                            SumFunctionOnSet(f, T) <= SumFunctionOnSet(f, U)
           G == {T \in SUBSET B : Beaten(T)}
<1>1. {} \in G
  <2>1. \A U \in SUBSET A : SumFunctionOnSet(f, U) \in Nat
    BY FS_Subset, SumNatural
  <2> QED
    BY <2>1, SumEmpty
<1>2. ASSUME NEW T \in SUBSET B PROVE Grows(G, T)
  <2> SUFFICES ASSUME T # {}, \A x \in T : T \ {x} \in G,
                      NEW U \in SUBSET A, Cardinality(T) <= Cardinality(U)
               PROVE  SumFunctionOnSet(f, T) <= SumFunctionOnSet(f, U)
    BY DEF Grows
  <2>1. IsFiniteSet(T) /\ IsFiniteSet(U) /\ Numbers(f, T) /\ Numbers(f, U)
    BY FS_Subset DEF Numbers
  <2>2. Cardinality(T) \in Nat /\ Cardinality(U) \in Nat /\ Cardinality(T) # 0
    BY <2>1, FS_CardinalityType, FS_EmptySet
  <2>3. U # {}
    <3>1. Cardinality({}) = 0
      BY FS_EmptySet
    <3>2. Cardinality(U) # 0
      BY <2>2
    <3> QED
      BY <3>1, <3>2
  <2> DEFINE p == Some(T)
             q == Some(U)
  <2>4. p \in T /\ q \in U
    BY <2>3, SomeOne
  <2> HIDE DEF p, q
  <2>5. Cardinality(T \ {p}) = Cardinality(T) - 1 /\ Cardinality(U \ {q}) = Cardinality(U) - 1
    BY <2>1, <2>4, FS_RemoveElement
  <2>6. SumFunctionOnSet(f, T \ {p}) <= SumFunctionOnSet(f, U \ {q})
    <3>1. Cardinality(T \ {p}) <= Cardinality(U \ {q})
      BY <2>2, <2>5
    <3>2. Beaten(T \ {p}) /\ U \ {q} \in SUBSET A
      BY <2>4
    <3> QED
      BY <3>1, <3>2
  <2>7. /\ SumFunctionOnSet(f, T) = f[p] + SumFunctionOnSet(f, T \ {p})
        /\ SumFunctionOnSet(f, U) = f[q] + SumFunctionOnSet(f, U \ {q})
    BY <2>1, <2>4, SumRemove
  <2>8. SumFunctionOnSet(f, T \ {p}) \in Nat /\ SumFunctionOnSet(f, U \ {q}) \in Nat
    <3>1. IsFiniteSet(T \ {p}) /\ IsFiniteSet(U \ {q})
      BY <2>1, FS_Subset
    <3> QED
      BY <3>1, SumNatural
  <2>9. f[p] \in Nat /\ f[q] \in Nat /\ f[p] <= f[q]
    BY <2>4
  <2> QED
    BY <2>6, <2>7, <2>8, <2>9
<1>3. \A T \in SUBSET B : T \in G
  <2> HIDE DEF G
  <2> QED BY <1>1, <1>2, Growing
<1>4. Beaten(B)
  BY <1>3
<1> QED
  BY <1>4

\* A finite set has a part of every smaller size.
LEMMA PartOfSize ==
    ASSUME NEW S, IsFiniteSet(S), NEW n \in Nat, n <= Cardinality(S)
    PROVE  \E T \in SUBSET S : Cardinality(T) = n
<1> DEFINE m == Cardinality(S)
           Made == {i \in 0..m : \E T \in SUBSET S : Cardinality(T) = m - i}
<1>1. m \in Nat
  BY FS_CardinalityType
<1> HIDE DEF m
<1>2. 0 \in Made
  BY <1>1 DEF m
<1>3. ASSUME NEW i \in 0..m, i \in Made, i + 1 <= m PROVE i + 1 \in Made
  <2>1. PICK T \in SUBSET S : Cardinality(T) = m - i
    BY <1>3
  <2>2. IsFiniteSet(T)
    BY FS_Subset
  <2>3. T # {}
    BY <1>1, <1>3, <2>1, FS_EmptySet
  <2>4. Cardinality(T \ {Some(T)}) = Cardinality(T) - 1
    BY <2>2, <2>3, SomeOne, FS_RemoveElement
  <2>5. T \ {Some(T)} \in SUBSET S /\ i + 1 \in 0..m /\ Cardinality(T \ {Some(T)}) = m - (i + 1)
    BY <1>1, <1>3, <2>1, <2>4
  <2> QED
    BY <2>5
<1>4. m - n \in Made
  <2>1. m - n \in 0..m
    BY <1>1 DEF m
  <2> HIDE DEF Made
  <2>2. \A i \in 0..m : i \in Made
    BY <1>1, <1>2, <1>3, Climbing
  <2> QED
    BY <2>1, <2>2
<1>5. m - (m - n) = n
  BY <1>1
<1> QED
  BY <1>4, <1>5

-----------------------------------------------------------------------------
(* Whole-number division.                                                  *)

LEMMA Division ==
    ASSUME NEW a \in Nat, NEW b \in Nat \ {0}
    PROVE  a \div b \in Nat /\ b * (a \div b) <= a /\ a < b * (a \div b) + b
OBVIOUS

LEMMA DivideByMore ==
    ASSUME NEW a \in Nat, NEW b \in Nat \ {0}, NEW c \in Nat \ {0}, b <= c
    PROVE  a \div c <= a \div b
<1>1. PICK p \in Nat : p = a \div b /\ a < b * p + b
  BY Division
<1>2. PICK q \in Nat : q = a \div c /\ c * q <= a
  BY Division
<1>3. SUFFICES ASSUME q >= p + 1 PROVE FALSE
  BY <1>1, <1>2
<1>4. c * q >= b * q
  OBVIOUS
<1>5. b * q >= b * (p + 1)
  BY <1>3
<1>6. b * (p + 1) = b * p + b
  OBVIOUS
<1> QED
  BY <1>1, <1>2, <1>4, <1>5, <1>6

LEMMA DivideMore ==
    ASSUME NEW a \in Nat, NEW c \in Nat, NEW b \in Nat \ {0}, a <= c
    PROVE  a \div b <= c \div b
<1>1. PICK p \in Nat : p = a \div b /\ b * p <= a
  BY Division
<1>2. PICK q \in Nat : q = c \div b /\ c < b * q + b
  BY Division
<1>3. SUFFICES ASSUME p >= q + 1 PROVE FALSE
  BY <1>1, <1>2
<1>4. b * p >= b * (q + 1)
  BY <1>3
<1>5. b * (q + 1) = b * q + b
  OBVIOUS
<1> QED
  BY <1>1, <1>2, <1>4, <1>5

\* The shares of parts that do not overlap are not above the whole's.
LEMMA DivideParts ==
    ASSUME NEW a \in Nat, NEW c \in Nat, NEW b \in Nat \ {0}, a + c <= b
    PROVE  (100 * a) \div b + (100 * c) \div b <= 100
<1>1. PICK p \in Nat : p = (100 * a) \div b /\ b * p <= 100 * a
  BY Division
<1>2. PICK q \in Nat : q = (100 * c) \div b /\ b * q <= 100 * c
  BY Division
<1>3. SUFFICES ASSUME p + q >= 101 PROVE FALSE
  BY <1>1, <1>2
<1>4. b * (p + q) <= 100 * b
  <2>1. b * (p + q) = b * p + b * q
    OBVIOUS
  <2> QED
    BY <1>1, <1>2, <2>1
<1>5. b * (p + q) >= b * 101
  BY <1>3
<1> QED
  BY <1>4, <1>5

-----------------------------------------------------------------------------
(* Strategies and hits.                                                    *)

Strategies == [dense : BOOLEAN, bm25 : BOOLEAN, k : Nat \ {0}, topN : Nat \ {0}, topK : Nat]

LEMMA BuiltinStrategies ==
    \A name \in DOMAIN Builtin : Builtin[name] \in Strategies
<1>1. RrfK \in Nat \ {0} /\ TopN \in Nat \ {0} /\ TopK \in Nat
  BY SettingsAssumption
<1>2. /\ Strategy(TRUE, TRUE, RrfK, TopN, TopK) \in Strategies
      /\ Strategy(TRUE, FALSE, 60, 3, 10) \in Strategies
      /\ Strategy(FALSE, TRUE, 60, 3, 10) \in Strategies
      /\ Strategy(TRUE, TRUE, 20, 3, 10) \in Strategies
      /\ Strategy(TRUE, TRUE, 60, 1, 10) \in Strategies
      /\ Strategy(TRUE, TRUE, 60, 3, 20) \in Strategies
  BY <1>1 DEF Strategy, Strategies
<1>3. DOMAIN Builtin = {"hybrid_rrf", "dense_only", "bm25_only", "hybrid_rrf_k20", "hybrid_top1",
                        "hybrid_wide"}
  BY DEF Builtin
<1>4. /\ Builtin["hybrid_rrf"] = Strategy(TRUE, TRUE, RrfK, TopN, TopK)
      /\ Builtin["dense_only"] = Strategy(TRUE, FALSE, 60, 3, 10)
      /\ Builtin["bm25_only"] = Strategy(FALSE, TRUE, 60, 3, 10)
      /\ Builtin["hybrid_rrf_k20"] = Strategy(TRUE, TRUE, 20, 3, 10)
      /\ Builtin["hybrid_top1"] = Strategy(TRUE, TRUE, 60, 1, 10)
      /\ Builtin["hybrid_wide"] = Strategy(TRUE, TRUE, 60, 3, 20)
  BY DEF Builtin
<1> QED
  BY <1>2, <1>3, <1>4

\* Whatever the request names, there is a strategy to try.
LEMMA SomethingToTry ==
    ASSUME NEW name
    PROVE  Select(name) \in Seq(Strategies) /\ Select(name) # <<>>
<1>1. /\ Builtin["hybrid_rrf"] \in Strategies /\ Builtin["hybrid_wide"] \in Strategies
      /\ Builtin["dense_only"] \in Strategies
  <2>1. "hybrid_rrf" \in DOMAIN Builtin /\ "hybrid_wide" \in DOMAIN Builtin /\ "dense_only" \in DOMAIN Builtin
    BY DEF Builtin
  <2> QED
    BY <2>1, BuiltinStrategies
<1>2. AutoSequence \in Seq(Strategies) /\ AutoSequence # <<>>
  <2> DEFINE fallback(n) == Builtin[AutoFallbacks[n]]
             step(g, n) == IF n = 0 THEN <<Builtin["hybrid_rrf"]>>
                           ELSE IF fallback(n).dense THEN Append(g[n - 1], fallback(n)) ELSE g[n - 1]
             zero == <<Builtin["hybrid_rrf"]>>
             one == IF fallback(1).dense THEN Append(zero, fallback(1)) ELSE zero
             two == IF fallback(2).dense THEN Append(one, fallback(2)) ELSE one
             upTo == CHOOSE g : g = [n \in 0..2 |-> step(g, n)]
             made == [n \in 0..2 |-> IF n = 0 THEN zero ELSE IF n = 1 THEN one ELSE two]
  <2>1. AutoSequence = upTo[2]
    BY DEF AutoSequence
  <2>2. made = [n \in 0..2 |-> step(made, n)]
    <3>1. \A n \in 0..2 : made[n] = step(made, n)
      <4>1. made[0] = zero /\ made[1] = one /\ made[2] = two
        <5> HIDE DEF zero, one, two
        <5> QED OBVIOUS
      <4>2. step(made, 0) = zero /\ step(made, 1) = one /\ step(made, 2) = two
        <5> HIDE DEF made, fallback
        <5> QED BY <4>1
      <4>3. \A n \in 0..2 : n = 0 \/ n = 1 \/ n = 2
        OBVIOUS
      <4> HIDE DEF made, step
      <4> QED BY <4>1, <4>2, <4>3
    <3> HIDE DEF step, zero, one, two
    <3> QED BY <3>1
  <2>3. upTo = [n \in 0..2 |-> step(upTo, n)]
    <3> HIDE DEF made, step
    <3> QED BY <2>2
  <2>4. fallback(1) = Builtin["hybrid_wide"] /\ fallback(2) = Builtin["dense_only"]
    BY DEF AutoFallbacks
  <2>5. zero \in Seq(Strategies) /\ zero # <<>>
    BY <1>1
  <2>6. one \in Seq(Strategies) /\ one # <<>>
    <3> HIDE DEF zero, fallback
    <3> QED BY <1>1, <2>4, <2>5
  <2>7. two \in Seq(Strategies) /\ two # <<>>
    <3> HIDE DEF zero, one, fallback
    <3> QED BY <1>1, <2>4, <2>6
  <2>8. upTo[0] = zero /\ upTo[1] = one /\ upTo[2] = two
    <3>1. upTo[0] = step(upTo, 0) /\ upTo[1] = step(upTo, 1) /\ upTo[2] = step(upTo, 2)
      <4> HIDE DEF upTo, step
      <4> QED BY <2>3
    <3> HIDE DEF upTo, fallback
    <3> QED BY <3>1
  <2> HIDE DEF upTo, two
  <2> QED
    BY <2>1, <2>7, <2>8
<1>3. name \in DOMAIN Builtin => Builtin[name] \in Strategies
  BY BuiltinStrategies
<1> HIDE DEF Strategies
<1> QED
  BY <1>1, <1>2, <1>3 DEF Select

LEMMA FiniteImage ==
    ASSUME NEW S, IsFiniteSet(S), NEW f
    PROVE  IsFiniteSet({f[x] : x \in S})
<1> DEFINE T == {f[x] : x \in S}
           g == [x \in S |-> f[x]]
<1>1. g \in Surjection(S, T)
  BY DEF Surjection
<1> HIDE DEF T, g
<1>2. IsFiniteSet(T)
  BY <1>1, FS_Surjection
<1> QED
  BY <1>2 DEF T

\* What the retrievers returned: sequences of examples, none twice.
HitsTyped ==
    /\ dense \in Seq([example : Examples, similarity : -100..100])
    /\ lexical \in Seq(Examples)
    /\ \A j, k \in DOMAIN dense : dense[j].example = dense[k].example => j = k
    /\ \A j, k \in DOMAIN lexical : lexical[j] = lexical[k] => j = k

LEMMA HitIs ==
    ASSUME HitsTyped
    PROVE  \A k \in DOMAIN dense : /\ dense[k].example \in Examples
                                   /\ dense[k].similarity \in Int /\ dense[k].similarity <= 100
<1>1. dense \in Seq([example : Examples, similarity : -100..100])
  BY DEF HitsTyped
<1>2. DOMAIN dense = 1..Len(dense) /\ Len(dense) \in Nat
  BY <1>1
<1>3. \A k \in DOMAIN dense : dense[k] \in [example : Examples, similarity : -100..100]
  BY <1>1, <1>2, ElementOfSeq
<1> SUFFICES ASSUME NEW k \in DOMAIN dense
             PROVE  /\ dense[k].example \in Examples
                    /\ dense[k].similarity \in Int /\ dense[k].similarity <= 100
  OBVIOUS
<1>4. dense[k] \in [example : Examples, similarity : -100..100]
  BY <1>3
<1>5. dense[k].example \in Examples /\ dense[k].similarity \in -100..100
  BY <1>4
<1> QED
  BY <1>5

\* A list of examples, none twice.
Distinct(list) ==
    /\ list \in Seq(Examples)
    /\ \A j, k \in DOMAIN list : list[j] = list[k] => j = k

LEMMA DistinctHits ==
    ASSUME HitsTyped
    PROVE  Distinct(DenseIds) /\ Distinct(lexical)
<1>1. DenseIds \in Seq(Examples) /\ DOMAIN DenseIds = DOMAIN dense
  <2>1. DOMAIN dense = 1..Len(dense) /\ Len(dense) \in Nat
    BY DEF HitsTyped
  <2>2. \A k \in DOMAIN dense : dense[k].example \in Examples
    BY HitIs
  <2>3. DenseIds \in [1..Len(dense) -> Examples]
    BY <2>1, <2>2 DEF DenseIds
  <2> QED
    BY <2>1, <2>3, IsASeq
<1>2. \A k \in DOMAIN dense : DenseIds[k] = dense[k].example
  BY DEF DenseIds
<1> QED
  BY <1>1, <1>2 DEF HitsTyped, Distinct

LEMMA DistinctIsFinite ==
    ASSUME NEW list, Distinct(list)
    PROVE  IsFiniteSet(Elements(list)) /\ Elements(list) \subseteq Examples
<1>1. DOMAIN list = 1..Len(list) /\ Len(list) \in Nat /\ \A k \in DOMAIN list : list[k] \in Examples
  BY DEF Distinct
<1>2. IsFiniteSet(DOMAIN list)
  BY <1>1, FS_Interval
<1>3. IsFiniteSet({list[k] : k \in DOMAIN list})
  BY <1>2, FiniteImage
<1> QED
  BY <1>1, <1>3 DEF Elements

LEMMA RetrievedIsFinite ==
    ASSUME HitsTyped
    PROVE  /\ IsFiniteSet(Retrieved) /\ Retrieved \subseteq Examples
           /\ IsFiniteSet(Supported) /\ Supported \subseteq Intents
           /\ \A i : IsFiniteSet(Support(i)) /\ Support(i) \subseteq Retrieved
<1>1. IsFiniteSet(Retrieved) /\ Retrieved \subseteq Examples
  BY DistinctHits, DistinctIsFinite, FS_Union DEF Retrieved
<1>2. IsFiniteSet(Supported)
  BY <1>1, FiniteImage DEF Supported
<1>3. Supported \subseteq Intents
  BY <1>1, SettingsAssumption DEF Supported
<1>4. ASSUME NEW i PROVE IsFiniteSet(Support(i)) /\ Support(i) \subseteq Retrieved
  <2>1. Support(i) \subseteq Retrieved
    BY DEF Support
  <2> QED
    BY <1>1, <2>1, FS_Subset
<1> QED
  BY <1>1, <1>2, <1>3, <1>4

-----------------------------------------------------------------------------
(* Scores.                                                                 *)

LEMMA WeightsFall ==
    ASSUME NEW s \in Strategies, NEW m \in Nat, NEW n \in Nat, m <= n
    PROVE  Weight(s, m) \in Nat /\ Weight(s, n) \in Nat /\ Weight(s, n) <= Weight(s, m)
<1>1. s.k + m \in Nat \ {0} /\ s.k + n \in Nat \ {0} /\ s.k + m <= s.k + n
  <2>1. s.k \in Nat \ {0}
    BY DEF Strategies
  <2> QED
    BY <2>1
<1>2. Scale \in Nat
  BY DEF Scale
<1> QED
  BY <1>1, <1>2, Division, DivideByMore DEF Weight

LEMMA ContributionIs ==
    ASSUME NEW s \in Strategies, NEW list, Distinct(list), NEW e
    PROVE  /\ Contribution(s, list, e) \in Nat
           /\ list = <<>> => Contribution(s, list, e) = 0
           /\ \A k \in DOMAIN list : list[k] = e => Contribution(s, list, e) = Weight(s, k)
           /\ e \notin Elements(list) => Contribution(s, list, e) = 0
<1>1. DOMAIN list \subseteq Nat
  BY DEF Distinct
<1>2. ASSUME NEW k \in DOMAIN list, list[k] = e PROVE Contribution(s, list, e) = Weight(s, k)
  <2>1. \A j \in DOMAIN list : list[j] = e => j = k
    BY <1>2 DEF Distinct
  <2>2. (CHOOSE j \in DOMAIN list : list[j] = e) = k
    BY <1>2, <2>1
  <2>3. e \in Elements(list)
    BY <1>2 DEF Elements
  <2> QED
    BY <2>2, <2>3 DEF Contribution
<1>3. e \notin Elements(list) => Contribution(s, list, e) = 0
  BY DEF Contribution
<1>4. \A k \in DOMAIN list : Weight(s, k) \in Nat
  BY <1>1, WeightsFall
<1>5. Contribution(s, list, e) \in Nat
  <2>1. CASE e \in Elements(list)
    BY <2>1, <1>2, <1>4 DEF Elements
  <2>2. CASE e \notin Elements(list)
    BY <2>2, <1>3
  <2> QED
    BY <2>1, <2>2
<1>6. list = <<>> => Elements(list) = {}
  BY DEF Elements
<1> QED
  BY <1>2, <1>3, <1>5, <1>6

\* The weights of the first ranks.
Ranks(s) == [rank \in 1..s.topN |-> Weight(s, rank)]
FirstWeights(s, n) == SumFunctionOnSet(Ranks(s), 1..n)

LEMMA WeightsClimb ==
    ASSUME NEW s \in Strategies, NEW n \in Nat, n <= s.topN
    PROVE  /\ FirstWeights(s, n) \in Nat
           /\ FirstWeights(s, 0) = 0
           /\ n + 1 <= s.topN => FirstWeights(s, n + 1) = Weight(s, n + 1) + FirstWeights(s, n)
<1>1. s.topN \in Nat
  BY DEF Strategies
<1>2. \A rank \in 1..s.topN : Ranks(s)[rank] = Weight(s, rank) /\ Ranks(s)[rank] \in Nat
  <2>1. \A rank \in 1..s.topN : Weight(s, rank) \in Nat
    BY <1>1, WeightsFall
  <2> QED
    BY <2>1 DEF Ranks
<1>3. FirstWeights(s, n) \in Nat
  <2>1. IsFiniteSet(1..n) /\ 1..n \subseteq 1..s.topN
    BY <1>1, FS_Interval
  <2>2. \A x \in 1..n : Ranks(s)[x] \in Nat
    BY <1>2, <2>1
  <2> QED
    BY <2>1, <2>2, SumNatural DEF FirstWeights
<1>4. FirstWeights(s, 0) = 0
  <2>1. 1..0 = {}
    OBVIOUS
  <2> QED
    BY <2>1, SumEmpty DEF FirstWeights
<1>5. ASSUME n + 1 <= s.topN PROVE FirstWeights(s, n + 1) = Weight(s, n + 1) + FirstWeights(s, n)
  <2>1. IsFiniteSet(1..(n + 1)) /\ n + 1 \in 1..(n + 1) /\ (1..(n + 1)) \ {n + 1} = 1..n
    <3>1. IsFiniteSet(1..(n + 1))
      BY FS_Interval
    <3> QED
      BY <3>1
  <2>2. Numbers(Ranks(s), 1..(n + 1)) /\ Ranks(s)[n + 1] = Weight(s, n + 1)
    <3>1. 1..(n + 1) \subseteq 1..s.topN
      BY <1>1, <1>5
    <3> QED
      BY <1>2, <3>1 DEF Numbers
  <2> QED
    BY <2>1, <2>2, SumRemove DEF FirstWeights
<1> QED
  BY <1>3, <1>4, <1>5

\* A ranked list gives as many examples no more than the first ranks weigh.
LEMMA ListGivesAtMost ==
    ASSUME NEW s \in Strategies, NEW list, Distinct(list), NEW c,
           NEW S, IsFiniteSet(S), \A e \in S : c[e] = Contribution(s, list, e),
           Cardinality(S) <= s.topN
    PROVE  SumFunctionOnSet(c, S) <= FirstWeights(s, s.topN)
<1> DEFINE Capped(n) == \A T \in SUBSET S : Cardinality(T) <= n =>
                            SumFunctionOnSet(c, T) <= FirstWeights(s, n)
           Made == {n \in 0..s.topN : Capped(n)}
<1>1. s.topN \in Nat
  BY DEF Strategies
<1>2. \A T \in SUBSET S : /\ IsFiniteSet(T) /\ Cardinality(T) \in Nat
                          /\ \A x \in T : c[x] \in Nat
                          /\ Numbers(c, T)
                          /\ SumFunctionOnSet(c, T) \in Nat
  <2> SUFFICES ASSUME NEW T \in SUBSET S
               PROVE  /\ IsFiniteSet(T) /\ Cardinality(T) \in Nat
                      /\ \A x \in T : c[x] \in Nat
                      /\ Numbers(c, T)
                      /\ SumFunctionOnSet(c, T) \in Nat
    OBVIOUS
  <2>1. IsFiniteSet(T) /\ Cardinality(T) \in Nat
    BY FS_Subset, FS_CardinalityType
  <2>2. \A x \in T : c[x] \in Nat
    BY ContributionIs
  <2>3. Numbers(c, T)
    BY <2>2 DEF Numbers
  <2> QED
    BY <2>1, <2>2, <2>3, SumNatural
<1>3. 0 \in Made
  <2>1. \A T \in SUBSET S : Cardinality(T) <= 0 => T = {}
    BY <1>2, FS_EmptySet
  <2>2. FirstWeights(s, 0) = 0
    BY <1>1, WeightsClimb
  <2>3. Capped(0)
    BY <2>1, <2>2, SumEmpty
  <2> QED
    BY <1>1, <2>3
<1>4. ASSUME NEW n \in 0..s.topN, n \in Made, n + 1 <= s.topN PROVE n + 1 \in Made
  <2>1. Capped(n) /\ n \in Nat /\ n + 1 \in 0..s.topN
    BY <1>1, <1>4
  <2>2. /\ FirstWeights(s, n) \in Nat /\ Weight(s, n + 1) \in Nat
        /\ FirstWeights(s, n + 1) = Weight(s, n + 1) + FirstWeights(s, n)
    BY <1>1, <1>4, <2>1, WeightsClimb, WeightsFall
  <2>3. ASSUME NEW T \in SUBSET S, Cardinality(T) <= n + 1
        PROVE  SumFunctionOnSet(c, T) <= FirstWeights(s, n + 1)
    <3>1. CASE Cardinality(T) <= n
      <4>1. SumFunctionOnSet(c, T) <= FirstWeights(s, n)
        BY <2>1, <3>1
      <4>2. SumFunctionOnSet(c, T) \in Nat
        BY <1>2
      <4> QED
        BY <2>2, <4>1, <4>2
    <3>2. CASE Cardinality(T) = n + 1
      <4>1. PICK x \in T : c[x] <= Weight(s, n + 1)
        <5>1. SUFFICES ASSUME \A x \in T : ~(c[x] <= Weight(s, n + 1)) PROVE FALSE
          OBVIOUS
        <5> DEFINE Place(x) == CHOOSE k \in DOMAIN list : list[k] = x
                   place == [x \in T |-> Place(x)]
        <5>2. ASSUME NEW x \in T
              PROVE  Place(x) \in 1..n /\ list[Place(x)] = x
          <6>1. c[x] = Contribution(s, list, x) /\ ~(c[x] <= Weight(s, n + 1)) /\ c[x] \in Nat
            BY <1>2, <5>1
          <6>2. x \in Elements(list)
            BY <2>2, <6>1, ContributionIs
          <6>3. Place(x) \in DOMAIN list /\ list[Place(x)] = x
            BY <6>2 DEF Elements
          <6>4. Place(x) \in Nat /\ Place(x) >= 1
            BY <6>3 DEF Distinct
          <6>5. c[x] = Weight(s, Place(x))
            BY <6>1, <6>3, ContributionIs
          <6> HIDE DEF Place
          <6>6. ~(n + 1 <= Place(x))
            BY <2>1, <6>1, <6>4, <6>5, WeightsFall
          <6> QED
            BY <2>1, <6>3, <6>4, <6>6
        <5>3. place \in [T -> 1..n]
          <6> HIDE DEF Place
          <6> QED BY <5>2
        <5>4. IsFiniteSet(1..n) /\ Cardinality(1..n) < Cardinality(T)
          <6>1. IsFiniteSet(1..n) /\ Cardinality(1..n) = n
            BY <2>1, FS_Interval
          <6> QED
            BY <2>1, <3>2, <6>1
        <5>5. PICK x \in T, y \in T : x # y /\ place[x] = place[y]
          <6> HIDE DEF place
          <6> QED BY <1>2, <5>3, <5>4, FS_PigeonHole
        <5> HIDE DEF Place
        <5> QED
          BY <5>2, <5>5
      <4>2. SumFunctionOnSet(c, T) = c[x] + SumFunctionOnSet(c, T \ {x})
        BY <1>2, SumRemove
      <4>3. SumFunctionOnSet(c, T \ {x}) <= FirstWeights(s, n)
        <5>1. Cardinality(T \ {x}) = Cardinality(T) - 1
          BY <1>2, FS_RemoveElement
        <5> QED
          BY <2>1, <3>2, <5>1
      <4>4. c[x] \in Nat /\ SumFunctionOnSet(c, T \ {x}) \in Nat
        BY <1>2
      <4> QED
        BY <2>2, <4>1, <4>2, <4>3, <4>4
    <3>3. Cardinality(T) \in Nat
      BY <1>2
    <3> QED
      BY <2>1, <2>3, <3>1, <3>2, <3>3
  <2> QED
    BY <2>1, <2>3
<1>5. \A n \in 0..s.topN : n \in Made
  <2> HIDE DEF Made
  <2> QED BY <1>1, <1>3, <1>4, Climbing
<1>6. Capped(s.topN)
  BY <1>1, <1>5
<1> QED
  BY <1>6

-----------------------------------------------------------------------------
(* An intent's score and its ceiling.                                      *)

LEMMA FusedIs ==
    ASSUME HitsTyped, NEW s \in Strategies
    PROVE  \A e \in Retrieved :
             /\ FusedScores(s)[e] = Fused(s, e)
             /\ Fused(s, e) \in Nat
             /\ Contribution(s, DenseIds, e) \in Nat
             /\ Contribution(s, lexical, e) \in Nat
<1>1. \A e : Contribution(s, DenseIds, e) \in Nat /\ Contribution(s, lexical, e) \in Nat
  BY DistinctHits, ContributionIs
<1> QED
  BY <1>1 DEF FusedScores, Fused

\* The examples an intent is scored by, as many as count.
Counted(s, i) == Least(Cardinality(Support(i)), s.topN)

LEMMA SumIsOfBest ==
    ASSUME HitsTyped, NEW s \in Strategies, NEW i
    PROVE  \E T \in SUBSET Support(i) : /\ Cardinality(T) = Counted(s, i)
                                        /\ SumOfBest(s, i) = SumFunctionOnSet(FusedScores(s), T)
                                        /\ SumOfBest(s, i) \in Nat
<1> DEFINE fused == FusedScores(s)
           Parts == kSubset(Counted(s, i), Support(i))
           Values == {SumFunctionOnSet(fused, chosen) : chosen \in Parts}
<1>1. /\ IsFiniteSet(Support(i)) /\ Support(i) \subseteq Retrieved
      /\ \A e \in Support(i) : fused[e] \in Nat
  BY RetrievedIsFinite, FusedIs
<1>2. SumOfBest(s, i) = Max(Values)
  BY DEF SumOfBest, Counted
<1> HIDE DEF fused
<1>3. Cardinality(Support(i)) \in Nat /\ s.topN \in Nat
  BY <1>1, FS_CardinalityType DEF Strategies
<1>4. Counted(s, i) \in Nat /\ Counted(s, i) <= Cardinality(Support(i))
  BY <1>3 DEF Counted, Least
<1>5. Parts = {T \in SUBSET Support(i) : Cardinality(T) = Counted(s, i)}
  BY DEF kSubset
<1> HIDE DEF Parts
<1>6. Parts # {}
  BY <1>1, <1>4, <1>5, PartOfSize
<1>7. \A T \in Parts : /\ SumFunctionOnSet(fused, T) \in Nat
                       /\ SumFunctionOnSet(fused, T) <= SumFunctionOnSet(fused, Support(i))
  <2> SUFFICES ASSUME NEW T \in Parts
               PROVE  /\ SumFunctionOnSet(fused, T) \in Nat
                      /\ SumFunctionOnSet(fused, T) <= SumFunctionOnSet(fused, Support(i))
    OBVIOUS
  <2>1. T \in SUBSET Support(i) /\ IsFiniteSet(T)
    BY <1>1, <1>5, FS_Subset
  <2>2. \A x \in T : fused[x] \in Nat
    BY <1>1, <2>1
  <2> QED
    BY <1>1, <2>1, <2>2, SumNatural, SumOfPart
<1>8. Values \in SUBSET Int /\ Values # {}
  BY <1>6, <1>7
<1>9. SumFunctionOnSet(fused, Support(i)) \in Int
  BY <1>1, SumNatural
<1>10. \A x \in Values : x <= SumFunctionOnSet(fused, Support(i))
  BY <1>7
<1>11. Max(Values) \in Values
  <2> HIDE DEF Values
  <2> QED BY <1>8, <1>9, <1>10, Greatest
<1>12. PICK T \in Parts : SumOfBest(s, i) = SumFunctionOnSet(fused, T)
  BY <1>2, <1>11
<1> QED
  BY <1>5, <1>7, <1>12 DEF fused

LEMMA CeilingIs ==
    ASSUME NEW s \in Strategies
    PROVE  /\ FirstWeights(s, s.topN) \in Nat
           /\ Ceiling(s) = (IF s.dense /\ s.bm25 THEN 2 ELSE 1) * FirstWeights(s, s.topN)
           /\ Ceiling(s) \in Nat
<1>1. s.topN \in Nat
  BY DEF Strategies
<1>2. FirstWeights(s, s.topN) \in Nat
  BY <1>1, WeightsClimb
<1>3. SumFunction(Ranks(s)) = FirstWeights(s, s.topN)
  <2>1. DOMAIN Ranks(s) = 1..s.topN
    BY DEF Ranks
  <2> QED
    BY <2>1 DEF SumFunction, SumFunctionOnSet, FoldFunction, FirstWeights
<1>4. Ceiling(s) = (IF s.dense /\ s.bm25 THEN 2 ELSE 1) * FirstWeights(s, s.topN)
  BY <1>3 DEF Ceiling, Ranks
<1> QED
  BY <1>2, <1>4

\* A list is there only if the strategy asks for it.
ListsAsked(s) == (dense # <<>> => s.dense) /\ (lexical # <<>> => s.bm25)

LEMMA SumBelowCeiling ==
    ASSUME HitsTyped, NEW s \in Strategies, ListsAsked(s), NEW i
    PROVE  SumOfBest(s, i) <= Ceiling(s)
<1>1. PICK T \in SUBSET Support(i) : /\ Cardinality(T) = Counted(s, i)
                                     /\ SumOfBest(s, i) = SumFunctionOnSet(FusedScores(s), T)
                                     /\ SumOfBest(s, i) \in Nat
  BY SumIsOfBest
<1>2. /\ IsFiniteSet(Support(i)) /\ IsFiniteSet(T) /\ T \subseteq Retrieved
      /\ Cardinality(T) <= s.topN
  <2>1. IsFiniteSet(Support(i)) /\ IsFiniteSet(T) /\ T \subseteq Retrieved
    BY RetrievedIsFinite, FS_Subset
  <2>2. Cardinality(Support(i)) \in Nat /\ s.topN \in Nat
    BY <2>1, FS_CardinalityType DEF Strategies
  <2> QED
    BY <1>1, <2>1, <2>2 DEF Counted, Least
<1> DEFINE d == [e \in T |-> Contribution(s, DenseIds, e)]
           l == [e \in T |-> Contribution(s, lexical, e)]
<1>3. /\ \A e \in T : d[e] = Contribution(s, DenseIds, e) /\ l[e] = Contribution(s, lexical, e)
      /\ \A e \in T : d[e] \in Nat /\ l[e] \in Nat
      /\ \A e \in T : FusedScores(s)[e] = d[e] + l[e]
  BY <1>2, FusedIs DEF Fused
<1> HIDE DEF d, l
<1>4. Numbers(d, T) /\ Numbers(l, T)
  BY <1>3 DEF Numbers
<1>5. SumOfBest(s, i) = SumFunctionOnSet(d, T) + SumFunctionOnSet(l, T)
  BY <1>1, <1>2, <1>3, <1>4, SumOfSums
<1>6. Distinct(DenseIds) /\ Distinct(lexical)
  BY DistinctHits
<1>7. SumFunctionOnSet(d, T) <= FirstWeights(s, s.topN)
  BY <1>2, <1>3, <1>6, ListGivesAtMost
<1>8. SumFunctionOnSet(l, T) <= FirstWeights(s, s.topN)
  BY <1>2, <1>3, <1>6, ListGivesAtMost
<1>9. ASSUME dense = <<>> PROVE SumFunctionOnSet(d, T) = 0
  <2>1. DenseIds = <<>>
    BY <1>9 DEF DenseIds
  <2>2. \A e \in T : d[e] = 0
    BY <1>3, <1>6, <2>1, ContributionIs
  <2> QED
    BY <1>2, <2>2, SumOfNothing
<1>10. ASSUME lexical = <<>> PROVE SumFunctionOnSet(l, T) = 0
  <2>1. \A e \in T : l[e] = 0
    BY <1>3, <1>6, <1>10, ContributionIs
  <2> QED
    BY <1>2, <2>1, SumOfNothing
<1>11. SumFunctionOnSet(d, T) \in Nat /\ SumFunctionOnSet(l, T) \in Nat
  BY <1>2, <1>3, SumNatural
<1>12. CASE s.dense /\ s.bm25
  <2>1. Ceiling(s) = 2 * FirstWeights(s, s.topN) /\ FirstWeights(s, s.topN) \in Nat
    BY <1>12, CeilingIs
  <2> QED
    BY <1>5, <1>7, <1>8, <1>11, <2>1
<1>13. CASE ~(s.dense /\ s.bm25)
  <2>1. Ceiling(s) = FirstWeights(s, s.topN) /\ FirstWeights(s, s.topN) \in Nat
    <3>1. /\ Ceiling(s) = (IF s.dense /\ s.bm25 THEN 2 ELSE 1) * FirstWeights(s, s.topN)
          /\ FirstWeights(s, s.topN) \in Nat
      BY CeilingIs
    <3>2. Ceiling(s) = 1 * FirstWeights(s, s.topN)
      BY <1>13, <3>1
    <3> QED
      BY <3>1, <3>2
  <2>2. dense = <<>> \/ lexical = <<>>
    BY <1>13 DEF ListsAsked
  <2> QED
    BY <1>5, <1>7, <1>8, <1>9, <1>10, <1>11, <2>1, <2>2
<1> QED
  BY <1>12, <1>13

LEMMA ManyWeakSums ==
    ASSUME HitsTyped, NEW s \in Strategies, NEW i, NEW j,
           Cardinality(Support(i)) >= s.topN,
           \A e \in Support(i), d \in Support(j) : Fused(s, d) <= Fused(s, e)
    PROVE  SumOfBest(s, j) <= SumOfBest(s, i)
<1>1. PICK A \in SUBSET Support(i) : /\ Cardinality(A) = Counted(s, i)
                                     /\ SumOfBest(s, i) = SumFunctionOnSet(FusedScores(s), A)
  BY SumIsOfBest
<1>2. PICK B \in SUBSET Support(j) : /\ Cardinality(B) = Counted(s, j)
                                     /\ SumOfBest(s, j) = SumFunctionOnSet(FusedScores(s), B)
  BY SumIsOfBest
<1>3. /\ IsFiniteSet(A) /\ IsFiniteSet(B) /\ A \subseteq Retrieved /\ B \subseteq Retrieved
      /\ IsFiniteSet(Support(i)) /\ IsFiniteSet(Support(j))
  BY RetrievedIsFinite, FS_Subset
<1>4. Cardinality(B) <= Cardinality(A)
  <2>1. Cardinality(Support(i)) \in Nat /\ Cardinality(Support(j)) \in Nat /\ s.topN \in Nat
    BY <1>3, FS_CardinalityType DEF Strategies
  <2> QED
    BY <1>1, <1>2, <2>1 DEF Counted, Least
<1>5. /\ \A x \in A \cup B : FusedScores(s)[x] \in Nat
      /\ \A b \in B, a \in A : FusedScores(s)[b] <= FusedScores(s)[a]
  BY <1>3, FusedIs
<1> QED
  BY <1>1, <1>2, <1>3, <1>4, <1>5, SumOfLarger

\* Rounding keeps the order and moves a number by half a digit at most.
LEMMA RoundedIs ==
    ASSUME NEW v \in Nat
    PROVE  Rounded(v) \in Nat /\ Rounded(v) <= v + Digit \div 2
<1>1. PICK q \in Nat : q = (v + 50) \div 100 /\ 100 * q <= v + 50
  <2>1. v + 50 \in Nat /\ 100 \in Nat \ {0}
    OBVIOUS
  <2> QED
    BY <2>1, Division
<1>2. Digit = 100 /\ Digit \div 2 = 50
  BY DEF Digit
<1>3. Rounded(v) = q * 100
  BY <1>1, <1>2 DEF Rounded
<1> QED
  BY <1>1, <1>2, <1>3

LEMMA RoundedInOrder ==
    ASSUME NEW v \in Nat, NEW w \in Nat, v <= w
    PROVE  Rounded(v) <= Rounded(w)
<1>1. v + 50 \in Nat /\ w + 50 \in Nat /\ v + 50 <= w + 50 /\ 100 \in Nat \ {0}
  OBVIOUS
<1>2. /\ (v + 50) \div 100 <= (w + 50) \div 100
      /\ (v + 50) \div 100 \in Nat /\ (w + 50) \div 100 \in Nat
  BY <1>1, DivideMore, Division
<1>3. Digit = 100 /\ Digit \div 2 = 50
  BY DEF Digit
<1>4. Rounded(v) = ((v + 50) \div 100) * 100 /\ Rounded(w) = ((w + 50) \div 100) * 100
  BY <1>3 DEF Rounded
<1> QED
  BY <1>2, <1>4

LEMMA ScoreIs ==
    ASSUME HitsTyped, NEW s \in Strategies, NEW i
    PROVE  Score(s, i) \in Nat
BY SumIsOfBest, RoundedIs DEF Score

LEMMA ScoreBelowCeiling ==
    ASSUME HitsTyped, NEW s \in Strategies, ListsAsked(s), NEW i
    PROVE  Score(s, i) <= Ceiling(s) + Digit \div 2
<1>1. SumOfBest(s, i) \in Nat /\ Ceiling(s) \in Nat /\ Digit \div 2 = 50
  BY SumIsOfBest, CeilingIs DEF Digit
<1>2. SumOfBest(s, i) <= Ceiling(s)
  BY SumBelowCeiling
<1>3. Score(s, i) \in Nat /\ Score(s, i) <= SumOfBest(s, i) + Digit \div 2
  BY <1>1, RoundedIs DEF Score
<1> QED
  BY <1>1, <1>2, <1>3

LEMMA ManyWeakExamples ==
    ASSUME HitsTyped, NEW s \in Strategies, NEW i, NEW j,
           Cardinality(Support(i)) >= s.topN,
           \A e \in Support(i), d \in Support(j) : Fused(s, d) <= Fused(s, e)
    PROVE  Score(s, j) <= Score(s, i)
<1>1. SumOfBest(s, i) \in Nat /\ SumOfBest(s, j) \in Nat
  BY SumIsOfBest
<1>2. SumOfBest(s, j) <= SumOfBest(s, i)
  BY ManyWeakSums
<1> QED
  BY <1>1, <1>2, RoundedInOrder DEF Score

-----------------------------------------------------------------------------
(* Outcomes.                                                               *)

WellFormed(o) ==
    /\ o.intent \in Intents \cup {Nil}
    /\ o.confidence \in 0..100
    /\ o.ranked \in Seq(Intents)
    /\ o.intent # Nil => o.ranked # <<>> /\ o.ranked[1] = o.intent

LEMMA ClampIs ==
    ASSUME NEW v \in Int
    PROVE  Clamp(v) \in 0..100 /\ Clamp(v) \in Int
BY DEF Clamp

LEMMA SimilarityIs ==
    ASSUME HitsTyped, NEW i
    PROVE  BestSimilarity(i) \in Int
<1> DEFINE hits == {k \in DOMAIN dense : Owner[dense[k].example] = i}
           values == {dense[k].similarity : k \in hits}
<1>1. \A k \in DOMAIN dense : dense[k].similarity \in Int /\ dense[k].similarity <= 100
  BY HitIs
<1>2. CASE hits = {}
  BY <1>2 DEF BestSimilarity
<1>3. CASE hits # {}
  <2>1. values \in SUBSET Int /\ values # {}
    BY <1>1, <1>3
  <2> DEFINE most == 100
  <2>4. most \in Int /\ \A x \in values : x <= most
    BY <1>1
  <2>2. Max(values) \in values
    <3> HIDE DEF values, most
    <3> QED BY <2>1, <2>4, Greatest
  <2>3. BestSimilarity(i) = Max(values)
    BY <1>3 DEF BestSimilarity
  <2> QED
    BY <2>1, <2>2, <2>3
<1> QED
  BY <1>2, <1>3

LEMMA ConfidenceIs ==
    ASSUME HitsTyped, NEW s \in Strategies, NEW ranked
    PROVE  Confidence(s, ranked) \in 0..100
<1> DEFINE top == ranked[1]
           score == Score(s, top)
           second == IF Len(ranked) > 1 THEN Score(s, ranked[2]) ELSE 0
           rrf == IF Ceiling(s) > 0 THEN Clamp((100 * score) \div Ceiling(s)) ELSE 0
           margin == IF score > 0 THEN Clamp((100 * (score - second)) \div score) ELSE 0
           similar == IF s.dense
                      THEN Clamp((100 * (BestSimilarity(top) - SimFloor))
                                   \div (SimCeil - SimFloor))
                      ELSE Clamp((rrf + margin) \div 2)
           backers == Cardinality(Support(top))
           support == (100 * Least(backers, SupportTarget)) \div SupportTarget
<1>1. score \in Nat /\ second \in Nat /\ Ceiling(s) \in Nat
  <2>1. \A i : Score(s, i) \in Nat
    BY ScoreIs
  <2> QED
    BY <2>1, CeilingIs
<1>2. BestSimilarity(top) \in Int /\ backers \in Nat
  <2>1. IsFiniteSet(Support(top))
    BY RetrievedIsFinite
  <2> QED
    BY <2>1, SimilarityIs, FS_CardinalityType
<1>3. Confidence(s, ranked) =
        Clamp((Weights.dense * similar + Weights.rrf * rrf + Weights.margin * margin
                 + Weights.support * support) \div 100)
  BY DEF Confidence
<1> HIDE DEF top, score, second, backers
<1>4. rrf \in Int
  <2>1. CASE Ceiling(s) > 0
    <3>1. (100 * score) \div Ceiling(s) \in Int
      BY <1>1, <2>1
    <3> QED
      BY <2>1, <3>1, ClampIs
  <2>2. CASE ~(Ceiling(s) > 0)
    BY <2>2
  <2> QED
    BY <2>1, <2>2
<1>5. margin \in Int
  <2>1. CASE score > 0
    <3>1. (100 * (score - second)) \div score \in Int
      BY <1>1, <2>1
    <3> QED
      BY <2>1, <3>1, ClampIs
  <2>2. CASE ~(score > 0)
    BY <2>2
  <2> QED
    BY <2>1, <2>2
<1> HIDE DEF rrf, margin
<1>6. similar \in Int
  <2>1. (100 * (BestSimilarity(top) - SimFloor)) \div (SimCeil - SimFloor) \in Int
    BY <1>2 DEF SimFloor, SimCeil
  <2>2. (rrf + margin) \div 2 \in Int
    BY <1>4, <1>5
  <2> QED
    BY <2>1, <2>2, ClampIs
<1>7. support \in Int
  BY <1>2 DEF SupportTarget, Least
<1> HIDE DEF similar, support
<1>8. (Weights.dense * similar + Weights.rrf * rrf + Weights.margin * margin
         + Weights.support * support) \div 100 \in Int
  BY <1>4, <1>5, <1>6, <1>7 DEF Weights
<1> QED
  BY <1>3, <1>8, ClampIs

LEMMA NothingFound == WellFormed(NoOutcome)
BY DEF NoOutcome, Unknown, WellFormed

LEMMA DecisionWellFormed ==
    ASSUME HitsTyped, NEW s \in Strategies, NEW ranked \in Rankings(s)
    PROVE  WellFormed(Decide(s, ranked))
<1>1. ranked \in Seq(Intents)
  <2>1. ranked \in [1..Cardinality(Supported) -> Supported]
    BY DEF Rankings, SetToSeqs
  <2>2. Cardinality(Supported) \in Nat
    BY RetrievedIsFinite, FS_CardinalityType
  <2>3. ranked \in Seq(Supported)
    BY <2>1, <2>2, IsASeq
  <2> QED
    BY <2>3, RetrievedIsFinite, SeqMonotonic
<1>2. Confidence(s, ranked) \in 0..100
  BY ConfidenceIs
<1>3. ASSUME NEW reason, NEW c \in 0..100 PROVE WellFormed(Unknown(reason, c, ranked))
  BY <1>1 DEF Unknown, WellFormed
<1>4. ASSUME ranked # <<>>
      PROVE  WellFormed([intent |-> ranked[1], confidence |-> Confidence(s, ranked), reason |-> Nil,
                         ranked |-> ranked])
  <2>1. ranked[1] \in Intents
    BY <1>1, <1>4
  <2> QED
    BY <1>1, <1>2, <1>4, <2>1 DEF WellFormed
<1>5. 0 \in 0..100
  OBVIOUS
<1> QED
  BY <1>2, <1>3, <1>4, <1>5 DEF Decide

-----------------------------------------------------------------------------
(* The inductive invariant of a classification.                            *)

Judging == at \in {"reading", "embedding", "searching", "fusing", "scored"}

\* An attempt in progress has a strategy, and hits only of its retrievers.
AttemptInv ==
    /\ Judging \/ at \in {"idle", "answered"}
    /\ active \subseteq Intents
    /\ HitsTyped
    /\ Judging => queue \in Seq(Strategies) /\ queue # <<>> /\ ListsAsked(Head(queue))
    /\ ~Judging => dense = <<>> /\ lexical = <<>>

\* While a fall-back is tried, the first attempt placed nothing.
OutcomeInv ==
    /\ WellFormed(outcome)
    /\ first # Nil => WellFormed(first)
    /\ at = "idle" => first = Nil
    /\ Judging /\ first # Nil => first.intent = Nil
    /\ answer # Nil => WellFormed(answer)
    /\ at = "answered" => WellFormed(answer) /\ RescueEarned

VerdictInv == AttemptInv /\ OutcomeInv

LEMMA NoHits ==
    ASSUME dense = <<>>, lexical = <<>>
    PROVE  HitsTyped /\ \A s : ListsAsked(s)
BY DEF HitsTyped, ListsAsked

LEMMA VerdictInitially ==
    ASSUME VerdictInit
    PROVE  VerdictInv
<1>1. AttemptInv
  BY NoHits DEF VerdictInit, AttemptInv, Judging
<1>2. OutcomeInv
  BY NothingFound DEF VerdictInit, OutcomeInv, Judging
<1> QED
  BY <1>1, <1>2 DEF VerdictInv

LEMMA BeginKeeps ==
    ASSUME VerdictInv, NEW name, Begin(name)
    PROVE  VerdictInv'
<1> USE DEF VerdictInv
<1>1. at = "idle" /\ dense = <<>> /\ lexical = <<>> /\ dense' = <<>> /\ lexical' = <<>>
  BY DEF Begin, AttemptInv, Judging
<1>2. queue' \in Seq(Strategies) /\ queue' # <<>>
  BY SomethingToTry DEF Begin
<1>3. HitsTyped' /\ ListsAsked(Head(queue))'
  BY <1>1 DEF HitsTyped, ListsAsked
<1>4. AttemptInv'
  BY <1>1, <1>2, <1>3 DEF Begin, AttemptInv, Judging
<1>5. OutcomeInv'
  BY <1>1 DEF Begin, OutcomeInv, Judging, WellFormed
<1> QED
  BY <1>4, <1>5

LEMMA ReadIntentsKeeps ==
    ASSUME VerdictInv, ReadIntents
    PROVE  VerdictInv'
<1> USE DEF VerdictInv
<1>1. Judging /\ Judging' /\ at' # "idle" /\ at' # "answered"
  BY DEF ReadIntents, Judging
<1>2. active' \subseteq Intents
  BY DEF ReadIntents
<1>3. HitsTyped' /\ ListsAsked(Head(queue))'
  BY <1>1 DEF ReadIntents, AttemptInv, HitsTyped, ListsAsked
<1>4. AttemptInv'
  BY <1>1, <1>2, <1>3 DEF ReadIntents, AttemptInv
<1>5. OutcomeInv'
  BY <1>1 DEF ReadIntents, OutcomeInv, WellFormed
<1> QED
  BY <1>4, <1>5

\* What enumerates a set of examples names each once.
LEMMA EnumeratedOnce ==
    ASSUME NEW n \in Nat, NEW S \in SUBSET Examples, Cardinality(S) = n, NEW ids \in SetToSeqs(S)
    PROVE  /\ ids \in [1..n -> S] /\ DOMAIN ids = 1..n /\ ids \in Seq(Examples)
           /\ \A j, k \in DOMAIN ids : ids[j] = ids[k] => j = k
<1>1. ids \in [1..n -> S] /\ \A j, k \in 1..n : j # k => ids[j] # ids[k]
  BY DEF SetToSeqs
<1>2. ids \in [1..n -> Examples]
  BY <1>1
<1> QED
  BY <1>1, <1>2, IsASeq

LEMMA RetrieveDenseKeeps ==
    ASSUME VerdictInv, RetrieveDense
    PROVE  VerdictInv'
<1> USE DEF VerdictInv
<1>1. Judging /\ Judging' /\ at' # "idle" /\ at' # "answered"
  BY DEF RetrieveDense, Judging
<1>2. queue \in Seq(Strategies) /\ queue # <<>> /\ Head(queue) \in Strategies /\ queue' = queue
  BY <1>1 DEF RetrieveDense, AttemptInv
<1>3. /\ lexical' = lexical /\ lexical \in Seq(Examples)
      /\ \A j, k \in DOMAIN lexical : lexical[j] = lexical[k] => j = k
      /\ lexical # <<>> => Head(queue).bm25
  BY <1>1 DEF RetrieveDense, AttemptInv, HitsTyped, ListsAsked
<1>4. /\ dense' \in Seq([example : Examples, similarity : -100..100])
      /\ \A j, k \in DOMAIN dense' : dense'[j].example = dense'[k].example => j = k
      /\ dense' # <<>> => Head(queue).dense
  <2>1. CASE ~Head(queue).dense
    BY <2>1 DEF RetrieveDense
  <2>2. CASE Head(queue).dense
    <3>1. PICK n \in 0..Head(queue).topK :
            \E S \in kSubset(n, {e \in Examples : Owner[e] \in active}) : \E ids \in SetToSeqs(S) :
              \E similarity \in [DOMAIN ids -> Similarities] :
                dense' = [k \in DOMAIN ids |-> [example |-> ids[k], similarity |-> similarity[k]]]
      BY <2>2 DEF RetrieveDense
    <3>2. PICK S \in kSubset(n, {e \in Examples : Owner[e] \in active}) :
            \E ids \in SetToSeqs(S) : \E similarity \in [DOMAIN ids -> Similarities] :
              dense' = [k \in DOMAIN ids |-> [example |-> ids[k], similarity |-> similarity[k]]]
      BY <3>1
    <3>3. PICK ids \in SetToSeqs(S) : \E similarity \in [DOMAIN ids -> Similarities] :
              dense' = [k \in DOMAIN ids |-> [example |-> ids[k], similarity |-> similarity[k]]]
      BY <3>2
    <3>4. PICK similarity \in [DOMAIN ids -> Similarities] :
             dense' = [k \in DOMAIN ids |-> [example |-> ids[k], similarity |-> similarity[k]]]
      BY <3>3
    <3>5. n \in Nat /\ S \in SUBSET Examples /\ Cardinality(S) = n
      <4>1. Head(queue).topK \in Nat
        BY <1>2 DEF Strategies
      <4> QED
        BY <4>1 DEF kSubset
    <3>6. /\ DOMAIN ids = 1..n /\ \A k \in 1..n : ids[k] \in Examples
          /\ \A j, k \in 1..n : ids[j] = ids[k] => j = k
      BY <3>5, EnumeratedOnce
    <3>7. \A k \in 1..n : similarity[k] \in -100..100
      BY <3>6, SettingsAssumption
    <3>8. dense' \in [1..n -> [example : Examples, similarity : -100..100]]
      BY <3>4, <3>6, <3>7
    <3>9. dense' \in Seq([example : Examples, similarity : -100..100])
      <4> DEFINE Hit == [example : Examples, similarity : -100..100]
      <4>1. dense' \in [1..n -> Hit]
        BY <3>8
      <4> HIDE DEF Hit
      <4>2. dense' \in Seq(Hit)
        BY <3>5, <4>1, IsASeq
      <4> QED
        BY <4>2 DEF Hit
    <3>10. \A k \in 1..n : dense'[k].example = ids[k]
      BY <3>4, <3>6
    <3> QED
      BY <2>2, <3>6, <3>8, <3>9, <3>10
  <2> QED
    BY <2>1, <2>2
<1>5. HitsTyped'
  BY <1>3, <1>4 DEF HitsTyped
<1>6. ListsAsked(Head(queue))'
  BY <1>2, <1>3, <1>4 DEF ListsAsked
<1>7. AttemptInv'
  BY <1>1, <1>2, <1>5, <1>6 DEF RetrieveDense, AttemptInv
<1>8. OutcomeInv'
  BY <1>1 DEF RetrieveDense, OutcomeInv, WellFormed
<1> QED
  BY <1>7, <1>8

LEMMA RetrieveLexicalKeeps ==
    ASSUME VerdictInv, RetrieveLexical
    PROVE  VerdictInv'
<1> USE DEF VerdictInv
<1>1. Judging /\ Judging' /\ at' # "idle" /\ at' # "answered"
  BY DEF RetrieveLexical, Judging
<1>2. queue \in Seq(Strategies) /\ queue # <<>> /\ Head(queue) \in Strategies /\ queue' = queue
  BY <1>1 DEF RetrieveLexical, AttemptInv
<1>3. /\ dense' = dense /\ dense \in Seq([example : Examples, similarity : -100..100])
      /\ \A j, k \in DOMAIN dense : dense[j].example = dense[k].example => j = k
      /\ dense # <<>> => Head(queue).dense
  BY <1>1 DEF RetrieveLexical, AttemptInv, HitsTyped, ListsAsked
<1>4. /\ lexical' \in Seq(Examples)
      /\ \A j, k \in DOMAIN lexical' : lexical'[j] = lexical'[k] => j = k
      /\ lexical' # <<>> => Head(queue).bm25
  <2>1. CASE ~Head(queue).bm25
    BY <2>1 DEF RetrieveLexical
  <2>2. CASE Head(queue).bm25
    <3>1. PICK n \in 0..Head(queue).topK :
            \E S \in kSubset(n, Examples) : lexical' \in SetToSeqs(S)
      BY <2>2 DEF RetrieveLexical
    <3>2. PICK S \in kSubset(n, Examples) : lexical' \in SetToSeqs(S)
      BY <3>1
    <3>3. n \in Nat /\ S \in SUBSET Examples /\ Cardinality(S) = n
      <4>1. Head(queue).topK \in Nat
        BY <1>2 DEF Strategies
      <4> QED
        BY <4>1 DEF kSubset
    <3> QED
      BY <2>2, <3>2, <3>3, EnumeratedOnce
  <2> QED
    BY <2>1, <2>2
<1>5. HitsTyped'
  BY <1>3, <1>4 DEF HitsTyped
<1>6. ListsAsked(Head(queue))'
  BY <1>2, <1>3, <1>4 DEF ListsAsked
<1>7. AttemptInv'
  BY <1>1, <1>2, <1>5, <1>6 DEF RetrieveLexical, AttemptInv
<1>8. OutcomeInv'
  BY <1>1 DEF RetrieveLexical, OutcomeInv, WellFormed
<1> QED
  BY <1>7, <1>8

LEMMA FuseKeeps ==
    ASSUME VerdictInv, Fuse
    PROVE  VerdictInv'
<1> USE DEF VerdictInv
<1>1. Judging /\ Judging' /\ at' # "idle" /\ at' # "answered"
  BY DEF Fuse, Judging
<1>2. Head(queue) \in Strategies
  BY <1>1 DEF AttemptInv
<1>3. WellFormed(outcome')
  <2>1. PICK ranked \in Rankings(Head(queue)) : outcome' = Decide(Head(queue), ranked)
    BY DEF Fuse
  <2>2. WellFormed(Decide(Head(queue), ranked))
    BY <1>2, DecisionWellFormed DEF AttemptInv
  <2> QED
    BY <2>1, <2>2
<1>4. HitsTyped' /\ ListsAsked(Head(queue))'
  BY <1>1 DEF Fuse, AttemptInv, HitsTyped, ListsAsked
<1>5. AttemptInv'
  BY <1>1, <1>4 DEF Fuse, AttemptInv
<1>6. OutcomeInv'
  BY <1>1, <1>3 DEF Fuse, OutcomeInv, WellFormed
<1> QED
  BY <1>5, <1>6

LEMMA ForgetHits ==
    ASSUME Forget
    PROVE  /\ HitsTyped' /\ dense' = <<>> /\ lexical' = <<>>
           /\ active' \subseteq Intents /\ WellFormed(outcome') /\ \A s : ListsAsked(s)'
<1>1. dense' = <<>> /\ lexical' = <<>> /\ active' = {} /\ outcome' = NoOutcome
  BY DEF Forget
<1>2. HitsTyped'
  BY <1>1 DEF HitsTyped
<1>3. \A s : ListsAsked(s)'
  BY <1>1 DEF ListsAsked
<1> QED
  BY <1>1, <1>2, <1>3, NothingFound

\* Concluding with a verdict that is well formed and may overrule.
LEMMA ConcludeKeeps ==
    ASSUME VerdictInv, NEW verdict, WellFormed(verdict), Conclude(verdict),
           first' # Nil => WellFormed(first'),
           verdict = first' \/ /\ first'.intent = Nil
                               /\ verdict.intent # Nil
                               /\ verdict.confidence >= Threshold + Margin
    PROVE  VerdictInv'
<1>1. /\ HitsTyped' /\ dense' = <<>> /\ lexical' = <<>> /\ active' \subseteq Intents
      /\ WellFormed(outcome')
  BY ForgetHits DEF Conclude
<1>2. at' = "answered" /\ answer' = verdict /\ ~Judging' /\ at' # "idle"
  BY DEF Conclude, Judging
<1>3. AttemptInv'
  BY <1>1, <1>2 DEF AttemptInv
<1>4. WellFormed(answer')
  BY <1>2
<1>5. RescueEarned'
  BY <1>2 DEF RescueEarned
<1>6. OutcomeInv'
  <2>1. WellFormed(outcome)' /\ WellFormed(answer)' /\ (first # Nil => WellFormed(first))'
    BY <1>1, <1>4 DEF WellFormed
  <2> QED
    BY <1>2, <1>5, <2>1 DEF OutcomeInv
<1> QED
  BY <1>3, <1>6 DEF VerdictInv

LEMMA AcceptKeeps ==
    ASSUME VerdictInv, Accept
    PROVE  VerdictInv'
<1>1. Judging /\ outcome.intent # Nil /\ Conclude(outcome)
  BY DEF Accept, Judging
<1>2. WellFormed(outcome) /\ (first # Nil => WellFormed(first) /\ first.intent = Nil)
  BY <1>1 DEF VerdictInv, OutcomeInv
<1>3. CASE first = Nil
  <2>1. first' = outcome
    BY <1>3 DEF Accept
  <2> QED
    BY <1>1, <1>2, <2>1, ConcludeKeeps
<1>4. CASE first # Nil
  <2>1. first' = first /\ outcome.confidence >= Threshold + Margin
    BY <1>4 DEF Accept
  <2> QED
    BY <1>1, <1>2, <1>4, <2>1, ConcludeKeeps
<1> QED
  BY <1>3, <1>4

LEMMA GiveUpKeeps ==
    ASSUME VerdictInv, GiveUp
    PROVE  VerdictInv'
<1>1. Judging /\ Conclude(first') /\ first' = (IF first = Nil THEN outcome ELSE first)
  BY DEF GiveUp, Judging
<1>2. WellFormed(outcome) /\ (first # Nil => WellFormed(first))
  BY DEF VerdictInv, OutcomeInv
<1>3. WellFormed(first')
  BY <1>1, <1>2
<1> QED
  BY <1>1, <1>3, ConcludeKeeps

LEMMA TryNextKeeps ==
    ASSUME VerdictInv, TryNext
    PROVE  VerdictInv'
<1>1. /\ Judging /\ Judging' /\ at' # "idle" /\ at' # "answered" /\ Forget /\ answer' = answer
      /\ queue' = Tail(queue) /\ Len(queue) > 1
      /\ first' = (IF first = Nil THEN outcome ELSE first)
  BY DEF TryNext, Judging
<1>2. /\ HitsTyped' /\ dense' = <<>> /\ lexical' = <<>> /\ active' \subseteq Intents
      /\ WellFormed(outcome') /\ \A s : ListsAsked(s)'
  BY <1>1, ForgetHits
<1>3. queue' \in Seq(Strategies) /\ queue' # <<>>
  <2>1. queue \in Seq(Strategies) /\ queue # <<>>
    BY <1>1 DEF VerdictInv, AttemptInv
  <2>2. Tail(queue) \in Seq(Strategies) /\ Len(Tail(queue)) = Len(queue) - 1 /\ Len(queue) \in Nat
    BY <2>1
  <2>3. Len(Tail(queue)) # 0
    BY <1>1, <2>2
  <2> QED
    BY <1>1, <2>2, <2>3, EmptySeq
<1>4. ListsAsked(Head(queue))'
  BY <1>2 DEF ListsAsked
<1>5. AttemptInv'
  BY <1>1, <1>2, <1>3, <1>4 DEF AttemptInv
<1>6. /\ WellFormed(outcome) /\ (first # Nil => WellFormed(first) /\ first.intent = Nil)
      /\ (answer # Nil => WellFormed(answer))
  BY <1>1 DEF VerdictInv, OutcomeInv
<1>7. first = Nil => outcome.intent = Nil
  BY DEF TryNext, Declined
<1>8. WellFormed(first') /\ first'.intent = Nil
  BY <1>1, <1>6, <1>7
<1>9. OutcomeInv'
  <2>1. WellFormed(outcome)' /\ WellFormed(first)' /\ (answer # Nil => WellFormed(answer))'
    BY <1>1, <1>2, <1>6, <1>8 DEF WellFormed
  <2> QED
    BY <1>1, <1>8, <2>1 DEF OutcomeInv
<1> QED
  BY <1>5, <1>9 DEF VerdictInv

LEMMA DeliberateKeeps ==
    ASSUME VerdictInv, Deliberate
    PROVE  VerdictInv'
BY ReadIntentsKeeps, RetrieveDenseKeeps, RetrieveLexicalKeeps, FuseKeeps, AcceptKeeps,
   GiveUpKeeps, TryNextKeeps DEF Deliberate

-----------------------------------------------------------------------------
(* The inductive invariant of an evaluation.                               *)

Accounted(k) == k \in DOMAIN results \/ Cases[k].domain \in skipped

\* A result that is right is also ranked.
RightIsRanked(r) == r.expected # UNKNOWN /\ r.predicted = r.expected => r.inTop3

ReportInv ==
    /\ next \in 0..(Len(Cases) + 2)
    /\ at # "idle" => next \in DOMAIN Cases
    /\ DOMAIN results \subseteq DOMAIN Cases
    /\ skipped \subseteq {Cases[k].domain : k \in DOMAIN Cases}
    /\ \A k \in DOMAIN results : RightIsRanked(results[k])
    /\ next \in 1..(Len(Cases) + 1) \/ problem \notin Incomplete =>
         \A k \in DOMAIN Cases : k < next => Accounted(k)

IInv == VerdictInv /\ ReportInv

\* With the next case accounted for, the run may go on.
LEMMA CaseClosed ==
    ASSUME ReportInv, next \in DOMAIN Cases, next' = next + 1, at' = "idle",
           DOMAIN results' \subseteq DOMAIN Cases,
           DOMAIN results \subseteq DOMAIN results',
           skipped' \subseteq {Cases[k].domain : k \in DOMAIN Cases},
           skipped \subseteq skipped',
           \A k \in DOMAIN results' : RightIsRanked(results'[k]),
           next \in DOMAIN results' \/ Cases[next].domain \in skipped'
    PROVE  ReportInv'
<1>1. next \in Nat /\ next >= 1 /\ next <= Len(Cases) /\ Len(Cases) \in Nat
  BY CasesAssumption
<1>2. next' \in 0..(Len(Cases) + 2)
  BY <1>1
<1>3. \A k \in DOMAIN Cases : k < next => Accounted(k)
  <2>1. next \in 1..(Len(Cases) + 1)
    BY <1>1
  <2> QED
    BY <2>1 DEF ReportInv
<1>4. ASSUME NEW k \in DOMAIN Cases, k < next' PROVE Accounted(k)'
  <2>1. k \in Nat /\ (k < next \/ k = next)
    BY <1>1, <1>4, CasesAssumption
  <2>2. Accounted(k)' <=> k \in DOMAIN results' \/ Cases[k].domain \in skipped'
    BY DEF Accounted
  <2>3. CASE k < next
    <3>1. k \in DOMAIN results \/ Cases[k].domain \in skipped
      BY <1>3, <2>3 DEF Accounted
    <3> QED
      BY <2>2, <3>1
  <2>4. CASE k = next
    BY <2>2, <2>4
  <2> QED
    BY <2>1, <2>3, <2>4
<1>5. \A k \in DOMAIN results' : RightIsRanked(results[k])'
  BY DEF RightIsRanked
<1> QED
  BY <1>2, <1>4, <1>5 DEF ReportInv

LEMMA RecordKeeps ==
    ASSUME ReportInv, next \in DOMAIN Cases, next' = next + 1, at' = "idle", skipped' = skipped,
           NEW predicted, NEW ranked, Record(Case, predicted, ranked),
           RightIsRanked(Result(Case, predicted, ranked))
    PROVE  ReportInv'
<1> DEFINE r == Result(Case, predicted, ranked)
<1>1. results' = [k \in DOMAIN results \cup {next} |-> IF k = next THEN r ELSE results[k]]
  BY DEF Record
<1> HIDE DEF r
<1>2. DOMAIN results' = DOMAIN results \cup {next}
  BY <1>1
<1>3. \A k \in DOMAIN results' : results'[k] = IF k = next THEN r ELSE results[k]
  BY <1>1, <1>2
<1>4. RightIsRanked(r)
  BY DEF r
<1>5. \A k \in DOMAIN results' : RightIsRanked(results'[k])
  BY <1>2, <1>3, <1>4 DEF ReportInv
<1>6. /\ DOMAIN results \subseteq DOMAIN Cases
      /\ skipped \subseteq {Cases[k].domain : k \in DOMAIN Cases}
  BY DEF ReportInv
<1>7. DOMAIN results' \subseteq DOMAIN Cases /\ next \in DOMAIN results'
  BY <1>2, <1>6
<1>8. skipped' \subseteq {Cases[k].domain : k \in DOMAIN Cases}
  BY <1>6
<1>9. DOMAIN results \subseteq DOMAIN results' /\ skipped \subseteq skipped'
  BY <1>2
<1> QED
  BY <1>5, <1>7, <1>8, <1>9, CaseClosed

\* An error is nowhere ranked, and is not what a case expects.
LEMMA ErrorsAreWrong ==
    ASSUME next \in DOMAIN Cases
    PROVE  RightIsRanked(Result(Case, ERROR, <<>>))
<1>1. Case.expected # ERROR
  BY CasesAssumption DEF Case
<1>2. Result(Case, ERROR, <<>>).predicted = ERROR /\ Result(Case, ERROR, <<>>).expected = Case.expected
  BY DEF Result
<1> QED
  BY <1>1, <1>2 DEF RightIsRanked

\* An intent that answers is ranked first.
LEMMA AnswersAreRanked ==
    ASSUME WellFormed(answer)
    PROVE  RightIsRanked(Result(Case, IF answer.intent = Nil THEN UNKNOWN ELSE answer.intent,
                                answer.ranked))
<1> DEFINE p == IF answer.intent = Nil THEN UNKNOWN ELSE answer.intent
           r == Result(Case, p, answer.ranked)
<1>1. /\ r.predicted = p /\ r.expected = Case.expected
      /\ r.inTop3 = (\E k \in DOMAIN answer.ranked : k <= 3 /\ answer.ranked[k] = Case.expected)
  BY DEF Result
<1>2. ASSUME r.expected # UNKNOWN, r.predicted = r.expected PROVE r.inTop3
  <2>1. answer.intent # Nil /\ answer.intent = Case.expected
    BY <1>1, <1>2
  <2>2. answer.ranked \in Seq(Intents) /\ answer.ranked # <<>> /\ answer.ranked[1] = Case.expected
    BY <2>1 DEF WellFormed
  <2>3. 1 \in DOMAIN answer.ranked /\ 1 <= 3
    BY <2>2
  <2> QED
    BY <1>1, <2>2, <2>3
<1> QED
  BY <1>2 DEF RightIsRanked

-----------------------------------------------------------------------------
(* The steps of an evaluation.                                             *)

LEMMA InitHolds ==
    ASSUME Init
    PROVE  IInv
<1>1. VerdictInv
  BY VerdictInitially DEF Init
<1>2. at = "idle" /\ next = 0 /\ known = {} /\ DOMAIN results = {} /\ skipped = {}
  BY DEF Init, VerdictInit
<1>3. Len(Cases) \in Nat
  BY CasesAssumption
<1>4. 0 \in 0..(Len(Cases) + 2) /\ \A k \in DOMAIN Cases : ~(k < 0)
  <2>1. DOMAIN Cases = 1..Len(Cases)
    BY CasesAssumption
  <2> QED
    BY <1>3, <2>1
<1>5. ReportInv
  BY <1>2, <1>4 DEF ReportInv
<1> QED
  BY <1>1, <1>5 DEF IInv

LEMMA VerdictStutters ==
    ASSUME VerdictInv, UNCHANGED verdictVars
    PROVE  VerdictInv'
<1>1. /\ at' = at /\ queue' = queue /\ active' = active /\ dense' = dense /\ lexical' = lexical
      /\ outcome' = outcome /\ first' = first /\ answer' = answer
  BY DEF verdictVars
<1>2. HitsTyped' /\ (Judging <=> Judging') /\ \A s : ListsAsked(s)' <=> ListsAsked(s)
  BY <1>1 DEF VerdictInv, AttemptInv, HitsTyped, Judging, ListsAsked
<1>3. ListsAsked(Head(queue))' <=> ListsAsked(Head(queue))
  BY <1>1 DEF ListsAsked
<1>4. AttemptInv'
  BY <1>1, <1>2, <1>3 DEF VerdictInv, AttemptInv
<1>5. OutcomeInv'
  BY <1>1, <1>2 DEF VerdictInv, OutcomeInv, WellFormed, RescueEarned
<1> QED
  BY <1>4, <1>5 DEF VerdictInv

LEMMA ReportStutters ==
    ASSUME ReportInv, UNCHANGED reportVars, at' # "idle" => next \in DOMAIN Cases
    PROVE  ReportInv'
<1>1. next' = next /\ results' = results /\ skipped' = skipped /\ known' = known /\ problem' = problem
  BY DEF reportVars
<1> QED
  BY <1>1 DEF ReportInv, Accounted, RightIsRanked

LEMMA StartEvaluationKeeps ==
    ASSUME IInv, StartEvaluation
    PROVE  IInv'
<1>1. VerdictInv'
  BY VerdictStutters DEF IInv, StartEvaluation
<1>2. /\ at' = at /\ results' = results /\ skipped' = skipped /\ known' = present /\ next = 0
  BY DEF StartEvaluation, verdictVars
<1>3. at = "idle"
  <2>1. 0 \notin DOMAIN Cases
    BY CasesAssumption
  <2> QED
    BY <1>2, <2>1 DEF IInv, ReportInv
<1>4. PICK readable \in BOOLEAN :
        /\ problem' = IF ~readable THEN "no cases"
                      ELSE IF present = {} THEN "no domains" ELSE Nil
        /\ next' = IF readable /\ present # {} THEN 1 ELSE Len(Cases) + 2
  BY DEF StartEvaluation
<1>5. Len(Cases) \in Nat /\ DOMAIN Cases = 1..Len(Cases)
  BY CasesAssumption
<1>6. next' \in 0..(Len(Cases) + 2)
  <2>1. 1 \in 0..(Len(Cases) + 2) /\ Len(Cases) + 2 \in 0..(Len(Cases) + 2)
    BY <1>5
  <2>2. next' = 1 \/ next' = Len(Cases) + 2
    BY <1>4
  <2> QED
    BY <2>1, <2>2
<1>7. CASE readable /\ present # {}
  <2>1. next' = 1
    BY <1>4, <1>7
  <2>2. \A k \in DOMAIN Cases : ~(k < next')
    BY <1>5, <2>1
  <2> QED
    BY <1>1, <1>2, <1>3, <1>6, <2>2 DEF IInv, ReportInv, RightIsRanked
<1>8. CASE ~(readable /\ present # {})
  <2>1. next' = Len(Cases) + 2
    BY <1>4, <1>8
  <2>2. next' \notin 1..(Len(Cases) + 1)
    BY <1>5, <2>1
  <2>3. problem' \in Incomplete
    BY <1>4, <1>8 DEF Incomplete
  <2> QED
    BY <1>1, <1>2, <1>3, <1>6, <2>2, <2>3 DEF IInv, ReportInv, RightIsRanked
<1> QED
  BY <1>7, <1>8

LEMMA SkipCaseKeeps ==
    ASSUME IInv, SkipCase
    PROVE  IInv'
<1>1. VerdictInv'
  BY VerdictStutters DEF IInv, SkipCase
<1>2. /\ at' = "idle" /\ next \in DOMAIN Cases /\ next' = next + 1 /\ results' = results
      /\ skipped' = skipped \cup {Cases[next].domain}
  BY DEF SkipCase, Running, Case, verdictVars
<1>3. /\ DOMAIN results \subseteq DOMAIN Cases
      /\ skipped \subseteq {Cases[k].domain : k \in DOMAIN Cases}
      /\ \A k \in DOMAIN results : RightIsRanked(results[k])
      /\ ReportInv
  BY DEF IInv, ReportInv
<1>4. skipped' \subseteq {Cases[k].domain : k \in DOMAIN Cases} /\ skipped \subseteq skipped'
  BY <1>2, <1>3
<1>5. DOMAIN results' \subseteq DOMAIN Cases /\ \A k \in DOMAIN results' : RightIsRanked(results'[k])
  BY <1>2, <1>3
<1>6. DOMAIN results \subseteq DOMAIN results' /\ Cases[next].domain \in skipped'
  BY <1>2
<1>7. ReportInv'
  BY <1>2, <1>3, <1>4, <1>5, <1>6, CaseClosed
<1> QED
  BY <1>1, <1>7 DEF IInv

LEMMA FailCaseKeeps ==
    ASSUME IInv, FailCase
    PROVE  IInv'
<1>1. VerdictInv'
  BY VerdictStutters DEF IInv, FailCase
<1>2. /\ at' = "idle" /\ next \in DOMAIN Cases /\ next' = next + 1 /\ skipped' = skipped
      /\ Record(Case, ERROR, <<>>)
  BY DEF FailCase, Running, verdictVars
<1>3. ReportInv'
  BY <1>2, RecordKeeps, ErrorsAreWrong DEF IInv
<1> QED
  BY <1>1, <1>3 DEF IInv

LEMMA ClassifyCaseKeeps ==
    ASSUME IInv, ClassifyCase
    PROVE  IInv'
<1>1. VerdictInv'
  BY BeginKeeps DEF IInv, ClassifyCase
<1>2. ReportInv'
  BY ReportStutters DEF IInv, ClassifyCase, Running
<1> QED
  BY <1>1, <1>2 DEF IInv

LEMMA ClassifyKeeps ==
    ASSUME IInv, Classify
    PROVE  IInv'
<1>1. VerdictInv'
  BY DeliberateKeeps DEF IInv, Classify
<1>2. at # "idle"
  BY DEF Classify, Deliberate, ReadIntents, RetrieveDense, RetrieveLexical, Fuse, Accept, GiveUp,
         TryNext
<1>3. ReportInv'
  BY <1>2, ReportStutters DEF IInv, ReportInv, Classify
<1> QED
  BY <1>1, <1>3 DEF IInv

LEMMA BreakCaseKeeps ==
    ASSUME IInv, BreakCase
    PROVE  IInv'
<1>1. at # "idle" /\ at' = "idle" /\ first' = Nil /\ Forget /\ answer' = answer
  BY DEF BreakCase
<1>2. /\ HitsTyped' /\ dense' = <<>> /\ lexical' = <<>> /\ active' \subseteq Intents
      /\ WellFormed(outcome')
  BY <1>1, ForgetHits
<1>3. ~Judging'
  BY <1>1 DEF Judging
<1>4. AttemptInv'
  BY <1>1, <1>2, <1>3 DEF AttemptInv
<1>5. OutcomeInv'
  <2>1. WellFormed(outcome)' /\ (answer # Nil => WellFormed(answer))'
    BY <1>1, <1>2 DEF IInv, VerdictInv, OutcomeInv, WellFormed
  <2> QED
    BY <1>1, <1>3, <2>1 DEF OutcomeInv
<1>6. next \in DOMAIN Cases /\ next' = next + 1 /\ skipped' = skipped /\ Record(Case, ERROR, <<>>)
  BY <1>1 DEF BreakCase, IInv, ReportInv
<1>7. ReportInv'
  BY <1>1, <1>6, RecordKeeps, ErrorsAreWrong DEF IInv
<1> QED
  BY <1>4, <1>5, <1>7 DEF IInv, VerdictInv

LEMMA RecordCaseKeeps ==
    ASSUME IInv, RecordCase
    PROVE  IInv'
<1>1. /\ at = "answered" /\ at' = "idle" /\ first' = Nil /\ answer' = Nil
      /\ active' = active /\ dense' = dense /\ lexical' = lexical /\ outcome' = outcome
  BY DEF RecordCase
<1>2. ~Judging /\ ~Judging'
  BY <1>1 DEF Judging
<1>3. AttemptInv'
  <2>1. HitsTyped'
    BY <1>1 DEF IInv, VerdictInv, AttemptInv, HitsTyped
  <2> QED
    BY <1>1, <1>2, <2>1 DEF IInv, VerdictInv, AttemptInv
<1>4. OutcomeInv'
  <2>1. WellFormed(outcome)'
    BY <1>1 DEF IInv, VerdictInv, OutcomeInv, WellFormed
  <2> QED
    BY <1>1, <1>2, <2>1 DEF OutcomeInv
<1>5. /\ next \in DOMAIN Cases /\ next' = next + 1 /\ skipped' = skipped
      /\ Record(Case, IF answer.intent = Nil THEN UNKNOWN ELSE answer.intent, answer.ranked)
  BY <1>1 DEF RecordCase, IInv, ReportInv
<1>6. WellFormed(answer)
  BY <1>1 DEF IInv, VerdictInv, OutcomeInv
<1>7. ReportInv'
  BY <1>1, <1>5, <1>6, RecordKeeps, AnswersAreRanked DEF IInv
<1> QED
  BY <1>3, <1>4, <1>7 DEF IInv, VerdictInv

LEMMA AbortRunKeeps ==
    ASSUME IInv, AbortRun
    PROVE  IInv'
<1>1. /\ at' = "idle" /\ first' = Nil /\ answer' = Nil /\ Forget
      /\ next' = Len(Cases) + 2 /\ results' = <<>> /\ skipped' = {} /\ problem' = "aborted"
  BY DEF AbortRun
<1>2. /\ HitsTyped' /\ dense' = <<>> /\ lexical' = <<>> /\ active' \subseteq Intents
      /\ WellFormed(outcome')
  BY <1>1, ForgetHits
<1>3. ~Judging'
  BY <1>1 DEF Judging
<1>4. AttemptInv'
  BY <1>1, <1>2, <1>3 DEF AttemptInv
<1>5. OutcomeInv'
  <2>1. WellFormed(outcome)'
    BY <1>2 DEF WellFormed
  <2> QED
    BY <1>1, <1>3, <2>1 DEF OutcomeInv
<1>6. ReportInv'
  <2>1. Len(Cases) \in Nat
    BY CasesAssumption
  <2>2. next' \in 0..(Len(Cases) + 2) /\ next' \notin 1..(Len(Cases) + 1)
    BY <1>1, <2>1
  <2>3. problem' \in Incomplete /\ DOMAIN results' = {}
    BY <1>1 DEF Incomplete
  <2> QED
    BY <1>1, <2>2, <2>3 DEF ReportInv
<1> QED
  BY <1>4, <1>5, <1>6 DEF IInv, VerdictInv

LEMMA FinishKeeps ==
    ASSUME IInv, Finish
    PROVE  IInv'
<1>1. VerdictInv'
  BY VerdictStutters DEF IInv, Finish
<1>2. /\ at' = "idle" /\ next = Len(Cases) + 1 /\ next' = next + 1 /\ results' = results
      /\ skipped' = skipped /\ Len(Cases) \in Nat /\ DOMAIN Cases = 1..Len(Cases)
  BY CasesAssumption DEF Finish, verdictVars
<1>3. next \in 1..(Len(Cases) + 1) /\ next' \in 0..(Len(Cases) + 2) /\ \A k \in DOMAIN Cases : k < next
  <2>1. PICK n \in Nat : n = Len(Cases)
    BY <1>2
  <2>2. next = n + 1 /\ next' = n + 2 /\ DOMAIN Cases = 1..n
    BY <1>2, <2>1
  <2>3. n + 1 \in 1..(n + 1) /\ n + 2 \in 0..(n + 2) /\ \A k \in 1..n : k < n + 1
    OBVIOUS
  <2> QED
    BY <2>1, <2>2, <2>3
<1>4. \A k \in DOMAIN Cases : Accounted(k)
  BY <1>3 DEF IInv, ReportInv
<1>5. \A k \in DOMAIN Cases : Accounted(k)'
  BY <1>2, <1>4 DEF Accounted
<1>6. ReportInv'
  BY <1>2, <1>3, <1>5 DEF IInv, ReportInv, RightIsRanked
<1> QED
  BY <1>1, <1>6 DEF IInv

LEMMA ChangeDomainsKeeps ==
    ASSUME IInv, ChangeDomains
    PROVE  IInv'
<1>1. VerdictInv'
  BY VerdictStutters DEF IInv, ChangeDomains
<1>2. ReportInv'
  BY ReportStutters DEF IInv, ChangeDomains, verdictVars
<1> QED
  BY <1>1, <1>2 DEF IInv

LEMMA NextKeeps ==
    ASSUME IInv, [Next]_vars
    PROVE  IInv'
<1>1. CASE Next
  BY <1>1, StartEvaluationKeeps, SkipCaseKeeps, FailCaseKeeps, ClassifyCaseKeeps, ClassifyKeeps,
     BreakCaseKeeps, RecordCaseKeeps, AbortRunKeeps, FinishKeeps, ChangeDomainsKeeps DEF Next
<1>2. CASE UNCHANGED vars
  <2>1. UNCHANGED verdictVars /\ UNCHANGED reportVars /\ at' = at
    BY <1>2 DEF vars, verdictVars
  <2> QED
    BY <2>1, VerdictStutters, ReportStutters DEF IInv, ReportInv
<1> QED
  BY <1>1, <1>2

\* The invariant the theorems rest on.
THEOREM Invariant == Spec => []IInv
BY InitHolds, NextKeeps, PTL DEF Spec

\* Every variable of an evaluation has its type, whatever is configured, asked
\* and retrieved: a confidence is a share from 0 to 100, whatever the signals,
\* and what is ranked are intents (confidence.compute, run_evaluation).
THEOREM EvaluationTyped == Spec => []TypeOK
<1>1. ASSUME IInv PROVE TypeOK
  <2>1. at \in {"idle", "reading", "embedding", "searching", "fusing", "scored", "answered"}
    BY <1>1 DEF IInv, VerdictInv, AttemptInv, Judging
  <2>2. active \subseteq Intents /\ HitsTyped
    BY <1>1 DEF IInv, VerdictInv, AttemptInv
  <2>3. Elements(DenseIds) \subseteq Examples /\ Elements(lexical) \subseteq Examples
    BY <2>2, DistinctHits, DistinctIsFinite
  <2>4. \A o \in {outcome, first, answer} \ {Nil} : WellFormed(o)
    BY <1>1 DEF IInv, VerdictInv, OutcomeInv
  <2>5. ReportInv
    BY <1>1 DEF IInv
  <2> QED
    BY <2>1, <2>2, <2>3, <2>4, <2>5 DEF TypeOK, WellFormed, ReportInv
<1> QED
  BY <1>1, Invariant, PTL

LEMMA ScoredHas ==
    ASSUME IInv, Scored
    PROVE  HitsTyped /\ Current \in Strategies /\ ListsAsked(Current)
<1>1. Judging
  BY DEF Scored, Judging
<1>2. HitsTyped /\ queue \in Seq(Strategies) /\ queue # <<>> /\ ListsAsked(Head(queue))
  BY <1>1 DEF IInv, VerdictInv, AttemptInv
<1> QED
  BY <1>2 DEF Current

\* No intent scores above the ceiling its strategy is normalised by, but for the
\* rounding of its score, whatever the lists returned: what the clamp cuts off
\* the fusion signal is half a millionth at most (rrf.max_possible_score,
\* aggregator.aggregate, confidence.compute).
THEOREM NoneAboveTheCeiling == Spec => []CeilingHolds
<1>1. ASSUME IInv PROVE CeilingHolds
  BY <1>1, ScoredHas, ScoreBelowCeiling DEF CeilingHolds
<1> QED
  BY <1>1, Invariant, PTL

\* However many examples an intent has, one with topN examples that are each at
\* least as well ranked scores no less (aggregator.aggregate).
THEOREM ManyWeakNeverWin == Spec => []NumbersDoNotWin
<1>1. ASSUME IInv PROVE NumbersDoNotWin
  BY <1>1, ScoredHas, ManyWeakExamples DEF NumbersDoNotWin
<1> QED
  BY <1>1, Invariant, PTL

\* The automatic mode overrules hybrid only when hybrid placed nothing, and then
\* only with a match above the threshold and the margin, whatever the settings
\* (ClassificationService._classify_auto).
THEOREM FallBacksEarnTheAnswer == Spec => []RescueEarned
<1>1. ASSUME IInv PROVE RescueEarned
  BY <1>1 DEF IInv, VerdictInv, OutcomeInv, RescueEarned
<1> QED
  BY <1>1, Invariant, PTL

-----------------------------------------------------------------------------
(* The figures of the report.                                              *)

\* The elements of S whose key is one of T.
Keyed(S, key, T) == {k \in S : key[k] \in T}

\* Counting by key, key by key, counts everything.
LEMMA CountByKey ==
    ASSUME NEW S, IsFiniteSet(S), NEW key, NEW U, IsFiniteSet(U), NEW count,
           \A i \in U : count[i] = Cardinality(Keyed(S, key, {i}))
    PROVE  SumFunctionOnSet(count, U) = Cardinality(Keyed(S, key, U))
<1> DEFINE Of(T) == Keyed(S, key, T)
           G == {T \in SUBSET U : SumFunctionOnSet(count, T) = Cardinality(Of(T))}
<1>1. {} \in G
  <2>1. Of({}) = {}
    BY DEF Keyed
  <2> QED
    BY <2>1, SumEmpty, FS_EmptySet
<1>2. ASSUME NEW T \in SUBSET U PROVE Grows(G, T)
  <2> SUFFICES ASSUME T # {}, \A x \in T : T \ {x} \in G PROVE T \in G
    BY DEF Grows
  <2>1. PICK x \in T : SumFunctionOnSet(count, T \ {x}) = Cardinality(Of(T \ {x}))
    OBVIOUS
  <2> DEFINE One == Keyed(S, key, {x})
  <2>2. Of(T) = One \cup Of(T \ {x}) /\ One \cap Of(T \ {x}) = {}
    BY DEF Keyed
  <2>3. IsFiniteSet(One) /\ IsFiniteSet(Of(T \ {x}))
    BY FS_Subset DEF Keyed
  <2>4. Cardinality(One) \in Nat /\ Cardinality(Of(T \ {x})) \in Nat /\ Cardinality({}) = 0
    BY <2>3, FS_CardinalityType, FS_EmptySet
  <2> HIDE DEF Of
  <2>5. Cardinality(Of(T)) = Cardinality(One) + Cardinality(Of(T \ {x}))
    <3> HIDE DEF One
    <3>1. Cardinality(One \cup Of(T \ {x}))
            = Cardinality(One) + Cardinality(Of(T \ {x})) - Cardinality(One \cap Of(T \ {x}))
      BY <2>3, FS_Union
    <3>2. One \cup Of(T \ {x}) = Of(T)
      BY <2>2
    <3>3. Cardinality(One \cap Of(T \ {x})) = 0
      BY <2>2, <2>4
    <3>4. Cardinality(Of(T)) = Cardinality(One \cup Of(T \ {x}))
      BY <3>2
    <3> QED
      BY <2>4, <3>1, <3>3, <3>4
  <2>6. Numbers(count, T) /\ IsFiniteSet(T)
    <3>1. \A i \in T : IsFiniteSet(Keyed(S, key, {i}))
      BY FS_Subset DEF Keyed
    <3>2. \A i \in T : count[i] \in Nat
      BY <3>1, FS_CardinalityType
    <3> QED
      BY <3>2, FS_Subset DEF Numbers
  <2>7. SumFunctionOnSet(count, T) = count[x] + SumFunctionOnSet(count, T \ {x})
    BY <2>6, SumRemove
  <2> QED
    BY <2>1, <2>5, <2>7
<1>3. \A T \in SUBSET U : T \in G
  <2> HIDE DEF G
  <2> QED BY <1>1, <1>2, Growing
<1> QED
  BY <1>3

LEMMA FiguresAreFinite ==
    ASSUME IInv
    PROVE  /\ IsFiniteSet(DOMAIN results)
           /\ IsFiniteSet(InDomain) /\ InDomain \subseteq DOMAIN results
           /\ IsFiniteSet(OutDomain) /\ OutDomain \subseteq DOMAIN results
<1>1. IsFiniteSet(DOMAIN Cases)
  BY CasesAssumption, FS_Interval
<1>2. IsFiniteSet(DOMAIN results)
  BY <1>1, FS_Subset DEF IInv, ReportInv
<1>3. InDomain \subseteq DOMAIN results /\ OutDomain \subseteq DOMAIN results
  BY DEF InDomain, OutDomain
<1> QED
  BY <1>2, <1>3, FS_Subset

LEMMA SharesInOrder ==
    ASSUME NEW whole, IsFiniteSet(whole), NEW part \in SUBSET whole, NEW more \in SUBSET whole,
           part \subseteq more
    PROVE  Ratio(part, whole) <= Ratio(more, whole)
<1>1. /\ Cardinality(part) \in Nat /\ Cardinality(more) \in Nat /\ Cardinality(whole) \in Nat
      /\ Cardinality(part) <= Cardinality(more)
  BY FS_Subset, FS_CardinalityType
<1>2. CASE whole = {}
  BY <1>2 DEF Ratio
<1>3. CASE whole # {}
  <2>1. Cardinality(whole) \in Nat \ {0}
    BY <1>1, <1>3, FS_EmptySet
  <2>2. 100 * Cardinality(part) \in Nat /\ 100 * Cardinality(more) \in Nat
        /\ 100 * Cardinality(part) <= 100 * Cardinality(more)
    BY <1>1
  <2> QED
    BY <1>3, <2>1, <2>2, DivideMore DEF Ratio
<1> QED
  BY <1>2, <1>3

LEMMA SharesApart ==
    ASSUME NEW whole, IsFiniteSet(whole), NEW part \in SUBSET whole, NEW other \in SUBSET whole,
           part \cap other = {}
    PROVE  Ratio(part, whole) + Ratio(other, whole) <= 100
<1>1. /\ Cardinality(part) \in Nat /\ Cardinality(other) \in Nat /\ Cardinality(whole) \in Nat
      /\ IsFiniteSet(part) /\ IsFiniteSet(other)
  BY FS_Subset, FS_CardinalityType
<1>2. Cardinality(part) + Cardinality(other) <= Cardinality(whole)
  <2>1. Cardinality(part \cup other)
          = Cardinality(part) + Cardinality(other) - Cardinality(part \cap other)
    BY <1>1, FS_Union
  <2>2. Cardinality(part \cap other) = 0
    BY FS_EmptySet
  <2>3. Cardinality(part \cup other) <= Cardinality(whole)
    BY FS_Subset
  <2> QED
    BY <1>1, <2>1, <2>2, <2>3
<1>3. CASE whole = {}
  BY <1>3 DEF Ratio
<1>4. CASE whole # {}
  <2>1. Cardinality(whole) \in Nat \ {0}
    BY <1>1, <1>4, FS_EmptySet
  <2> QED
    BY <1>1, <1>2, <1>4, <2>1, DivideParts DEF Ratio
<1> QED
  BY <1>3, <1>4

\* The rows per intent add up to the cases they are made from.
LEMMA RowsAddUp ==
    ASSUME IInv
    PROVE  /\ SumFunction([i \in DOMAIN PerIntent |-> PerIntent[i].total]) = Cardinality(InDomain)
           /\ SumFunction([i \in DOMAIN PerIntent |-> PerIntent[i].correct])
                = Cardinality(InDomain \cap Correct)
<1> DEFINE key == [k \in InDomain |-> results[k].expected]
           U == {key[k] : k \in InDomain}
           Rows(i) == {k \in InDomain : results[k].expected = i}
           total == [i \in DOMAIN PerIntent |-> PerIntent[i].total]
           correct == [i \in DOMAIN PerIntent |-> PerIntent[i].correct]
<1>1. IsFiniteSet(InDomain) /\ IsFiniteSet(InDomain \cap Correct)
  BY FiguresAreFinite, FS_Subset
<1>2. \A k \in InDomain : key[k] = results[k].expected
  OBVIOUS
<1>3. PerIntent = [i \in U |-> [total |-> Cardinality(Rows(i)),
                                correct |-> Cardinality(Rows(i) \cap Correct)]]
  <2>1. U = {results[k].expected : k \in InDomain}
    BY <1>2
  <2> QED
    BY <2>1 DEF PerIntent
<1> HIDE DEF key
<1>4. IsFiniteSet(U)
  BY <1>1, FiniteImage
<1> HIDE DEF U, Rows
<1>5. DOMAIN total = U /\ DOMAIN correct = U
  BY <1>3
<1>6. \A i \in U : total[i] = Cardinality(Rows(i)) /\ correct[i] = Cardinality(Rows(i) \cap Correct)
  BY <1>3
<1> HIDE DEF total, correct
<1>7. \A i \in U : total[i] = Cardinality(Keyed(InDomain, key, {i}))
  <2>1. \A i \in U : Rows(i) = Keyed(InDomain, key, {i})
    BY <1>2 DEF Rows, Keyed
  <2> QED
    BY <1>6, <2>1
<1>8. \A i \in U : correct[i] = Cardinality(Keyed(InDomain \cap Correct, key, {i}))
  <2>1. \A i \in U : Rows(i) \cap Correct = Keyed(InDomain \cap Correct, key, {i})
    BY <1>2 DEF Rows, Keyed
  <2> QED
    BY <1>6, <2>1
<1>9. SumFunctionOnSet(total, U) = Cardinality(Keyed(InDomain, key, U))
  BY <1>1, <1>4, <1>7, CountByKey
<1>10. SumFunctionOnSet(correct, U) = Cardinality(Keyed(InDomain \cap Correct, key, U))
  BY <1>1, <1>4, <1>8, CountByKey
<1>11. /\ Keyed(InDomain, key, U) = InDomain
       /\ Keyed(InDomain \cap Correct, key, U) = InDomain \cap Correct
  BY DEF U, Keyed
<1>12. SumFunction(total) = SumFunctionOnSet(total, U)
       /\ SumFunction(correct) = SumFunctionOnSet(correct, U)
  BY <1>5 DEF SumFunction, SumFunctionOnSet, FoldFunction
<1> QED
  BY <1>9, <1>10, <1>11, <1>12 DEF total, correct

\* No case of a dataset is lost, whatever comes and goes during the run, and the
\* figures of the report agree with each other, whatever was answered
\* (run_evaluation, EvaluationReport).
THEOREM NoCaseLost == Spec => []CasesAccounted
<1>1. ASSUME IInv PROVE CasesAccounted
  <2>1. problem \notin Incomplete =>
          \A k \in 1..(next - 1) : k \in DOMAIN Cases =>
              k \in DOMAIN results \/ Cases[k].domain \in skipped
    <3>1. next \in Nat
      <4>1. next \in 0..(Len(Cases) + 2) /\ Len(Cases) \in Nat
        BY <1>1, CasesAssumption DEF IInv, ReportInv
      <4> QED
        BY <4>1
    <3>2. \A k \in 1..(next - 1) : k < next
      BY <3>1
    <3>3. problem \notin Incomplete =>
            \A k \in DOMAIN Cases : k < next => k \in DOMAIN results \/ Cases[k].domain \in skipped
      BY <1>1 DEF IInv, ReportInv, Accounted
    <3> QED
      BY <3>2, <3>3
  <2>2. Top1 <= Top3
    <3>1. InDomain \cap Correct \subseteq InDomain \cap InTop3
      BY <1>1 DEF IInv, ReportInv, RightIsRanked, InDomain, Correct, InTop3
    <3> QED
      BY <1>1, <3>1, FiguresAreFinite, SharesInOrder DEF Top1, Top3
  <2>3. Top1 + FalseUnknown <= 100
    <3>1. (InDomain \cap Correct) \cap (InDomain \cap Unplaced) = {}
      BY DEF InDomain, Correct, Unplaced
    <3> QED
      BY <1>1, <3>1, FiguresAreFinite, SharesApart DEF Top1, FalseUnknown
  <2>4. UnknownDetection = Ratio(OutDomain \cap Correct, OutDomain)
    <3>1. OutDomain \cap Unplaced = OutDomain \cap Correct
      BY DEF OutDomain, InDomain, Unplaced, Correct
    <3> QED
      BY <3>1 DEF UnknownDetection
  <2> QED
    BY <1>1, <2>1, <2>2, <2>3, <2>4, RowsAddUp DEF CasesAccounted
<1> QED
  BY <1>1, Invariant, PTL
=============================================================================
