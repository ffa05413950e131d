--------------------------- MODULE AuthoringProof ---------------------------
(***************************************************************************)
(* Proofs about Authoring, for every number of jobs, every set of replies  *)
(* and every interleaving with other requests.                             *)
(*                                                                         *)
(* The cleaning of a reply runs along a sequence.  A recursive function    *)
(* exists because its results can be listed place by place (Results), and  *)
(* what holds of the first result and of each next holds of the last       *)
(* (Climbing): both by the place of the first that fails.                  *)
(*                                                                         *)
(* The inductive invariant IInv says what a job holds by where it is, and  *)
(* that no two intents have one name, without which nothing bounds the     *)
(* identifiers in use.                                                     *)
(***************************************************************************)
EXTENDS Authoring, Integers, WellFoundedInduction, SequenceTheorems, FiniteSetTheorems, TLAPS

-----------------------------------------------------------------------------
(* Recursion along a sequence.                                             *)

\* Every set of numbers that is not empty has a least.
LEMMA LeastNumber ==
    ASSUME NEW T \in SUBSET Nat, T # {}
    PROVE  \E n \in T : \A m \in T : n <= m
<1> DEFINE R == {ss \in Nat \X Nat : ss[1] < ss[2]}
<1>1. IsWellFoundedOn(R, Nat)
  BY NatLessThanWellFounded DEF OpToRel
<1>2. PICK n \in T : \A m \in T : ~ (<<m, n>> \in R)
  <2> HIDE DEF R
  <2> QED BY <1>1, WFMin
<1>3. \A m \in T : ~(m < n)
  BY <1>2
<1> QED
  BY <1>3

\* A set of numbers that has 0 and, of each number below n, the next has all to n.
LEMMA Climbing ==
    ASSUME NEW n \in Nat, NEW T,
           0 \in T,
           \A i \in 0..n : i \in T /\ i + 1 <= n => i + 1 \in T
    PROVE  \A i \in 0..n : i \in T
<1> DEFINE Missing == {i \in 0..n : i \notin T}
<1>1. SUFFICES ASSUME Missing # {} PROVE FALSE
  OBVIOUS
<1>2. PICK i \in Missing : \A j \in Missing : i <= j
  <2>1. Missing \in SUBSET Nat
    OBVIOUS
  <2> HIDE DEF Missing
  <2> QED BY <1>1, <2>1, LeastNumber
<1>3. i \in 0..n /\ i # 0 /\ i - 1 \in 0..n /\ i - 1 \in T
  BY <1>2
<1> QED
  BY <1>2, <1>3

\* The greatest of a set of places of a sequence.
LEMMA GreatestPlace ==
    ASSUME NEW n \in Nat, NEW T \in SUBSET (1..n), T # {}
    PROVE  \E k \in T : \A j \in T : j <= k
<1> DEFINE U == {n - k : k \in T}
<1>1. U \in SUBSET Nat /\ U # {}
  <2>1. \A k \in T : n - k \in Nat
    OBVIOUS
  <2> QED
    BY <2>1
<1>2. PICK u \in U : \A m \in U : u <= m
  <2> HIDE DEF U
  <2> QED BY <1>1, LeastNumber
<1>3. PICK k \in T : u = n - k
  OBVIOUS
<1>4. ASSUME NEW j \in T PROVE j <= k
  <2>1. n - j \in U
    OBVIOUS
  <2> QED
    BY <1>2, <1>3, <2>1
<1> QED
  BY <1>4

\* g makes a result in A of the one before and a place.
Stepper(n, A, base, g) == n \in Nat /\ base \in A /\ g \in [A \X (1..n) -> A]

\* A step function has its sequence of results.
LEMMA Results ==
    ASSUME NEW n, NEW A, NEW base, NEW g, Stepper(n, A, base, g)
    PROVE  \E f \in [0..n -> A] : f[0] = base /\ \A k \in 1..n : f[k] = g[<<f[k - 1], k>>]
<1>0. n \in Nat /\ base \in A /\ g \in [A \X (1..n) -> A]
  BY DEF Stepper
<1> DEFINE Fits(f, m) == f[0] = base /\ \A k \in 1..m : f[k] = g[<<f[k - 1], k>>]
           Made == {m \in 0..n : \E f \in [0..m -> A] : Fits(f, m)}
<1>1. 0 \in Made
  <2> DEFINE f == [k \in 0..0 |-> base]
  <2>1. f \in [0..0 -> A] /\ Fits(f, 0)
    BY <1>0
  <2>2. 0 \in 0..n
    BY <1>0
  <2> HIDE DEF f, Fits
  <2> QED
    BY <2>1, <2>2
<1>2. ASSUME NEW m \in 0..n, m \in Made, m + 1 <= n PROVE m + 1 \in Made
  <2>1. PICK f \in [0..m -> A] : Fits(f, m)
    BY <1>0, <1>2
  <2>2. PICK z \in A : z = g[<<f[m], m + 1>>]
    <3>1. <<f[m], m + 1>> \in A \X (1..n)
      BY <1>0, <1>2
    <3> QED
      BY <1>0, <3>1
  <2> DEFINE h == [k \in 0..(m + 1) |-> IF k = m + 1 THEN z ELSE f[k]]
  <2>3. h \in [0..(m + 1) -> A]
    <3>1. \A k \in 0..(m + 1) : k = m + 1 \/ k \in 0..m
      BY <1>0, <1>2
    <3>2. \A k \in 0..m : f[k] \in A
      OBVIOUS
    <3>3. \A k \in 0..(m + 1) : (IF k = m + 1 THEN z ELSE f[k]) \in A
      BY <3>1, <3>2
    <3> QED
      BY <3>3
  <2>4. h[0] = base /\ h[m + 1] = g[<<h[m], m + 1>>] /\ \A k \in 0..m : h[k] = f[k]
    <3>1. m \in Nat /\ 0 \in 0..m /\ m \in 0..m /\ m + 1 \in 0..(m + 1)
          /\ \A k \in 0..m : k \in 0..(m + 1) /\ k # m + 1
      BY <1>0, <1>2
    <3>2. h[m + 1] = z /\ \A k \in 0..m : h[k] = f[k]
      BY <3>1
    <3> HIDE DEF h
    <3> QED
      BY <2>1, <2>2, <3>1, <3>2
  <2> HIDE DEF h
  <2>5. ASSUME NEW k \in 1..(m + 1) PROVE h[k] = g[<<h[k - 1], k>>]
    <3>1. CASE k = m + 1
      BY <2>4, <3>1
    <3>2. CASE k # m + 1
      <4>1. k \in 1..m /\ k \in 0..m /\ k - 1 \in 0..m
        BY <3>2
      <4> QED
        BY <2>1, <2>4, <4>1
    <3> QED
      BY <3>1, <3>2
  <2>6. Fits(h, m + 1)
    BY <2>4, <2>5
  <2>7. m + 1 \in 0..n
    BY <1>0, <1>2
  <2> HIDE DEF Fits
  <2> QED
    BY <2>3, <2>6, <2>7
<1>3. n \in Made
  <2> HIDE DEF Made
  <2> QED BY <1>0, <1>1, <1>2, Climbing
<1> QED
  BY <1>0, <1>3

LEMMA SequenceOfElements ==
    ASSUME NEW A, NEW s \in Seq(A)
    PROVE  IsSequence(s) /\ Elements(s) \subseteq A
BY DEF IsSequence, Elements

LEMMA ElementsMember ==
    ASSUME NEW A, NEW s, IsSequence(s), Elements(s) \subseteq A
    PROVE  s \in Seq(A)
BY DEF IsSequence

LEMMA AppendFacts ==
    ASSUME NEW A, NEW s \in Seq(A), NEW x \in A
    PROVE  /\ Append(s, x) \in Seq(A) /\ Len(Append(s, x)) = Len(s) + 1
           /\ DOMAIN Append(s, x) = 1..(Len(s) + 1)
           /\ \A k \in 1..Len(s) : Append(s, x)[k] = s[k]
           /\ Append(s, x)[Len(s) + 1] = x
           /\ Elements(Append(s, x)) = Elements(s) \cup {x}
<1> DEFINE y == Append(s, x)
<1>1. /\ y \in Seq(A) /\ Len(y) = Len(s) + 1 /\ Len(s) \in Nat /\ DOMAIN s = 1..Len(s)
      /\ \A k \in 1..Len(s) : y[k] = s[k]
      /\ y[Len(s) + 1] = x
  BY AppendProperties
<1> HIDE DEF y
<1>2. DOMAIN y = 1..(Len(s) + 1)
  BY <1>1
<1>3. Elements(y) \subseteq Elements(s) \cup {x}
  <2>1. \A k \in DOMAIN y : k \in DOMAIN s \/ k = Len(s) + 1
    BY <1>1, <1>2
  <2> QED
    BY <1>1, <2>1 DEF Elements
<1>4. Elements(s) \cup {x} \subseteq Elements(y)
  <2>1. Len(s) + 1 \in DOMAIN y /\ \A k \in DOMAIN s : k \in DOMAIN y
    BY <1>1, <1>2
  <2> QED
    BY <1>1, <2>1 DEF Elements
<1> QED
  BY <1>1, <1>2, <1>3, <1>4 DEF y

LEMMA FirstFacts ==
    ASSUME NEW A, NEW s \in Seq(A), NEW n \in Nat
    PROVE  /\ First(s, n) \in Seq(A) /\ Elements(First(s, n)) \subseteq Elements(s)
           /\ Len(First(s, n)) = IF Len(s) < n THEN Len(s) ELSE n
<1> DEFINE m == IF Len(s) < n THEN Len(s) ELSE n
<1>1. m \in Nat /\ m <= Len(s) /\ Len(s) \in Nat /\ DOMAIN s = 1..Len(s)
  OBVIOUS
<1> HIDE DEF m
<1> DEFINE y == SubSeq(s, 1, m)
<1>2. y \in Seq(A) /\ Len(y) = m /\ \A k \in 1..m : y[k] = s[k]
  BY <1>1, SubSeqProperties
<1> HIDE DEF y
<1>3. Elements(y) \subseteq Elements(s)
  <2>1. \A k \in DOMAIN y : k \in DOMAIN s /\ y[k] = s[k]
    BY <1>1, <1>2
  <2> QED
    BY <2>1 DEF Elements
<1> QED
  BY <1>2, <1>3 DEF y, m, First

\* No two members are equal in normal form.
Distinct(s) == \A j, k \in DOMAIN s : Norm[s[j]] = Norm[s[k]] => j = k

LEMMA AppendDistinct ==
    ASSUME NEW A, NEW s \in Seq(A), NEW x \in A, Distinct(s),
           \A t \in Elements(s) : Norm[t] # Norm[x]
    PROVE  Distinct(Append(s, x))
<1>1. /\ DOMAIN Append(s, x) = 1..(Len(s) + 1) /\ Len(s) \in Nat /\ DOMAIN s = 1..Len(s)
      /\ \A k \in 1..Len(s) : Append(s, x)[k] = s[k]
      /\ Append(s, x)[Len(s) + 1] = x
  BY AppendFacts
<1>2. \A k \in 1..Len(s) : Norm[s[k]] # Norm[x]
  BY <1>1 DEF Elements
<1> DEFINE y == Append(s, x)
<1> HIDE DEF y
<1>3. ASSUME NEW j \in 1..(Len(s) + 1), NEW k \in 1..(Len(s) + 1), Norm[y[j]] = Norm[y[k]]
      PROVE  j = k
  <2>1. CASE j \in 1..Len(s) /\ k \in 1..Len(s)
    BY <1>1, <1>3, <2>1 DEF Distinct, y
  <2>2. CASE j = Len(s) + 1 /\ k = Len(s) + 1
    BY <2>2
  <2>3. CASE j = Len(s) + 1 /\ k \in 1..Len(s)
    BY <1>1, <1>2, <1>3, <2>3 DEF y
  <2>4. CASE k = Len(s) + 1 /\ j \in 1..Len(s)
    BY <1>1, <1>2, <1>3, <2>4 DEF y
  <2> QED
    BY <1>1, <2>1, <2>2, <2>3, <2>4
<1> QED
  BY <1>1, <1>3 DEF Distinct, y

LEMMA EmptySequence ==
    ASSUME NEW A
    PROVE  /\ <<>> \in Seq(A) /\ Len(<<>>) = 0 /\ Elements(<<>>) = {}
           /\ Distinct(<<>>) /\ IsSequence(<<>>)
BY DEF Elements, Distinct, IsSequence

LEMMA KeepFacts ==
    ASSUME NEW A, NEW s \in Seq(A), NEW S
    PROVE  /\ Keep(s, S) \in Seq(A)
           /\ Elements(Keep(s, S)) = Elements(s) \cap S
           /\ Distinct(s) => Distinct(Keep(s, S))
<1> DEFINE n == Len(s)
           Next1(x, k) == IF s[k] \in S THEN Append(x, s[k]) ELSE x
           D(f) == [k \in 0..n |-> IF k = 0 THEN <<>> ELSE Next1(f[k - 1], k)]
           F == CHOOSE f : f = D(f)
<1>1. n \in Nat /\ DOMAIN s = 1..n /\ \A k \in 1..n : s[k] \in A
  OBVIOUS
<1>2. Keep(s, S) = F[n]
  BY DEF Keep
<1>3. F = D(F)
  <2> DEFINE g == [y \in Seq(A) \X (1..n) |-> Next1(y[1], y[2])]
  <2>1. g \in [Seq(A) \X (1..n) -> Seq(A)]
    BY <1>1, AppendFacts
  <2>2. <<>> \in Seq(A)
    BY EmptySequence
  <2>3. \A x \in Seq(A), k \in 1..n : g[<<x, k>>] = Next1(x, k)
    OBVIOUS
  <2> HIDE DEF g, n, Next1
  <2>4. Stepper(n, Seq(A), <<>>, g)
    BY <1>1, <2>1, <2>2 DEF Stepper
  <2>5. PICK f \in [0..n -> Seq(A)] : f[0] = <<>> /\ \A k \in 1..n : f[k] = g[<<f[k - 1], k>>]
    BY <2>4, Results
  <2>6. ASSUME NEW k \in 0..n PROVE f[k] = IF k = 0 THEN <<>> ELSE Next1(f[k - 1], k)
    <3>1. CASE k = 0
      BY <2>5, <3>1
    <3>2. CASE k # 0
      <4>1. k \in 1..n /\ k - 1 \in 0..n
        BY <1>1, <3>2
      <4>2. f[k - 1] \in Seq(A)
        BY <4>1
      <4> QED
        BY <2>3, <2>5, <3>2, <4>1, <4>2
    <3> QED
      BY <3>1, <3>2
  <2>7. f = D(f)
    BY <2>6
  <2> HIDE DEF D
  <2> QED
    BY <2>7
<1>4. F[0] = <<>> /\ \A k \in 1..n : F[k] = Next1(F[k - 1], k)
  <2>1. 0 \in 0..n /\ \A k \in 1..n : k \in 0..n /\ k # 0
    BY <1>1
  <2> HIDE DEF F, n, Next1
  <2> QED
    BY <1>3, <2>1
<1> DEFINE Before(k) == {s[j] : j \in 1..k}
           Good == {k \in 0..n : /\ F[k] \in Seq(A) /\ Elements(F[k]) = Before(k) \cap S
                                 /\ Distinct(s) => Distinct(F[k])}
<1> HIDE DEF F, D, n
<1>5. 0 \in Good
  <2>1. Before(0) = {} /\ 0 \in 0..n
    BY <1>1
  <2> HIDE DEF Before
  <2> QED
    BY <1>4, <2>1, EmptySequence
<1>6. ASSUME NEW k \in 0..n, k \in Good, k + 1 <= n PROVE k + 1 \in Good
  <2>1. k + 1 \in 1..n /\ k + 1 \in 0..n /\ (k + 1) - 1 = k /\ k + 1 \in DOMAIN s
    BY <1>1, <1>6
  <2>2. F[k + 1] = Next1(F[k], k + 1)
    BY <1>4, <2>1
  <2>3. F[k] \in Seq(A) /\ Elements(F[k]) = Before(k) \cap S /\ (Distinct(s) => Distinct(F[k]))
    BY <1>6
  <2>4. Before(k + 1) = Before(k) \cup {s[k + 1]} /\ s[k + 1] \in A
    <3>1. 1..(k + 1) = 1..k \cup {k + 1}
      BY <1>1, <1>6
    <3> QED
      BY <1>1, <2>1, <3>1
  <2>5. Distinct(s) => \A t \in Before(k) : Norm[t] # Norm[s[k + 1]]
    <3>1. \A j \in 1..k : j \in DOMAIN s /\ j # k + 1
      BY <1>1, <1>6
    <3> QED
      BY <2>1, <3>1 DEF Distinct
  <2> HIDE DEF Before
  <2>6. CASE s[k + 1] \in S
    <3>1. F[k + 1] = Append(F[k], s[k + 1])
      BY <2>2, <2>6
    <3>2. F[k + 1] \in Seq(A) /\ Elements(F[k + 1]) = Elements(F[k]) \cup {s[k + 1]}
      BY <2>3, <2>4, <3>1, AppendFacts
    <3>3. Distinct(s) => Distinct(F[k + 1])
      BY <2>3, <2>4, <2>5, <3>1, AppendDistinct
    <3>4. Elements(F[k + 1]) = Before(k + 1) \cap S
      BY <2>3, <2>4, <2>6, <3>2
    <3> QED
      BY <2>1, <3>2, <3>3, <3>4
  <2>7. CASE s[k + 1] \notin S
    <3>1. F[k + 1] = F[k]
      BY <2>2, <2>7
    <3>2. Elements(F[k + 1]) = Before(k + 1) \cap S
      BY <2>3, <2>4, <2>7, <3>1
    <3> QED
      BY <2>1, <2>3, <3>1, <3>2
  <2> QED
    BY <2>6, <2>7
<1>7. n \in Good
  <2> HIDE DEF Good
  <2>1. \A k \in 0..n : k \in Good
    BY <1>1, <1>5, <1>6, Climbing
  <2> QED
    BY <1>1, <2>1
<1>8. Before(n) = Elements(s)
  BY <1>1 DEF Elements
<1> QED
  BY <1>2, <1>7, <1>8

-----------------------------------------------------------------------------
(* What the cleaning makes of a reply.                                     *)

\* Texts kept are texts given, and no two are equal in normal form.
LEMMA CleanExamplesFacts ==
    ASSUME NEW A, NEW items \in Seq(A), NEW limit, NEW existing
    PROVE  /\ CleanExamples(items, limit, existing) \in Seq(A)
           /\ Distinct(CleanExamples(items, limit, existing))
<1> DEFINE n == Len(items)
           Skips(x, k) == \/ Len(x) >= limit
                          \/ Norm[items[k]] \in {Norm[t] : t \in existing \cup Elements(x)}
           Next1(x, k) == IF Skips(x, k) THEN x ELSE Append(x, items[k])
           D(f) == [k \in 0..n |-> IF k = 0 THEN <<>> ELSE Next1(f[k - 1], k)]
           F == CHOOSE f : f = D(f)
<1>1. n \in Nat /\ DOMAIN items = 1..n /\ \A k \in 1..n : items[k] \in A
  OBVIOUS
<1>2. CleanExamples(items, limit, existing) = F[n]
  BY DEF CleanExamples
<1> HIDE DEF Skips
<1>3. F = D(F)
  <2> DEFINE g == [y \in Seq(A) \X (1..n) |-> Next1(y[1], y[2])]
  <2>1. g \in [Seq(A) \X (1..n) -> Seq(A)]
    BY <1>1, AppendFacts
  <2>2. <<>> \in Seq(A)
    BY EmptySequence
  <2>3. \A x \in Seq(A), k \in 1..n : g[<<x, k>>] = Next1(x, k)
    OBVIOUS
  <2> HIDE DEF g, n, Next1
  <2>4. Stepper(n, Seq(A), <<>>, g)
    BY <1>1, <2>1, <2>2 DEF Stepper
  <2>5. PICK f \in [0..n -> Seq(A)] : f[0] = <<>> /\ \A k \in 1..n : f[k] = g[<<f[k - 1], k>>]
    BY <2>4, Results
  <2>6. ASSUME NEW k \in 0..n PROVE f[k] = IF k = 0 THEN <<>> ELSE Next1(f[k - 1], k)
    <3>1. CASE k = 0
      BY <2>5, <3>1
    <3>2. CASE k # 0
      <4>1. k \in 1..n /\ k - 1 \in 0..n
        BY <1>1, <3>2
      <4>2. f[k - 1] \in Seq(A)
        BY <4>1
      <4> QED
        BY <2>3, <2>5, <3>2, <4>1, <4>2
    <3> QED
      BY <3>1, <3>2
  <2>7. f = D(f)
    BY <2>6
  <2> HIDE DEF D
  <2> QED
    BY <2>7
<1>4. F[0] = <<>> /\ \A k \in 1..n : F[k] = Next1(F[k - 1], k)
  <2>1. 0 \in 0..n /\ \A k \in 1..n : k \in 0..n /\ k # 0
    BY <1>1
  <2> HIDE DEF F, n, Next1
  <2> QED
    BY <1>3, <2>1
<1> DEFINE Good == {k \in 0..n : F[k] \in Seq(A) /\ Distinct(F[k])}
<1> HIDE DEF F, D, n
<1>5. 0 \in Good
  <2>1. 0 \in 0..n
    BY <1>1
  <2> QED
    BY <1>4, <2>1, EmptySequence
<1>6. ASSUME NEW k \in 0..n, k \in Good, k + 1 <= n PROVE k + 1 \in Good
  <2>1. k + 1 \in 1..n /\ k + 1 \in 0..n /\ (k + 1) - 1 = k
    BY <1>1, <1>6
  <2>2. F[k + 1] = Next1(F[k], k + 1)
    BY <1>4, <2>1
  <2>3. F[k] \in Seq(A) /\ Distinct(F[k]) /\ items[k + 1] \in A
    BY <1>1, <1>6, <2>1
  <2>4. CASE Skips(F[k], k + 1)
    BY <2>1, <2>2, <2>3, <2>4
  <2>5. CASE ~Skips(F[k], k + 1)
    <3>1. F[k + 1] = Append(F[k], items[k + 1])
      BY <2>2, <2>5
    <3>2. \A t \in Elements(F[k]) : Norm[t] # Norm[items[k + 1]]
      BY <2>5 DEF Skips
    <3>3. F[k + 1] \in Seq(A)
      BY <2>3, <3>1, AppendFacts
    <3>4. Distinct(F[k + 1])
      BY <2>3, <3>1, <3>2, AppendDistinct
    <3> QED
      BY <2>1, <3>3, <3>4
  <2> QED
    BY <2>4, <2>5
<1>7. n \in Good
  <2> HIDE DEF Good
  <2>1. \A k \in 0..n : k \in Good
    BY <1>1, <1>5, <1>6, Climbing
  <2> QED
    BY <1>1, <2>1
<1> QED
  BY <1>2, <1>7

\* Every field has a known type, and an enum a value.
SchemaOK(schema) ==
    \A key \in DOMAIN schema :
        /\ {schema[key].type, schema[key].items} \subseteq KnownTypes
        /\ schema[key].type = "enum" => schema[key].values # {}

LEMMA CleanSchemaFacts ==
    ASSUME NEW schema, IsSequence(schema)
    PROVE  CleanEntitySchema(schema) = Nil \/ SchemaOK(CleanEntitySchema(schema))
<1> DEFINE known(f) == FieldKey[f.name] # Nil /\ f.type \in KnownTypes
           unreadable(f) == \/ f.type = "enum" /\ f.values = Nil
                            \/ f.type = "array" /\ f.items = Nil
           usable == {k \in DOMAIN schema :
                      known(schema[k]) /\ ~(schema[k].type = "enum" /\ schema[k].values = {})}
           key(k) == FieldKey[schema[k].name]
           Last(name, k) == key(k) = name /\ \A j \in usable : key(j) = name => j <= k
           last(name) == CHOOSE k \in usable : Last(name, k)
           cleaned(f) == [type |-> f.type, required |-> f.required,
                          values |-> IF f.type = "enum" THEN f.values ELSE {},
                          items |-> IF f.type = "array" /\ f.items \in KnownTypes
                                    THEN f.items ELSE "string"]
           Result == [name \in {key(k) : k \in usable} |-> cleaned(schema[last(name)])]
<1>1. CleanEntitySchema(schema) \in {Nil, Result}
  BY DEF CleanEntitySchema
<1>2. ASSUME NEW name \in DOMAIN Result
      PROVE  /\ {Result[name].type, Result[name].items} \subseteq KnownTypes
             /\ Result[name].type = "enum" => Result[name].values # {}
  <2> DEFINE T == {k \in usable : key(k) = name}
  <2>1. Len(schema) \in Nat /\ DOMAIN schema = 1..Len(schema)
    BY DEF IsSequence
  <2>2. T # {}
    OBVIOUS
  <2>3. T \in SUBSET (1..Len(schema))
    BY <2>1
  <2>4. PICK k \in T : \A j \in T : j <= k
    <3> HIDE DEF T
    <3> QED BY <2>1, <2>2, <2>3, GreatestPlace
  <2>5. \E i \in usable : Last(name, i)
    BY <2>4
  <2>6. last(name) \in usable
    <3> HIDE DEF usable, Last
    <3> QED BY <2>5
  <2> DEFINE f == schema[last(name)]
  <2>7. f.type \in KnownTypes /\ ~(f.type = "enum" /\ f.values = {})
    <3> HIDE DEF last
    <3> QED BY <2>6
  <2>8. Result[name] = cleaned(f)
    OBVIOUS
  <2> HIDE DEF f
  <2>9. Result[name].type = f.type
        /\ Result[name].items \in {f.items, "string"}
        /\ (Result[name].items # "string" => f.items \in KnownTypes)
        /\ (f.type = "enum" => Result[name].values = f.values)
    <3> HIDE DEF Result
    <3> QED BY <2>8
  <2> HIDE DEF Result
  <2>10. "string" \in KnownTypes
    BY DEF KnownTypes
  <2> QED
    BY <2>7, <2>9, <2>10
<1> HIDE DEF Result
<1> QED
  BY <1>1, <1>2 DEF SchemaOK

\* A proposal as the writing of intents needs it.
Usable(p) ==
    /\ p.name \in Names /\ p.tool \in Tools \cup {Nil}
    /\ p.schema = Nil \/ SchemaOK(p.schema)
    /\ p.texts \in Seq(Texts) /\ Distinct(p.texts)

ItemOK(item) ==
    /\ Coerced[item.name] \in Names \cup {Nil}
    /\ IsSequence(item.schema)
    /\ item.texts \in Seq(Texts)

LEMMA CleanedFacts ==
    ASSUME NEW item, ItemOK(item), Coerced[item.name] # Nil, NEW offered \in SUBSET Tools
    PROVE  Usable(Cleaned(item, offered))
<1> DEFINE p == Cleaned(item, offered)
<1>1. /\ p.name = Coerced[item.name]
      /\ p.tool = IF item.tool \in offered THEN item.tool ELSE Nil
      /\ p.schema = CleanEntitySchema(item.schema)
      /\ p.texts = CleanExamples(item.texts, PerIntent, {})
  BY DEF Cleaned
<1> HIDE DEF p
<1>2. p.schema = Nil \/ SchemaOK(p.schema)
  BY <1>1, CleanSchemaFacts DEF ItemOK
<1>3. p.texts \in Seq(Texts) /\ Distinct(p.texts)
  BY <1>1, CleanExamplesFacts DEF ItemOK
<1>4. p.name \in Names /\ p.tool \in Tools \cup {Nil}
  BY <1>1 DEF ItemOK
<1>5. Usable(p)
  BY <1>2, <1>3, <1>4 DEF Usable
<1> QED
  BY <1>5 DEF p

ReplyOK(reply) == IsSequence(reply) /\ \A item \in Elements(reply) : ItemOK(item)
TodoOK(todo) == IsSequence(todo) /\ \A p \in Elements(todo) : Usable(p)

\* What is left of a reply is a list of usable proposals.
LEMMA CleanIntentsFacts ==
    ASSUME NEW reply, ReplyOK(reply), NEW known, NEW offered \in SUBSET Tools
    PROVE  TodoOK(CleanIntents(reply, known, offered))
<1> DEFINE items == First(reply, Count)
           n == Len(items)
           repeats(item, kept) ==
               Fold[Coerced[item.name]] \in known \cup {Fold[p.name] : p \in Elements(kept)}
           Skips(x, k) == Coerced[items[k].name] = Nil \/ repeats(items[k], x)
           Next1(x, k) == IF Skips(x, k) THEN x ELSE Append(x, Cleaned(items[k], offered))
           D(f) == [k \in 0..n |-> IF k = 0 THEN <<>> ELSE Next1(f[k - 1], k)]
           F == CHOOSE f : f = D(f)
           A == {Cleaned(item, offered) : item \in {i \in Elements(items) : Coerced[i.name] # Nil}}
<1>1. CleanIntents(reply, known, offered) = F[n]
  BY DEF CleanIntents
<1>2. items \in Seq(Elements(reply)) /\ Elements(items) \subseteq Elements(reply)
  BY FirstFacts, ReplyAssumption DEF ReplyOK, IsSequence
<1> HIDE DEF items
<1>3. n \in Nat /\ DOMAIN items = 1..n
  BY <1>2
<1>4. ASSUME NEW x \in Seq(A), NEW k \in 1..n PROVE Next1(x, k) \in Seq(A)
  <2>1. CASE Skips(x, k)
    BY <2>1
  <2>2. CASE ~Skips(x, k)
    <3>1. Cleaned(items[k], offered) \in A
      BY <1>3, <2>2 DEF Elements
    <3> HIDE DEF A, Skips
    <3> QED
      BY <2>2, <3>1, AppendFacts
  <2> QED
    BY <2>1, <2>2
<1> HIDE DEF A
<1>5. F = D(F)
  <2> DEFINE g == [y \in Seq(A) \X (1..n) |-> Next1(y[1], y[2])]
  <2>1. g \in [Seq(A) \X (1..n) -> Seq(A)]
    <3> HIDE DEF Next1
    <3> QED BY <1>4
  <2>2. <<>> \in Seq(A)
    BY EmptySequence
  <2>3. \A x \in Seq(A), k \in 1..n : g[<<x, k>>] = Next1(x, k)
    <3> HIDE DEF Next1
    <3> QED OBVIOUS
  <2> HIDE DEF g, n, Next1
  <2>4. Stepper(n, Seq(A), <<>>, g)
    BY <1>3, <2>1, <2>2 DEF Stepper
  <2>5. PICK f \in [0..n -> Seq(A)] : f[0] = <<>> /\ \A k \in 1..n : f[k] = g[<<f[k - 1], k>>]
    BY <2>4, Results
  <2>6. ASSUME NEW k \in 0..n PROVE f[k] = IF k = 0 THEN <<>> ELSE Next1(f[k - 1], k)
    <3>1. CASE k = 0
      BY <2>5, <3>1
    <3>2. CASE k # 0
      <4>1. k \in 1..n /\ k - 1 \in 0..n
        BY <1>3, <3>2
      <4>2. f[k - 1] \in Seq(A)
        BY <4>1
      <4> QED
        BY <2>3, <2>5, <3>2, <4>1, <4>2
    <3> QED
      BY <3>1, <3>2
  <2>7. f = D(f)
    BY <2>6
  <2> HIDE DEF D
  <2> QED
    BY <2>7
<1>6. F[0] = <<>> /\ \A k \in 1..n : F[k] = Next1(F[k - 1], k)
  <2>1. 0 \in 0..n /\ \A k \in 1..n : k \in 0..n /\ k # 0
    BY <1>3
  <2> HIDE DEF F, n, Next1
  <2> QED
    BY <1>5, <2>1
<1> DEFINE Good == {k \in 0..n : F[k] \in Seq(A)}
<1> HIDE DEF F, D, n, Next1
<1>7. 0 \in Good
  <2>1. 0 \in 0..n
    BY <1>3
  <2> QED
    BY <1>6, <2>1, EmptySequence
<1>8. ASSUME NEW k \in 0..n, k \in Good, k + 1 <= n PROVE k + 1 \in Good
  <2>1. k + 1 \in 1..n /\ k + 1 \in 0..n /\ (k + 1) - 1 = k
    BY <1>3, <1>8
  <2> QED
    BY <1>4, <1>6, <1>8, <2>1
<1>9. F[n] \in Seq(A)
  <2> HIDE DEF Good
  <2>1. \A k \in 0..n : k \in Good
    BY <1>3, <1>7, <1>8, Climbing
  <2>2. n \in Good
    BY <1>3, <2>1
  <2> QED
    BY <2>2 DEF Good
<1>10. \A p \in A : Usable(p)
  BY <1>2, CleanedFacts DEF A, ReplyOK
<1> QED
  BY <1>1, <1>9, <1>10, SequenceOfElements DEF TodoOK

-----------------------------------------------------------------------------
(* What the providers say.                                                 *)

LEMMA OperationsFacts ==
    /\ IsSequence(Operations) /\ Len(Operations) \in Nat /\ Len(Operations) >= 1
    /\ DOMAIN Operations = 1..Len(Operations)
<1> DEFINE all == <<"SEARCH", "DETAILS", "SUMMARY", "STATUS", "COMPARE", "EXPIRY", "CREATE", "DELETE">>
           A == {all[k] : k \in 1..8}
<1>1. Len(all) = 8
  OBVIOUS
<1>2. all \in Seq(A)
  <2>1. DOMAIN all = 1..8
    OBVIOUS
  <2>2. all = [k \in 1..8 |-> all[k]]
    BY <2>1
  <2> HIDE DEF all
  <2> QED
    BY <1>1, <2>1, <2>2
<1>3. Operations = First(all, MaxOperations)
  BY DEF Operations
<1> HIDE DEF all, A
<1>4. MaxOperations \in Nat /\ MaxOperations >= 1
  BY RuleAssumption
<1>5. Operations \in Seq(A)
  BY <1>2, <1>3, <1>4, FirstFacts
<1>6. Len(Operations) = IF Len(all) < MaxOperations THEN Len(all) ELSE MaxOperations
  BY <1>2, <1>3, <1>4, FirstFacts
<1>7. IsSequence(Operations)
  BY <1>5, SequenceOfElements
<1>8. Len(Operations) \in Nat /\ Len(Operations) >= 1
  BY <1>1, <1>4, <1>6
<1>9. DOMAIN Operations = 1..Len(Operations)
  BY <1>5
<1> QED
  BY <1>7, <1>8, <1>9

LEMMA PhrasingsFacts ==
    ASSUME NEW op \in Elements(Operations)
    PROVE  /\ Phrasings(op) \in Seq(Texts)
           /\ [k \in DOMAIN Phrasings(op) |-> Please(Phrasings(op)[k])] \in Seq(Texts)
<1>1. \A k \in 1..MaxPhrasings : <<op, k>> \in Texts /\ <<op, k, "please">> \in Texts
  BY RuleAssumption
<1>2. \A k \in 1..MaxPhrasings : Phrasings(op)[k] = <<op, k>>
  BY DEF Phrasings
<1>3. DOMAIN Phrasings(op) = 1..MaxPhrasings
  BY DEF Phrasings
<1>4. \A k \in 1..MaxPhrasings : Please(<<op, k>>) = <<op, k, "please">>
  BY DEF Please
<1>5. Phrasings(op) \in [1..MaxPhrasings -> Texts]
  BY <1>1 DEF Phrasings
<1>6. [k \in DOMAIN Phrasings(op) |-> Please(Phrasings(op)[k])] \in [1..MaxPhrasings -> Texts]
  BY <1>1, <1>2, <1>3, <1>4
<1>7. MaxPhrasings \in Nat
  BY RuleAssumption
<1> QED
  BY <1>5, <1>6, <1>7

LEMMA SchemaByOperationFacts ==
    ASSUME NEW op
    PROVE  IsSequence(SchemaByOperation(op))
<1>1. \A x, y : IsSequence(<<x>>) /\ IsSequence(<<x, y>>)
  BY DEF IsSequence, Elements
<1> QED
  BY <1>1 DEF SchemaByOperation

\* Whoever answers, a reply is a list of proposals that can be cleaned.
LEMMA IntentsProposed ==
    ASSUME NEW known, NEW offered, NEW reply \in ProposedIntents(known, offered)
    PROVE  ReplyOK(reply)
<1>1. CASE reply \in Replies
  BY <1>1, ReplyAssumption DEF ReplyOK, ItemOK
<1>2. CASE reply = <<>>
  BY <1>2, EmptySequence DEF ReplyOK
<1>3. CASE reply = IntentsByRule(known, offered)
  <2> DEFINE free == {op \in Elements(Operations) : Fold[op] \notin known}
             kept == Keep(Operations, free)
             fresh == First(kept, Count)
             proposal(k) == [name |-> fresh[k], tool |-> PickTool(offered, fresh[k]),
                             schema |-> SchemaByOperation(fresh[k]),
                             texts |-> First(Phrasings(fresh[k]), PerIntent)]
  <2>1. kept \in Seq(Elements(Operations)) /\ Elements(kept) \subseteq Elements(Operations)
    <3>1. Operations \in Seq(Elements(Operations))
      BY OperationsFacts DEF IsSequence
    <3> HIDE DEF free
    <3> QED
      BY <3>1, KeepFacts
  <2> HIDE DEF kept
  <2>2. fresh \in Seq(Elements(Operations)) /\ Elements(fresh) \subseteq Elements(kept)
    BY <2>1, FirstFacts, ReplyAssumption
  <2> HIDE DEF fresh
  <2>3. ASSUME NEW k \in DOMAIN fresh PROVE ItemOK(proposal(k))
    <3>1. fresh[k] \in Elements(Operations)
      BY <2>1, <2>2 DEF Elements
    <3>2. Phrasings(fresh[k]) \in Seq(Texts)
      BY <3>1, PhrasingsFacts
    <3>3. First(Phrasings(fresh[k]), PerIntent) \in Seq(Texts)
      BY <3>2, FirstFacts, ReplyAssumption
    <3>4. Coerced[fresh[k]] \in Names \cup {Nil}
      BY <3>1, RuleAssumption
    <3>5. IsSequence(SchemaByOperation(fresh[k]))
      BY SchemaByOperationFacts
    <3> QED
      BY <3>3, <3>4, <3>5 DEF ItemOK
  <2>4. reply = [k \in DOMAIN fresh |-> proposal(k)]
    BY <1>3 DEF IntentsByRule, fresh, kept, free
  <2> HIDE DEF proposal
  <2>5. DOMAIN reply = 1..Len(fresh) /\ Len(fresh) \in Nat /\ \A k \in DOMAIN reply : reply[k] = proposal(k)
    BY <2>2, <2>4
  <2>6. IsSequence(reply)
    <3>1. reply \in [1..Len(fresh) -> Elements(reply)]
      BY <2>4, <2>5 DEF Elements
    <3> QED
      BY <2>5, <3>1 DEF IsSequence
  <2>7. \A item \in Elements(reply) : ItemOK(item)
    BY <2>3, <2>4, <2>5 DEF Elements
  <2> QED
    BY <2>6, <2>7 DEF ReplyOK
<1> QED
  BY <1>1, <1>2, <1>3 DEF ProposedIntents, Answers

\* Whoever answers, a batch is a list of texts.
LEMMA ExamplesProposed ==
    ASSUME NEW name, NEW known, NEW batch \in ProposedExamples(name, known)
    PROVE  batch \in Seq(Texts)
<1>1. CASE batch \in Batches
  BY <1>1, ReplyAssumption
<1>2. CASE batch = <<>>
  BY <1>2, EmptySequence
<1>3. CASE batch = ExamplesByRule(name, known)
  <2> DEFINE named == {k \in DOMAIN Operations : Fold[Operations[k]] = Fold[name]}
             at == IF named = {} THEN 1 ELSE CHOOSE k \in named : TRUE
             phrasings == Phrasings(Operations[at])
             polite == [k \in DOMAIN phrasings |-> Please(phrasings[k])]
             unseen(texts) == Keep(texts, {t \in Elements(texts) : Norm[t] \notin {Norm[u] : u \in known}})
             fresh == unseen(phrasings)
             more == unseen(polite)
             whole == IF Len(fresh) < PerIntent THEN fresh \o more ELSE fresh
  <2>1. at \in DOMAIN Operations
    BY OperationsFacts
  <2>2. Operations[at] \in Elements(Operations)
    <3> HIDE DEF at
    <3> QED BY <2>1 DEF Elements
  <2>3. phrasings \in Seq(Texts) /\ polite \in Seq(Texts)
    <3> HIDE DEF at
    <3> QED BY <2>2, PhrasingsFacts
  <2> HIDE DEF phrasings, polite
  <2>4. \A texts \in Seq(Texts) : unseen(texts) \in Seq(Texts)
    BY KeepFacts
  <2>5. fresh \in Seq(Texts) /\ more \in Seq(Texts)
    <3> HIDE DEF unseen
    <3> QED BY <2>3, <2>4
  <2>6. whole \in Seq(Texts)
    <3> HIDE DEF fresh, more
    <3> QED BY <2>5, ConcatProperties
  <2>7. First(whole, PerIntent) \in Seq(Texts)
    <3> HIDE DEF whole
    <3> QED BY <2>6, FirstFacts, ReplyAssumption
  <2>8. batch = First(whole, PerIntent)
    BY <1>3 DEF ExamplesByRule, phrasings, polite
  <2> QED
    BY <2>7, <2>8
<1> QED
  BY <1>1, <1>2, <1>3 DEF ProposedExamples, Answers

-----------------------------------------------------------------------------
(* The inductive invariant.                                                *)

Clean(todo) == IsSequence(todo) /\ \A p \in Elements(todo) : Usable(p) /\ p.schema # Nil

BatchOK(j) ==
    /\ j.given \in Seq(Texts)
    /\ j.rest \in Seq(Texts) /\ Distinct(j.rest)
    /\ Elements(j.rest) \cup j.noted = Elements(j.given)
    /\ Elements(j.rest) \cap j.noted = {}

\* What a job holds, by where it is.
JobOK(j) ==
    /\ j.at \in Where /\ "at" \in DOMAIN j
    /\ j.at \in {"offering", "asking", "writing", "storing", "stored"} =>
         {"todo", "row", "given", "rest", "noted"} \subseteq DOMAIN j
    /\ j.at = "offering" => "offered" \in DOMAIN j
    /\ j.at = "asking" => j.offered \subseteq Tools
    /\ j.at \in {"writing", "storing", "stored"} => Clean(j.todo)
    /\ j.at \in {"storing", "stored"} => BatchOK(j)
    /\ j.at \in {"drafting", "saving"} => "draft" \in DOMAIN j
    /\ j.at = "saving" => j.draft \in Pairs \cup {NoText}

JobsOK == DOMAIN job = Workers /\ \A w \in Workers : JobOK(job[w])

RowOK(x) == x.name \in Names /\ x.tool \in Tools \cup {Nil} /\ SchemaOK(x.schema)

RowsOK ==
    /\ DOMAIN intents = Rows
    /\ \A r \in Present : RowOK(intents[r])
    /\ examples \in [Rows -> SUBSET Texts]

Domains ==
    [id : 1..MaxDomains, instructions : [1..2 -> Blocks], written : {"whole", "part"}]

DomainOK ==
    /\ domain \in Domains \cup {Nil}
    /\ created \in 1..MaxDomains
    /\ InstructionsWhole

\* No two intents have one name.
NamesApart ==
    \A r, q \in Present : Fold[intents[r].name] = Fold[intents[q].name] => r = q

IInv ==
    /\ DomainOK /\ RowsOK /\ NamesApart /\ JobsOK
    /\ tools \subseteq Tools
    /\ client \in {"openai", "mock", "none"}
    /\ edits \in 0..MaxEdits

\* Instructions written as a pair are whole.
LEMMA WholeSound ==
    ASSUME NEW id \in 1..MaxDomains, NEW pair \in Pairs \cup {NoText}, created' \in 1..MaxDomains,
           domain' = WithInstructions(id, pair)
    PROVE  DomainOK'
<1>1. pair \in [1..2 -> Blocks]
  BY PairAssumption DEF NoText, Blocks
<1>2. domain' \in Domains /\ domain'.instructions = pair
  BY <1>1 DEF Domains, WithInstructions
<1>3. InstructionsWhole'
  BY <1>2 DEF InstructionsWhole, NoText
<1> QED
  BY <1>2, <1>3 DEF DomainOK, Domains, Blocks

LEMMA DomainKept == DomainOK /\ UNCHANGED <<domain, created>> => DomainOK'
BY DEF DomainOK, Domains, Blocks, InstructionsWhole, NoText

LEMMA InvariantTypes == IInv => TypeOK /\ BatchAccounted /\ InstructionsWhole
<1> SUFFICES ASSUME IInv PROVE TypeOK /\ BatchAccounted /\ InstructionsWhole
  OBVIOUS
<1>1. \A w \in Workers : JobOK(job[w])
  BY DEF IInv, JobsOK
<1>2. \A r \in Present : RowOK(intents[r])
  BY DEF IInv, RowsOK
<1>3. TypeOK
  BY <1>1, <1>2 DEF IInv, DomainOK, Domains, RowsOK, TypeOK, JobOK, RowOK, SchemaOK
<1>4. BatchAccounted
  BY <1>1 DEF BatchAccounted, JobOK, BatchOK
<1>5. InstructionsWhole
  BY DEF IInv, DomainOK
<1> QED
  BY <1>3, <1>4, <1>5

LEMMA InitInvariant == Init => IInv
<1> SUFFICES ASSUME Init PROVE IInv
  OBVIOUS
<1>1. DomainOK
  <2>1. domain = WithInstructions(1, NoText) /\ created = 1
    BY DEF Init
  <2>2. NoText \in [1..2 -> Blocks] /\ 1 \in 1..MaxDomains
    BY BoundAssumption DEF NoText, Blocks
  <2> QED
    BY <2>1, <2>2 DEF DomainOK, Domains, WithInstructions, InstructionsWhole
<1>2. RowsOK /\ NamesApart
  BY DEF Init, RowsOK, NamesApart, Present
<1>3. JobsOK
  BY DEF Init, JobsOK, JobOK, Idle, Where
<1>4. client \in {"openai", "mock", "none"}
  BY DEF Init, SelectClient
<1>5. tools \subseteq Tools /\ edits \in 0..MaxEdits
  BY BoundAssumption DEF Init
<1> QED
  BY <1>1, <1>2, <1>3, <1>4, <1>5 DEF IInv

\* A step that gives one job a sound state leaves all of them sound.
LEMMA BecomeSound ==
    ASSUME JobsOK, NEW w \in Workers, NEW next, Become(w, next), JobOK(next)
    PROVE  JobsOK' /\ edits' = edits
<1>1. job' = [job EXCEPT ![w] = next] /\ edits' = edits
  BY DEF Become
<1>2. DOMAIN job' = Workers
  BY <1>1 DEF JobsOK
<1>3. ASSUME NEW v \in Workers PROVE JobOK(job'[v])
  <2>1. job'[v] = IF v = w THEN next ELSE job[v]
    BY <1>1 DEF JobsOK
  <2> QED
    BY <2>1 DEF JobsOK
<1>4. JobsOK' <=> (DOMAIN job' = Workers /\ \A v \in Workers : JobOK(job'[v]))
  BY DEF JobsOK, JobOK, Clean, Usable, SchemaOK, Distinct, BatchOK, IsSequence, Elements, NoText, Where,
         KnownTypes
<1> QED
  BY <1>1, <1>2, <1>3, <1>4

LEMMA IdleSound == JobOK(Idle)
BY DEF JobOK, Idle, Where

LEMMA TailFacts ==
    ASSUME NEW s, IsSequence(s), s # <<>>
    PROVE  Head(s) \in Elements(s) /\ IsSequence(Tail(s)) /\ Elements(Tail(s)) \subseteq Elements(s)
<1>1. s \in Seq(Elements(s)) /\ Len(s) \in Nat /\ DOMAIN s = 1..Len(s) /\ Len(s) # 0
  BY EmptySeq DEF IsSequence
<1>2. Head(s) \in Elements(s)
  BY <1>1 DEF Elements
<1>3. Tail(s) \in Seq(Elements(s))
  BY <1>1, HeadTailProperties
<1>4. IsSequence(Tail(s)) /\ Elements(Tail(s)) \subseteq Elements(s)
  BY <1>3, SequenceOfElements DEF Elements
<1> QED
  BY <1>2, <1>4

\* A step of a job that leaves the catalogue alone.
LEMMA JobStep ==
    ASSUME IInv, NEW w \in Workers, NEW next, Become(w, next), JobOK(next), UNCHANGED catalogue
    PROVE  IInv'
<1>1. JobsOK' /\ edits' = edits
  BY BecomeSound DEF IInv
<1>2. UNCHANGED <<domain, created, intents, examples, tools, client>>
  BY DEF catalogue
<1>3. RowsOK' /\ NamesApart'
  BY <1>2 DEF IInv, RowsOK, NamesApart, Present, RowOK, SchemaOK, KnownTypes
<1> QED
  BY <1>1, <1>2, <1>3, DomainKept DEF IInv

LEMMA Working ==
    ASSUME IInv, NEW w \in Workers
    PROVE  JobOK(job[w])
BY DEF IInv, JobsOK

\* Every request leads to a sound job.
LEMMA RequestInvariant ==
    ASSUME IInv, NEW w \in Workers, Request(w)
    PROVE  IInv'
<1>1. ASSUME NEW dry \in BOOLEAN PROVE JobOK([Asked EXCEPT !.dry = dry])
  BY DEF Asked, JobOK, Where
<1>2. JobOK(Asked)
  BY DEF Asked, JobOK, Where
<1>3. ASSUME NEW in, NEW row, NEW name, NEW known, NEW dry
      PROVE  JobOK([at |-> "texting", in |-> in, row |-> row, name |-> name,
                    known |-> known, dry |-> dry])
  BY DEF JobOK, Where
<1>4. ASSUME NEW in PROVE JobOK([at |-> "drafting", in |-> in, draft |-> NoText])
  BY DEF JobOK, Where
<1>5. CASE RequestIntents(w)
  BY <1>1, <1>5, JobStep DEF RequestIntents
<1>6. CASE UiGenerateIntents(w)
  BY <1>2, <1>6, JobStep DEF UiGenerateIntents
<1>7. CASE RequestExamples(w)
  BY <1>3, <1>7, JobStep DEF RequestExamples
<1>8. CASE UiGenerateExamples(w)
  BY <1>3, <1>8, JobStep DEF UiGenerateExamples
<1>9. CASE CreateDomain(w)
  <2>1. PICK written \in Pairs \cup {NoText}, wants \in BOOLEAN :
          /\ domain' = WithInstructions(created + 1, written)
          /\ Become(w, IF wants /\ written = NoText
                       THEN [at |-> "drafting", in |-> created + 1, draft |-> NoText] ELSE Idle)
    BY <1>9 DEF CreateDomain
  <2>2. created' = created + 1 /\ created < MaxDomains
        /\ UNCHANGED <<intents, examples, tools, client>>
    BY <1>9 DEF CreateDomain
  <2>3. JobsOK' /\ edits' = edits
    <3>1. JobOK(IF wants /\ written = NoText
                THEN [at |-> "drafting", in |-> created + 1, draft |-> NoText] ELSE Idle)
      BY <1>4, IdleSound
    <3> QED
      BY <2>1, <3>1, BecomeSound DEF IInv
  <2>4. DomainOK'
    <3>1. created' \in 1..MaxDomains
      BY <2>2, BoundAssumption DEF IInv, DomainOK
    <3> QED
      BY <2>1, <2>2, <3>1, WholeSound
  <2>5. RowsOK' /\ NamesApart'
    BY <2>2 DEF IInv, RowsOK, NamesApart, Present, RowOK, SchemaOK, KnownTypes
  <2> QED
    BY <2>2, <2>3, <2>4, <2>5 DEF IInv
<1>10. CASE RequestDraft(w)
  BY <1>4, <1>10, JobStep DEF RequestDraft, Drafting
<1>11. CASE UiRequestDraft(w)
  BY <1>4, <1>11, JobStep DEF UiRequestDraft, Drafting
<1> QED
  BY <1>5, <1>6, <1>7, <1>8, <1>9, <1>10, <1>11 DEF Request

-----------------------------------------------------------------------------
(* The steps of a job.                                                     *)

LEMMA OfferToolsInvariant ==
    ASSUME IInv, NEW w \in Workers, OfferTools(w)
    PROVE  IInv'
<1> DEFINE next == [job[w] EXCEPT !.at = "asking", !.offered = tools]
<1>1. JobOK(next)
  <2>1. {"at", "offered", "todo", "row", "given", "rest", "noted"} \subseteq DOMAIN job[w]
    BY Working DEF JobOK, OfferTools
  <2>2. DOMAIN next = DOMAIN job[w] /\ next.at = "asking" /\ next.offered = tools
    BY <2>1
  <2>3. tools \subseteq Tools
    BY DEF IInv
  <2> HIDE DEF next
  <2> QED
    BY <2>1, <2>2, <2>3 DEF JobOK, Where
<1> QED
  BY <1>1, JobStep DEF OfferTools

LEMMA ReceiveIntentsInvariant ==
    ASSUME IInv, NEW w \in Workers, ReceiveIntents(w)
    PROVE  IInv'
<1>1. PICK reply \in ProposedIntents(job[w].known, job[w].offered) :
        LET usable == CleanIntents(reply, job[w].known, job[w].offered)
        IN  Become(w, IF usable = <<>> \/ \E k \in DOMAIN usable : usable[k].schema = Nil
                      THEN Idle
                      ELSE [job[w] EXCEPT !.at = "writing", !.todo = usable])
  BY DEF ReceiveIntents
<1> DEFINE usable == CleanIntents(reply, job[w].known, job[w].offered)
           unclean == \E k \in DOMAIN usable : usable[k].schema = Nil
           writing == [job[w] EXCEPT !.at = "writing", !.todo = usable]
           next == IF usable = <<>> \/ unclean THEN Idle ELSE writing
<1>2. Become(w, next)
  BY <1>1
<1>3. TodoOK(usable)
  <2>1. ReplyOK(reply)
    BY IntentsProposed
  <2>2. job[w].offered \in SUBSET Tools
    BY Working DEF JobOK, ReceiveIntents
  <2> QED
    BY <2>1, <2>2, CleanIntentsFacts
<1> HIDE DEF usable
<1>4. JobOK(next)
  <2>1. CASE usable = <<>> \/ unclean
    BY <2>1, IdleSound
  <2>2. CASE ~(usable = <<>> \/ unclean)
    <3>1. Clean(usable)
      BY <1>3, <2>2 DEF TodoOK, Clean, Elements
    <3>2. {"at", "todo", "row", "given", "rest", "noted"} \subseteq DOMAIN job[w]
      BY Working DEF JobOK, ReceiveIntents
    <3>3. DOMAIN writing = DOMAIN job[w] /\ writing.at = "writing" /\ writing.todo = usable
      BY <3>2
    <3>4. next = writing
      BY <2>2
    <3> HIDE DEF writing, next
    <3> QED
      BY <3>1, <3>2, <3>3, <3>4 DEF JobOK, Where
  <2> QED
    BY <2>1, <2>2
<1> HIDE DEF next
<1> QED
  BY <1>2, <1>4, JobStep DEF ReceiveIntents

LEMMA PassOverInvariant ==
    ASSUME IInv, NEW w \in Workers, PassOver(w)
    PROVE  IInv'
<1> DEFINE next == [job[w] EXCEPT !.todo = Tail(@)]
<1>1. JobOK(next)
  <2>1. {"at", "todo", "row", "given", "rest", "noted"} \subseteq DOMAIN job[w]
        /\ job[w].at = "writing" /\ Clean(job[w].todo) /\ job[w].todo # <<>>
    BY Working DEF JobOK, PassOver
  <2>2. DOMAIN next = DOMAIN job[w] /\ next.at = "writing" /\ next.todo = Tail(job[w].todo)
    BY <2>1
  <2>3. Clean(Tail(job[w].todo))
    BY <2>1, TailFacts DEF Clean
  <2> HIDE DEF next
  <2> QED
    BY <2>1, <2>2, <2>3 DEF JobOK, Where
<1> QED
  BY <1>1, JobStep DEF PassOver

LEMMA ReceiveExamplesInvariant ==
    ASSUME IInv, NEW w \in Workers, ReceiveExamples(w)
    PROVE  IInv'
<1>1. PICK batch \in ProposedExamples(job[w].name, job[w].known) :
        LET usable == CleanExamples(batch, PerIntent, job[w].known)
        IN  Become(w, IF usable = <<>> \/ job[w].dry THEN Idle
                      ELSE [at |-> "storing", in |-> job[w].in, row |-> job[w].row,
                            todo |-> <<>>, dry |-> FALSE, given |-> usable, rest |-> usable, noted |-> {}])
  BY DEF ReceiveExamples
<1> DEFINE usable == CleanExamples(batch, PerIntent, job[w].known)
           storing == [at |-> "storing", in |-> job[w].in, row |-> job[w].row,
                       todo |-> <<>>, dry |-> FALSE, given |-> usable, rest |-> usable, noted |-> {}]
           next == IF usable = <<>> \/ job[w].dry THEN Idle ELSE storing
<1>2. Become(w, next)
  BY <1>1
<1>3. usable \in Seq(Texts) /\ Distinct(usable)
  <2>1. batch \in Seq(Texts)
    BY ExamplesProposed
  <2> QED
    BY <2>1, CleanExamplesFacts
<1> HIDE DEF usable
<1>4. JobOK(storing)
  <2>1. Clean(<<>>)
    BY EmptySequence DEF Clean
  <2>2. BatchOK(storing)
    BY <1>3 DEF BatchOK
  <2>3. {"at", "todo", "row", "given", "rest", "noted"} \subseteq DOMAIN storing
    OBVIOUS
  <2>4. storing.at = "storing" /\ storing.todo = <<>>
    OBVIOUS
  <2> HIDE DEF storing
  <2> QED
    BY <2>1, <2>2, <2>3, <2>4 DEF JobOK, Where
<1>5. JobOK(next)
  <2> HIDE DEF storing
  <2> QED BY <1>4, IdleSound
<1> HIDE DEF next
<1> QED
  BY <1>2, <1>5, JobStep DEF ReceiveExamples

LEMMA FailInvariant ==
    ASSUME IInv, NEW w \in Workers, Fail(w)
    PROVE  IInv'
BY IdleSound, JobStep DEF Fail

\* An intent under a name that is not taken keeps the rows sound, wherever it goes.
LEMMA RowAdded ==
    ASSUME IInv, NEW r, NEW row, RowOK(row), Fold[row.name] \notin Taken,
           intents' = [intents EXCEPT ![r] = row], examples' = examples
    PROVE  RowsOK' /\ NamesApart'
<1>1. DOMAIN intents' = Rows /\ \A q \in Rows : intents'[q] = IF q = r THEN row ELSE intents[q]
  BY DEF IInv, RowsOK
<1>2. ASSUME NEW q \in Present' PROVE q \in Rows /\ (q = r \/ (q # r /\ q \in Present))
  BY <1>1 DEF Present
<1>3. ASSUME NEW q \in Present' PROVE RowOK(intents'[q])
  BY <1>1, <1>2 DEF IInv, RowsOK
<1>4. RowsOK'
  <2>1. examples' \in [Rows -> SUBSET Texts]
    BY DEF IInv, RowsOK
  <2>2. \A q \in Present' : RowOK(intents'[q])
    BY <1>3
  <2> QED
    BY <1>1, <2>1, <2>2 DEF RowsOK, RowOK, SchemaOK, KnownTypes
<1>5. \A q \in Present : Fold[intents[q].name] # Fold[row.name]
  BY DEF Taken
<1>6. ASSUME NEW p \in Present', NEW q \in Present', Fold[intents'[p].name] = Fold[intents'[q].name]
      PROVE  p = q
  <2>1. CASE p = r /\ q = r
    BY <2>1
  <2>2. CASE p = r /\ q # r
    BY <1>1, <1>2, <1>5, <1>6, <2>2
  <2>3. CASE p # r /\ q = r
    BY <1>1, <1>2, <1>5, <1>6, <2>3
  <2>4. CASE p # r /\ q # r
    BY <1>1, <1>2, <1>6, <2>4 DEF IInv, NamesApart
  <2> QED
    BY <2>1, <2>2, <2>3, <2>4
<1>7. NamesApart'
  BY <1>6 DEF NamesApart
<1> QED
  BY <1>4, <1>7

LEMMA WriteIntentInvariant ==
    ASSUME IInv, NEW w \in Workers, WriteIntent(w)
    PROVE  IInv'
<1> DEFINE proposal == Head(job[w].todo)
           row == [name |-> proposal.name, tool |-> proposal.tool, schema |-> proposal.schema]
           next == [job[w] EXCEPT !.at = "storing", !.row = NewRow, !.noted = {},
                            !.given = proposal.texts, !.rest = proposal.texts, !.todo = Tail(@)]
<1>1. /\ job[w].at = "writing" /\ job[w].todo # <<>>
      /\ Fold[proposal.name] \notin Taken
      /\ intents' = [intents EXCEPT ![NewRow] = row]
      /\ Become(w, next)
      /\ UNCHANGED <<domain, created, examples, tools, client>>
  BY DEF WriteIntent
<1>2. {"at", "todo", "row", "given", "rest", "noted"} \subseteq DOMAIN job[w] /\ Clean(job[w].todo)
  BY <1>1, Working DEF JobOK
<1>3. Usable(proposal) /\ proposal.schema # Nil /\ Clean(Tail(job[w].todo))
  BY <1>1, <1>2, TailFacts DEF Clean
<1> HIDE DEF proposal
<1>4. RowsOK' /\ NamesApart'
  <2>1. RowOK(row)
    BY <1>3 DEF RowOK, Usable
  <2>2. row.name = proposal.name
    OBVIOUS
  <2> HIDE DEF row
  <2> QED
    BY <1>1, <2>1, <2>2, RowAdded
<1>5. JobOK(next)
  <2>1. /\ DOMAIN next = DOMAIN job[w] /\ next.at = "storing" /\ next.todo = Tail(job[w].todo)
        /\ next.noted = {} /\ next.given = proposal.texts /\ next.rest = proposal.texts
    BY <1>2
  <2> HIDE DEF next
  <2>2. BatchOK(next)
    BY <1>3, <2>1 DEF BatchOK, Usable
  <2> QED
    BY <1>2, <1>3, <2>1, <2>2 DEF JobOK, Where
<1>6. JobsOK' /\ edits' = edits
  BY <1>1, <1>5, BecomeSound DEF IInv
<1>7. DomainOK'
  BY <1>1, DomainKept DEF IInv
<1> QED
  BY <1>1, <1>4, <1>6, <1>7 DEF IInv

LEMMA StoreBatchInvariant ==
    ASSUME IInv, NEW w \in Workers, StoreBatch(w)
    PROVE  IInv'
<1> DEFINE next == [job[w] EXCEPT !.at = "stored"]
<1>1. /\ job[w].at = "storing" /\ job[w].row \in Present
      /\ examples' = [examples EXCEPT ![job[w].row] = @ \cup Elements(job[w].rest)]
      /\ Become(w, next)
      /\ UNCHANGED <<domain, created, intents, tools, client>>
  BY DEF StoreBatch
<1>2. {"at", "todo", "row", "given", "rest", "noted"} \subseteq DOMAIN job[w]
      /\ BatchOK(job[w]) /\ Clean(job[w].todo)
  BY <1>1, Working DEF JobOK
<1>3. JobOK(next)
  <2>1. /\ DOMAIN next = DOMAIN job[w] /\ next.at = "stored" /\ next.todo = job[w].todo
        /\ next.noted = job[w].noted /\ next.given = job[w].given /\ next.rest = job[w].rest
    BY <1>2
  <2> HIDE DEF next
  <2> QED
    BY <1>2, <2>1 DEF JobOK, Where, BatchOK
<1>4. JobsOK' /\ edits' = edits
  BY <1>1, <1>3, BecomeSound DEF IInv
<1>5. examples' \in [Rows -> SUBSET Texts]
  <2>1. Elements(job[w].rest) \subseteq Texts
    BY <1>2, SequenceOfElements DEF BatchOK
  <2>2. job[w].row \in Rows
    BY <1>1 DEF Present
  <2> QED
    BY <1>1, <2>1, <2>2 DEF IInv, RowsOK
<1>6. DomainOK' /\ NamesApart'
  BY <1>1, DomainKept DEF IInv, NamesApart, Present
<1>7. RowsOK'
  BY <1>1, <1>5 DEF IInv, RowsOK, Present, RowOK, SchemaOK, KnownTypes
<1> QED
  BY <1>1, <1>4, <1>6, <1>7 DEF IInv

\* The text a conflict is about is in the batch and repeats one before it or
\* one stored.
LEMMA ConflictFacts ==
    ASSUME NEW batch \in Seq(Texts), NEW r, Duplicates(batch, r) # {}
    PROVE  \E k \in DOMAIN batch :
             /\ Conflict(batch, r) = batch[k]
             /\ Norm[batch[k]] \in {Norm[t] : t \in examples[r]} \cup {Norm[batch[j]] : j \in 1..(k - 1)}
<1> DEFINE T == Duplicates(batch, r)
           Least(k) == \A j \in T : k <= j
<1>1. T \in SUBSET Nat /\ T \subseteq DOMAIN batch /\ T # {}
  BY DEF Duplicates
<1>2. \E k \in T : Least(k)
  <2> HIDE DEF T
  <2> QED BY <1>1, LeastNumber
<1> DEFINE k == CHOOSE i \in T : Least(i)
<1>3. k \in T
  <2> HIDE DEF T, Least
  <2> QED BY <1>2
<1>4. Conflict(batch, r) = batch[k]
  BY DEF Conflict
<1> HIDE DEF k
<1> QED
  BY <1>1, <1>3, <1>4 DEF Duplicates

\* The offender is a candidate the message quotes.
LEMMA OffenderFacts ==
    ASSUME NEW batch \in Seq(Texts), NEW text, Quoted(text, batch) # {}
    PROVE  Offender(text, batch) \in Elements(batch) /\ <<text, Offender(text, batch)>> \in Quotes
<1> DEFINE quoted == Quoted(text, batch)
           Least(k) == \A j \in quoted : k <= j
<1>1. quoted \in SUBSET Nat /\ quoted # {}
  BY DEF Quoted
<1>2. \E k \in quoted : Least(k)
  <2> HIDE DEF quoted
  <2> QED BY <1>1, LeastNumber
<1> DEFINE k == CHOOSE i \in quoted : Least(i)
<1>3. k \in quoted
  <2> HIDE DEF quoted, Least
  <2> QED BY <1>2
<1>4. Offender(text, batch) = batch[k]
  BY DEF Offender
<1> HIDE DEF k
<1> QED
  BY <1>3, <1>4 DEF Elements, Quoted

LEMMA DropOffenderInvariant ==
    ASSUME IInv, NEW w \in Workers, DropOffender(w)
    PROVE  IInv'
<1> DEFINE rest == job[w].rest
           offender == Offender(Conflict(rest, job[w].row), rest)
           left == Keep(rest, Elements(rest) \ {offender})
           next == [job[w] EXCEPT !.rest = Keep(@, Elements(@) \ {offender}), !.noted = @ \cup {offender}]
<1>1. /\ job[w].at = "storing" /\ Quoted(Conflict(rest, job[w].row), rest) # {}
      /\ Become(w, next) /\ UNCHANGED catalogue
  BY DEF DropOffender, Offends
<1>2. {"at", "todo", "row", "given", "rest", "noted"} \subseteq DOMAIN job[w]
      /\ BatchOK(job[w]) /\ Clean(job[w].todo)
  BY <1>1, Working DEF JobOK
<1>3. rest \in Seq(Texts) /\ Distinct(rest)
  BY <1>2 DEF BatchOK
<1>4. offender \in Elements(rest)
  BY <1>1, <1>3, OffenderFacts
<1>5. /\ DOMAIN next = DOMAIN job[w] /\ next.at = "storing" /\ next.todo = job[w].todo
      /\ next.given = job[w].given /\ next.noted = job[w].noted \cup {offender} /\ next.rest = left
  BY <1>1, <1>2
<1> HIDE DEF next, offender
<1>6. left \in Seq(Texts) /\ Distinct(left)
  BY <1>3, KeepFacts
<1>7. Elements(left) = Elements(rest) \ {offender}
  <2>1. Elements(left) = Elements(rest) \cap (Elements(rest) \ {offender})
    BY <1>3, KeepFacts
  <2> QED
    BY <2>1
<1> HIDE DEF left, rest
<1>8. BatchOK(next)
  <2>1. Elements(rest) \cup job[w].noted = Elements(job[w].given)
        /\ Elements(rest) \cap job[w].noted = {} /\ job[w].given \in Seq(Texts)
    BY <1>2 DEF BatchOK, rest
  <2>2. Elements(left) \cup next.noted = Elements(next.given)
    BY <1>4, <1>5, <1>7, <2>1
  <2>3. Elements(left) \cap next.noted = {}
    BY <1>5, <1>7, <2>1
  <2> QED
    BY <1>5, <1>6, <2>1, <2>2, <2>3 DEF BatchOK
<1>9. JobOK(next)
  BY <1>2, <1>5, <1>8 DEF JobOK, Where
<1> QED
  BY <1>1, <1>9, JobStep

\* What is left of a batch that is given up is noted.
LEMMA GiveUpBatchInvariant ==
    ASSUME IInv, NEW w \in Workers, GiveUpBatch(w)
    PROVE  IInv'
<1> DEFINE next == [job[w] EXCEPT !.at = "stored", !.rest = <<>>,
                                !.noted = @ \cup Elements(job[w].rest)]
<1>1. job[w].at = "storing" /\ Become(w, next) /\ UNCHANGED catalogue
  BY DEF GiveUpBatch
<1>2. {"at", "todo", "row", "given", "rest", "noted"} \subseteq DOMAIN job[w]
      /\ BatchOK(job[w]) /\ Clean(job[w].todo)
  BY <1>1, Working DEF JobOK
<1>3. /\ DOMAIN next = DOMAIN job[w] /\ next.at = "stored" /\ next.todo = job[w].todo
      /\ next.noted = job[w].noted \cup Elements(job[w].rest)
      /\ next.given = job[w].given /\ next.rest = <<>>
  BY <1>2
<1> HIDE DEF next
<1>4. BatchOK(next)
  <2>1. <<>> \in Seq(Texts) /\ Distinct(<<>>) /\ Elements(<<>>) = {}
    BY EmptySequence
  <2> QED
    BY <1>2, <1>3, <2>1 DEF BatchOK
<1>5. JobOK(next)
  BY <1>2, <1>3, <1>4 DEF JobOK, Where
<1> QED
  BY <1>1, <1>5, JobStep

LEMMA NothingToStoreInvariant ==
    ASSUME IInv, NEW w \in Workers, NothingToStore(w)
    PROVE  IInv'
<1> DEFINE next == [job[w] EXCEPT !.at = "stored"]
<1>1. {"at", "todo", "row", "given", "rest", "noted"} \subseteq DOMAIN job[w]
      /\ BatchOK(job[w]) /\ Clean(job[w].todo)
  BY Working DEF JobOK, NothingToStore
<1>2. JobOK(next)
  <2>1. /\ DOMAIN next = DOMAIN job[w] /\ next.at = "stored" /\ next.todo = job[w].todo
        /\ next.noted = job[w].noted /\ next.given = job[w].given /\ next.rest = job[w].rest
    BY <1>1
  <2> HIDE DEF next
  <2> QED
    BY <1>1, <2>1 DEF JobOK, Where, BatchOK
<1> QED
  BY <1>2, JobStep DEF NothingToStore

LEMMA ReportBatchInvariant ==
    ASSUME IInv, NEW w \in Workers, ReportBatch(w)
    PROVE  IInv'
<1> DEFINE next == [job[w] EXCEPT !.at = "writing", !.row = Nil, !.given = <<>>,
                                !.rest = <<>>, !.noted = {}]
<1>1. {"at", "todo", "row", "given", "rest", "noted"} \subseteq DOMAIN job[w] /\ Clean(job[w].todo)
  BY Working DEF JobOK, ReportBatch
<1>2. JobOK(next)
  <2>1. DOMAIN next = DOMAIN job[w] /\ next.at = "writing" /\ next.todo = job[w].todo
    BY <1>1
  <2> HIDE DEF next
  <2> QED
    BY <1>1, <2>1 DEF JobOK, Where
<1> QED
  BY <1>2, JobStep DEF ReportBatch

LEMMA ReceiveDraftInvariant ==
    ASSUME IInv, NEW w \in Workers, ReceiveDraft(w)
    PROVE  IInv'
<1>1. PICK draft \in ProposedDrafts :
        Become(w, IF draft = NoText THEN Idle
                  ELSE [job[w] EXCEPT !.at = "saving", !.draft = draft])
  BY DEF ReceiveDraft
<1> DEFINE saving == [job[w] EXCEPT !.at = "saving", !.draft = draft]
           next == IF draft = NoText THEN Idle ELSE saving
<1>2. JobOK(saving)
  <2>1. {"at", "draft"} \subseteq DOMAIN job[w]
    BY Working DEF JobOK, ReceiveDraft
  <2>2. DOMAIN saving = DOMAIN job[w] /\ saving.at = "saving" /\ saving.draft = draft
    BY <2>1
  <2>3. draft \in Pairs \cup {NoText}
    BY DEF ProposedDrafts, DraftsByRule
  <2> HIDE DEF saving
  <2> QED
    BY <2>1, <2>2, <2>3 DEF JobOK, Where
<1>3. JobOK(next)
  <2> HIDE DEF saving
  <2> QED BY <1>2, IdleSound
<1> QED
  BY <1>1, <1>3, JobStep DEF ReceiveDraft

\* A draft replaces both blocks of the domain it was asked for.
LEMMA SaveDraftInvariant ==
    ASSUME IInv, NEW w \in Workers, SaveDraft(w)
    PROVE  IInv'
<1>1. /\ job[w].at = "saving" /\ Become(w, Idle)
      /\ domain' = IF Here(w) THEN WithInstructions(domain.id, job[w].draft) ELSE domain
      /\ UNCHANGED <<created, intents, examples, tools, client>>
  BY DEF SaveDraft
<1>2. JobsOK' /\ edits' = edits
  BY <1>1, IdleSound, BecomeSound DEF IInv
<1>3. job[w].draft \in Pairs \cup {NoText}
  BY <1>1, Working DEF JobOK
<1>4. DomainOK'
  <2>1. CASE Here(w)
    <3>1. domain.id \in 1..MaxDomains /\ created' \in 1..MaxDomains
      BY <1>1, <2>1 DEF IInv, DomainOK, Domains, Here
    <3> QED
      BY <1>1, <1>3, <2>1, <3>1, WholeSound
  <2>2. CASE ~Here(w)
    BY <1>1, <2>2, DomainKept DEF IInv
  <2> QED
    BY <2>1, <2>2
<1>5. RowsOK' /\ NamesApart'
  BY <1>1 DEF IInv, RowsOK, NamesApart, Present, RowOK, SchemaOK, KnownTypes
<1> QED
  BY <1>1, <1>2, <1>4, <1>5 DEF IInv

LEMMA ProceedInvariant ==
    ASSUME IInv, NEW w \in Workers, Proceed(w)
    PROVE  IInv'
<1>1. CASE WriteFails(w) \/ AnswerIntents(w) \/ StoreFails(w)
  BY <1>1, FailInvariant DEF WriteFails, AnswerIntents, StoreFails
<1> QED
  BY <1>1, OfferToolsInvariant, ReceiveIntentsInvariant, WriteIntentInvariant, PassOverInvariant,
     ReceiveExamplesInvariant, StoreBatchInvariant, DropOffenderInvariant,
     GiveUpBatchInvariant, NothingToStoreInvariant, ReportBatchInvariant, ReceiveDraftInvariant, SaveDraftInvariant
     DEF Proceed

-----------------------------------------------------------------------------
(* What other requests do, and the invariant of the whole.                 *)

LEMMA JobsKept == JobsOK /\ UNCHANGED job => JobsOK'
<1> SUFFICES ASSUME JobsOK, job' = job PROVE JobsOK'
  OBVIOUS
<1>1. DOMAIN job' = Workers /\ \A v \in Workers : JobOK(job'[v])
  BY DEF JobsOK
<1> QED
  BY <1>1 DEF JobsOK, JobOK, Clean, Usable, SchemaOK, Distinct, BatchOK, IsSequence, Elements, NoText,
              Where, KnownTypes

LEMMA EditKeepsJobs ==
    ASSUME IInv, Edit
    PROVE  JobsOK' /\ edits' \in 0..MaxEdits /\ edits' # edits
<1>1. edits' = edits + 1 /\ edits < MaxEdits /\ job' = job
  BY DEF Edit
<1>2. JobsOK'
  BY <1>1, JobsKept DEF IInv
<1> QED
  BY <1>1, <1>2, BoundAssumption DEF IInv

LEMMA EditorsInvariant ==
    ASSUME IInv, Editors
    PROVE  IInv'
<1> USE DEF NoText
<1>1. CASE UiUpdateInstructions
  <2>1. JobsOK' /\ edits' \in 0..MaxEdits
    BY <1>1, EditKeepsJobs DEF UiUpdateInstructions
  <2>2. DomainOK'
    <3>1. PICK pair \in Pairs \cup {NoText} : domain' = WithInstructions(domain.id, pair)
      BY <1>1 DEF UiUpdateInstructions
    <3>2. domain.id \in 1..MaxDomains /\ created' \in 1..MaxDomains
      BY <1>1 DEF UiUpdateInstructions, IInv, DomainOK, Domains
    <3> QED
      BY <3>1, <3>2, WholeSound
  <2>3. RowsOK' /\ NamesApart'
    BY <1>1 DEF UiUpdateInstructions, IInv, RowsOK, NamesApart, Present, RowOK, SchemaOK, KnownTypes
  <2> QED
    BY <1>1, <2>1, <2>2, <2>3 DEF UiUpdateInstructions, IInv
<1>2. CASE UiCreateDomain
  <2>1. JobsOK' /\ edits' \in 0..MaxEdits
    BY <1>2, EditKeepsJobs DEF UiCreateDomain
  <2>2. DomainOK'
    <3>1. created' \in 1..MaxDomains /\ created' = created + 1
      BY <1>2, BoundAssumption DEF UiCreateDomain, IInv, DomainOK
    <3> QED
      BY <1>2, <3>1, WholeSound DEF UiCreateDomain
  <2>3. RowsOK' /\ NamesApart'
    BY <1>2 DEF UiCreateDomain, IInv, RowsOK, NamesApart, Present, RowOK, SchemaOK, KnownTypes
  <2> QED
    BY <1>2, <2>1, <2>2, <2>3 DEF UiCreateDomain, IInv
<1>3. CASE UiDeleteDomain
  <2>1. JobsOK' /\ edits' \in 0..MaxEdits
    BY <1>3, EditKeepsJobs DEF UiDeleteDomain
  <2>2. DomainOK'
    BY <1>3 DEF UiDeleteDomain, IInv, DomainOK, InstructionsWhole
  <2>3. RowsOK' /\ NamesApart'
    BY <1>3 DEF UiDeleteDomain, IInv, RowsOK, NamesApart, Present
  <2> QED
    BY <1>3, <2>1, <2>2, <2>3 DEF UiDeleteDomain, IInv
<1>4. CASE UiCreateIntent
  <2>1. JobsOK' /\ edits' \in 0..MaxEdits
    BY <1>4, EditKeepsJobs DEF UiCreateIntent
  <2>2. DomainOK'
    BY <1>4, DomainKept DEF UiCreateIntent, IInv
  <2>3. RowsOK' /\ NamesApart'
    <3>1. PICK name \in Names :
            /\ Fold[name] \notin Taken
            /\ intents' = [intents EXCEPT ![NewRow] = [name |-> name, tool |-> Nil, schema |-> NoSchema]]
      BY <1>4 DEF UiCreateIntent
    <3> DEFINE row == [name |-> name, tool |-> Nil, schema |-> NoSchema]
    <3>2. RowOK(row) /\ row.name = name
      BY DEF RowOK, SchemaOK, NoSchema
    <3>3. examples' = examples
      BY <1>4 DEF UiCreateIntent
    <3> HIDE DEF row
    <3> QED
      BY <3>1, <3>2, <3>3, RowAdded DEF row
  <2> QED
    BY <1>4, <2>1, <2>2, <2>3 DEF UiCreateIntent, IInv
<1>5. CASE UiDeleteIntent
  <2>1. JobsOK' /\ edits' \in 0..MaxEdits
    BY <1>5, EditKeepsJobs DEF UiDeleteIntent
  <2>2. DomainOK'
    BY <1>5, DomainKept DEF UiDeleteIntent, IInv
  <2>3. PICK r \in Present : /\ intents' = [intents EXCEPT ![r] = Nil]
                             /\ examples' = [examples EXCEPT ![r] = {}]
    BY <1>5 DEF UiDeleteIntent
  <2>4. \A q \in Present' : q \in Present /\ intents'[q] = intents[q]
    BY <2>3 DEF IInv, RowsOK, Present
  <2>5. RowsOK'
    <3>1. DOMAIN intents' = Rows /\ examples' \in [Rows -> SUBSET Texts]
      BY <2>3 DEF IInv, RowsOK
    <3>2. \A q \in Present' : RowOK(intents'[q])
      BY <2>4 DEF IInv, RowsOK
    <3> QED
      BY <3>1, <3>2 DEF RowsOK, RowOK, SchemaOK, KnownTypes
  <2>6. NamesApart'
    BY <2>4 DEF IInv, NamesApart
  <2> QED
    BY <1>5, <2>1, <2>2, <2>5, <2>6 DEF UiDeleteIntent, IInv
<1>6. CASE UiAddExample
  <2>1. JobsOK' /\ edits' \in 0..MaxEdits
    BY <1>6, EditKeepsJobs DEF UiAddExample
  <2>2. DomainOK'
    BY <1>6, DomainKept DEF UiAddExample, IInv
  <2>3. examples' \in [Rows -> SUBSET Texts]
    <3>1. PICK r \in Present, text \in Typed : examples' = [examples EXCEPT ![r] = @ \cup {text}]
      BY <1>6 DEF UiAddExample
    <3>2. text \in Texts
      BY RuleAssumption
    <3> QED
      BY <3>1, <3>2 DEF IInv, RowsOK, Present
  <2>4. RowsOK' /\ NamesApart'
    BY <1>6, <2>3 DEF UiAddExample, IInv, RowsOK, NamesApart, Present, RowOK, SchemaOK, KnownTypes
  <2> QED
    BY <1>6, <2>1, <2>2, <2>4 DEF UiAddExample, IInv
<1>7. CASE UiDeleteExample
  <2>1. JobsOK' /\ edits' \in 0..MaxEdits
    BY <1>7, EditKeepsJobs DEF UiDeleteExample
  <2>2. DomainOK'
    BY <1>7, DomainKept DEF UiDeleteExample, IInv
  <2>3. examples' \in [Rows -> SUBSET Texts]
    <3>1. PICK r \in Present : \E text \in examples[r] : examples' = [examples EXCEPT ![r] = @ \ {text}]
      BY <1>7 DEF UiDeleteExample
    <3> QED
      BY <3>1 DEF IInv, RowsOK, Present
  <2>4. RowsOK' /\ NamesApart'
    BY <1>7, <2>3 DEF UiDeleteExample, IInv, RowsOK, NamesApart, Present, RowOK, SchemaOK, KnownTypes
  <2> QED
    BY <1>7, <2>1, <2>2, <2>4 DEF UiDeleteExample, IInv
<1>8. CASE ChangeTools
  <2>1. JobsOK' /\ edits' \in 0..MaxEdits
    BY <1>8, EditKeepsJobs DEF ChangeTools
  <2>2. DomainOK'
    BY <1>8, DomainKept DEF ChangeTools, IInv
  <2>3. RowsOK' /\ NamesApart'
    BY <1>8 DEF ChangeTools, IInv, RowsOK, NamesApart, Present, RowOK, SchemaOK, KnownTypes
  <2> QED
    BY <1>8, <2>1, <2>2, <2>3 DEF ChangeTools, IInv
<1>9. CASE UpdateDomain
  <2> HIDE DEF NoText
  <2>1. JobsOK' /\ edits' \in 0..MaxEdits
    BY <1>9, EditKeepsJobs DEF UpdateDomain
  <2>2. domain \in Domains /\ created' \in 1..MaxDomains
    BY <1>9 DEF UpdateDomain, IInv, DomainOK
  <2>3. DomainOK'
    <3>1. CASE \E pair \in Pairs \cup {NoText} : domain' = WithInstructions(domain.id, pair)
      <4>1. domain.id \in 1..MaxDomains
        BY <2>2 DEF Domains
      <4> QED
        BY <2>2, <3>1, <4>1, WholeSound
    <3>2. CASE \E k \in 1..2, block \in Blocks :
                 domain' = [domain EXCEPT !.instructions[k] = block, !.written = "part"]
      <4>1. PICK k \in 1..2, block \in Blocks :
              domain' = [domain EXCEPT !.instructions[k] = block, !.written = "part"]
        BY <3>2
      <4>2. domain' \in Domains /\ domain'.written = "part"
        BY <2>2, <4>1 DEF Domains
      <4>3. InstructionsWhole'
        BY <4>2 DEF InstructionsWhole, NoText
      <4> QED
        BY <2>2, <4>2, <4>3 DEF DomainOK, Domains, Blocks
    <3> QED
      BY <1>9, <3>1, <3>2 DEF UpdateDomain
  <2>4. RowsOK' /\ NamesApart'
    <3>1. UNCHANGED <<intents, examples>>
      BY <1>9 DEF UpdateDomain
    <3> QED
      BY <3>1 DEF IInv, RowsOK, NamesApart, Present, RowOK, SchemaOK, KnownTypes
  <2>5. UNCHANGED <<tools, client>>
    BY <1>9 DEF UpdateDomain
  <2> QED
    BY <2>1, <2>3, <2>4, <2>5 DEF IInv
<1> QED
  BY <1>1, <1>2, <1>3, <1>4, <1>5, <1>6, <1>7, <1>8, <1>9 DEF Editors

LEMMA NextInvariant == IInv /\ [Next]_vars => IInv'
<1> SUFFICES ASSUME IInv, [Next]_vars PROVE IInv'
  OBVIOUS
<1>1. CASE Editors
  BY <1>1, EditorsInvariant
<1>2. CASE \E w \in Workers : Request(w) \/ Proceed(w)
  BY <1>2, RequestInvariant, ProceedInvariant
<1>3. CASE UNCHANGED vars
  <2>1. JobsOK'
    BY <1>3, JobsKept DEF vars, IInv
  <2>2. DomainOK' /\ RowsOK' /\ NamesApart'
    BY <1>3, DomainKept DEF vars, IInv, RowsOK, NamesApart, Present, RowOK, SchemaOK, KnownTypes
  <2> QED
    BY <1>3, <2>1, <2>2 DEF vars, IInv
<1> QED
  BY <1>1, <1>2, <1>3 DEF Next

LEMMA AlwaysInvariant == Spec => []IInv
BY InitInvariant, NextInvariant, PTL DEF Spec

\* Every variable of drafting has its type: whatever a model replies, and
\* whatever is edited while it is asked, a stored intent has a name that fits,
\* a tool that was on offer or none, and a schema of known types.
THEOREM DraftsTyped == Spec => []TypeOK
BY AlwaysInvariant, InvariantTypes, PTL

\* However often a batch is retried, each of its texts is either still to be
\* stored or accounted for by a note, as skipped or as given up with the rest,
\* and never both (IntentAuthoringService._add_examples).
THEOREM NoTextUnaccounted == Spec => []BatchAccounted
BY AlwaysInvariant, InvariantTypes, PTL

\* A domain's instructions are a pair somebody wrote as one, unless the last to
\* write them named one block alone: a draft and what was written while it was
\* asked for never blend (generate_instructions, ui_update_instructions;
\* DomainService.update).
THEOREM InstructionsFromOneAuthor == Spec => []InstructionsWhole
BY AlwaysInvariant, InvariantTypes, PTL

-----------------------------------------------------------------------------
(* Who is reported as a duplicate.                                         *)

\* A conflict's message quotes no candidate but the one it is about.
QuotesOne == \A t, u \in Texts : <<t, u>> \in Quotes => t = u

\* What a step of one job may note in a batch.
NotedRight(w) ==
    job[w].at = "storing" /\ job'[w].at = "storing" =>
        \A t \in job'[w].noted \ job[w].noted :
            \E u \in examples[job[w].row] \cup (Elements(job[w].rest) \ {t}) : Norm[u] = Norm[t]

\* Only the retry of a batch moves a job that is storing and leaves it there.
LEMMA StoringMoves ==
    ASSUME IInv, NEW w \in Workers, Next, job[w].at = "storing", job'[w].at = "storing"
    PROVE  job'[w] = job[w] \/ DropOffender(w)
<1>1. CASE Editors
  BY <1>1 DEF Editors, Edit, UiUpdateInstructions, UpdateDomain, UiCreateDomain, UiDeleteDomain,
              UiCreateIntent, UiDeleteIntent, UiAddExample, UiDeleteExample, ChangeTools
<1>2. CASE \E v \in Workers : Request(v) \/ Proceed(v)
  <2>1. PICK v \in Workers : Request(v) \/ Proceed(v)
    BY <1>2
  <2>2. \E next : job' = [job EXCEPT ![v] = next]
    BY <2>1 DEF Request, Proceed, RequestIntents, UiGenerateIntents, RequestExamples,
       UiGenerateExamples, CreateDomain, RequestDraft, UiRequestDraft, OfferTools, ReceiveIntents,
       WriteIntent, PassOver, WriteFails, AnswerIntents, ReceiveExamples, StoreBatch, StoreFails,
       DropOffender, GiveUpBatch, NothingToStore, ReportBatch, ReceiveDraft, SaveDraft, Become, Fail
  <2>3. CASE v # w
    BY <2>2, <2>3
  <2>4. CASE v = w
    <3>1. ~Request(w)
      BY DEF Request, RequestIntents, UiGenerateIntents, RequestExamples, UiGenerateExamples,
             CreateDomain, RequestDraft, UiRequestDraft, Idle
    <3>2. \/ StoreBatch(w) \/ StoreFails(w) \/ DropOffender(w) \/ GiveUpBatch(w)
          \/ NothingToStore(w)
      BY <2>1, <2>4, <3>1 DEF Proceed, OfferTools, ReceiveIntents, WriteIntent, PassOver, WriteFails,
         AnswerIntents, ReceiveExamples, ReportBatch, ReceiveDraft, SaveDraft
    <3>3. "at" \in DOMAIN job[w] /\ DOMAIN job = Workers
      BY Working DEF JobOK, IInv, JobsOK
    <3>4. ~StoreBatch(w) /\ ~GiveUpBatch(w) /\ ~NothingToStore(w)
      BY <3>3 DEF StoreBatch, GiveUpBatch, NothingToStore, Become
    <3>5. ~StoreFails(w)
      BY <3>3 DEF StoreFails, Fail, Become, Idle
    <3> QED
      BY <3>2, <3>4, <3>5
  <2> QED
    BY <2>3, <2>4
<1> QED
  BY <1>1, <1>2 DEF Next

\* The offender of a conflict repeats a text that is stored: the batch itself
\* holds none twice.
LEMMA OffenderRepeats ==
    ASSUME QuotesOne, NEW batch \in Seq(Texts), Distinct(batch), NEW r, Duplicates(batch, r) # {},
           Quoted(Conflict(batch, r), batch) # {}
    PROVE  \E u \in examples[r] : Norm[u] = Norm[Offender(Conflict(batch, r), batch)]
<1>1. PICK k \in DOMAIN batch :
        /\ Conflict(batch, r) = batch[k]
        /\ Norm[batch[k]] \in {Norm[t] : t \in examples[r]} \cup {Norm[batch[j]] : j \in 1..(k - 1)}
  BY ConflictFacts
<1>2. Conflict(batch, r) \in Elements(batch)
  BY <1>1 DEF Elements
<1>3. /\ Offender(Conflict(batch, r), batch) \in Elements(batch)
      /\ <<Conflict(batch, r), Offender(Conflict(batch, r), batch)>> \in Quotes
  BY OffenderFacts
<1>4. Elements(batch) \subseteq Texts
  BY SequenceOfElements
<1>5. Offender(Conflict(batch, r), batch) = batch[k]
  BY <1>1, <1>2, <1>3, <1>4 DEF QuotesOne
<1>6. \A j \in 1..(k - 1) : Norm[batch[j]] # Norm[batch[k]]
  <2>1. \A j \in 1..(k - 1) : j \in DOMAIN batch /\ j # k
    OBVIOUS
  <2> QED
    BY <2>1 DEF Distinct
<1> QED
  BY <1>1, <1>5, <1>6

LEMMA StepNotesRight ==
    ASSUME QuotesOne, IInv, [Next]_vars, NEW w \in Workers
    PROVE  NotedRight(w)
<1> SUFFICES ASSUME job[w].at = "storing", job'[w].at = "storing", NEW t \in job'[w].noted \ job[w].noted
             PROVE  \E u \in examples[job[w].row] \cup (Elements(job[w].rest) \ {t}) : Norm[u] = Norm[t]
  BY DEF NotedRight
<1>1. Next /\ job'[w] # job[w]
  BY DEF vars
<1>2. DropOffender(w)
  BY <1>1, StoringMoves
<1> DEFINE rest == job[w].rest
           offender == Offender(Conflict(rest, job[w].row), rest)
<1>3. {"at", "rest", "noted"} \subseteq DOMAIN job[w] /\ DOMAIN job = Workers
  BY Working DEF JobOK, IInv, JobsOK
<1>4. /\ Duplicates(rest, job[w].row) # {} /\ Quoted(Conflict(rest, job[w].row), rest) # {}
      /\ job'[w].noted = job[w].noted \cup {offender}
  BY <1>2, <1>3 DEF DropOffender, Offends, Become
<1>5. t = offender
  BY <1>4
<1>6. rest \in Seq(Texts) /\ Distinct(rest)
  BY Working DEF JobOK, BatchOK
<1> HIDE DEF rest
<1> QED
  BY <1>4, <1>5, <1>6, OffenderRepeats

\* A text is reported as a duplicate only when it is one: while no text of a
\* batch is quoted inside another, the message of a conflict names its
\* offender, which repeats a text stored by then (_offending_text).
THEOREM OnlyDuplicatesReported ==
    ASSUME QuotesOne
    PROVE  Spec => OnlyDuplicatesSkipped
<1>1. IInv /\ [Next]_vars =>
        [\A w \in Workers : job[w].at = "storing" /\ job'[w].at = "storing" =>
            \A t \in job'[w].noted \ job[w].noted :
                \E u \in examples[job[w].row] \cup (Elements(job[w].rest) \ {t}) :
                    Norm[u] = Norm[t]]_vars
  BY StepNotesRight DEF NotedRight
<1> QED
  BY <1>1, AlwaysInvariant, PTL DEF Spec, OnlyDuplicatesSkipped

-----------------------------------------------------------------------------
(* A job only adds.                                                        *)

\* An identifier for a new intent is free: the intents present have distinct
\* names, and a job refers to one at most.
LEMMA RowFree ==
    ASSUME IInv, NEW name \in Names, Fold[name] \notin Taken
    PROVE  NewRow \in Rows \ (Present \cup Held)
<1> DEFINE others == Folds \ {Fold[name]}
<1>1. PICK some \in SUBSET Rows :
        IsFiniteSet(some) /\ Cardinality(some) >= Cardinality(Folds) + Cardinality(Workers)
  BY SupplyAssumption
<1> DEFINE named == some \cap Present
           held == (some \cap Held) \ Present
           holder(r) == CHOOSE w \in Workers : job[w].row = r
<1>2. \A r \in Present : intents[r].name \in Names
  BY DEF IInv, RowsOK, RowOK
<1>3. IsFiniteSet(named) /\ Cardinality(named) <= Cardinality(others)
  <2> DEFINE f == [r \in named |-> Fold[intents[r].name]]
  <2>1. \A r \in named : Fold[intents[r].name] \in others
    BY <1>2 DEF Taken, Folds
  <2>2. f \in [named -> others]
    BY <2>1
  <2>3. \A r, q \in named : f[r] = f[q] => r = q
    BY DEF IInv, NamesApart
  <2>4. f \in Injection(named, others)
    <3> HIDE DEF f, named, others
    <3> QED BY <2>2, <2>3 DEF Injection, IsInjective
  <2>5. IsFiniteSet(others)
    BY SupplyAssumption, FS_RemoveElement
  <2> HIDE DEF f, named, others
  <2> QED
    BY <2>4, <2>5, FS_Injection
<1>4. IsFiniteSet(held) /\ Cardinality(held) <= Cardinality(Workers)
  <2> DEFINE g == [r \in held |-> holder(r)]
  <2>1. \A r \in held : \E w \in Workers : job[w].row = r
    BY DEF Held
  <2>2. \A r \in held : holder(r) \in Workers /\ job[holder(r)].row = r
    <3> HIDE DEF held
    <3> QED BY <2>1
  <2> HIDE DEF holder, held
  <2>3. g \in [held -> Workers]
    BY <2>2
  <2>4. \A r, q \in held : g[r] = g[q] => r = q
    BY <2>2
  <2> HIDE DEF g
  <2>5. g \in Injection(held, Workers)
    BY <2>3, <2>4 DEF Injection, IsInjective
  <2> QED
    BY <2>5, SupplyAssumption, FS_Injection
<1>5. Cardinality(others) = Cardinality(Folds) - 1 /\ Cardinality(Folds) \in Nat
      /\ Cardinality(Workers) \in Nat
  <2>1. Fold[name] \in Folds
    BY DEF Folds
  <2>2. IsFiniteSet(Folds) /\ IsFiniteSet(Workers)
    BY SupplyAssumption
  <2>3. Cardinality(Folds) \in Nat /\ Cardinality(Workers) \in Nat
    BY <2>2, FS_CardinalityType
  <2>4. Cardinality(others) = Cardinality(Folds) - 1
    BY <2>1, <2>2, FS_RemoveElement
  <2> QED
    BY <2>3, <2>4
<1>6. ~(some \subseteq Present \cup Held)
  <2> SUFFICES ASSUME some \subseteq Present \cup Held PROVE FALSE
    OBVIOUS
  <2>1. some = named \cup held /\ named \cap held = {}
    OBVIOUS
  <2> HIDE DEF named, held, others
  <2>2. Cardinality(named \cup held) = Cardinality(named) + Cardinality(held) - Cardinality(named \cap held)
    BY <1>3, <1>4, FS_Union
  <2>3. Cardinality(named \cap held) = 0
    BY <2>1, FS_EmptySet
  <2>4. Cardinality(named) \in Nat /\ Cardinality(held) \in Nat
    BY <1>3, <1>4, FS_CardinalityType
  <2> QED
    BY <1>1, <1>3, <1>4, <1>5, <2>1, <2>2, <2>3, <2>4
<1>7. \E r \in Rows : r \notin Present \cup Held
  BY <1>6
<1> QED
  BY <1>7 DEF NewRow

\* What a step that is no edit may do to the rows.
OnlyAdds ==
    edits' = edits =>
        /\ \A r \in Present : intents'[r] = intents[r] /\ examples[r] \subseteq examples'[r]
        /\ \A w \in Workers :
             job'[w] # job[w] /\ job[w].at = "writing" /\ job[w].dry =>
               UNCHANGED <<intents, examples>>

LEMMA StepOnlyAdds ==
    ASSUME IInv, [Next]_vars
    PROVE  OnlyAdds
<1>1. CASE UNCHANGED <<intents, examples>>
  BY <1>1 DEF OnlyAdds
<1>2. CASE Editors
  <2>1. edits' # edits
    BY <1>2, EditKeepsJobs DEF Editors, UiUpdateInstructions, UpdateDomain, UiCreateDomain,
       UiDeleteDomain, UiCreateIntent, UiDeleteIntent, UiAddExample, UiDeleteExample, ChangeTools
  <2> QED
    BY <2>1 DEF OnlyAdds
<1>3. ASSUME NEW v \in Workers, WriteIntent(v) PROVE OnlyAdds
  <2> DEFINE proposal == Head(job[v].todo)
             row == [name |-> proposal.name, tool |-> proposal.tool, schema |-> proposal.schema]
  <2>1. /\ job[v].at = "writing" /\ job[v].todo # <<>> /\ ~job[v].dry
        /\ Fold[proposal.name] \notin Taken
        /\ intents' = [intents EXCEPT ![NewRow] = row]
        /\ examples' = examples
    BY <1>3 DEF WriteIntent
  <2>2. \E next : job' = [job EXCEPT ![v] = next]
    BY <1>3 DEF WriteIntent, Become
  <2>3. proposal.name \in Names
    <3>1. Clean(job[v].todo)
      BY <2>1, Working DEF JobOK
    <3> QED
      BY <2>1, <3>1, TailFacts DEF Clean, Usable
  <2> HIDE DEF proposal
  <2>4. NewRow \notin Present
    BY <2>1, <2>3, RowFree
  <2> HIDE DEF row
  <2>5. \A r \in Present : intents'[r] = intents[r] /\ examples[r] \subseteq examples'[r]
    BY <2>1, <2>4 DEF IInv, RowsOK, Present
  <2>6. \A w \in Workers : job'[w] # job[w] => ~job[w].dry
    BY <2>1, <2>2
  <2> QED
    BY <2>5, <2>6 DEF OnlyAdds
<1>4. ASSUME NEW v \in Workers, StoreBatch(v) PROVE OnlyAdds
  <2>1. /\ job[v].at = "storing" /\ job[v].row \in Present
        /\ examples' = [examples EXCEPT ![job[v].row] = @ \cup Elements(job[v].rest)]
        /\ intents' = intents
    BY <1>4 DEF StoreBatch
  <2>2. \E next : job' = [job EXCEPT ![v] = next]
    BY <1>4 DEF StoreBatch, Become
  <2>3. \A r \in Present : examples[r] \subseteq examples'[r]
    BY <2>1 DEF IInv, RowsOK, Present
  <2>4. \A w \in Workers : job'[w] # job[w] => job[w].at # "writing"
    BY <2>1, <2>2
  <2> QED
    BY <2>1, <2>3, <2>4 DEF OnlyAdds
<1>5. ASSUME NEW v \in Workers, Request(v) PROVE UNCHANGED <<intents, examples>>
  BY <1>5 DEF Request, RequestIntents, UiGenerateIntents, RequestExamples, UiGenerateExamples,
              CreateDomain, RequestDraft, UiRequestDraft, catalogue
<1>6. ASSUME NEW v \in Workers, Proceed(v), ~WriteIntent(v), ~StoreBatch(v)
      PROVE  UNCHANGED <<intents, examples>>
  BY <1>6 DEF Proceed, OfferTools, ReceiveIntents, PassOver, WriteFails, AnswerIntents,
              ReceiveExamples, StoreFails, DropOffender, GiveUpBatch, NothingToStore, ReportBatch,
              ReceiveDraft, SaveDraft, Fail, catalogue
<1>7. CASE UNCHANGED vars
  BY <1>1, <1>7 DEF vars
<1> QED
  BY <1>1, <1>2, <1>3, <1>4, <1>5, <1>6, <1>7 DEF Next

\* A job adds: no step of one changes or removes an intent or an example that
\* was there, whoever made it and however the catalogue moved on while the
\* provider was asked; and a dry run writes nothing (generate_intents).
THEOREM DraftsOnlyAdd == Spec => GenerationOnlyAdds
<1>1. IInv /\ [Next]_vars =>
        [edits' = edits =>
          /\ \A r \in Present : intents'[r] = intents[r] /\ examples[r] \subseteq examples'[r]
          /\ \A w \in Workers :
               job'[w] # job[w] /\ job[w].at = "writing" /\ job[w].dry =>
                 UNCHANGED <<intents, examples>>]_vars
  BY StepOnlyAdds DEF OnlyAdds
<1> QED
  BY <1>1, AlwaysInvariant, PTL DEF Spec, GenerationOnlyAdds
=============================================================================
