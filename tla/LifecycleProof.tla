-------------------------- MODULE LifecycleProof --------------------------
(***************************************************************************)
(* What the processes of module Lifecycle leave of the store, for every    *)
(* set of domains, intents, texts and contents, every catalogue shipped or *)
(* imported, and any number of edits, faults and crashes.                  *)
(*                                                                         *)
(* Three inductive invariants, each over the one before:                   *)
(*   Typed /\ RootInv   types, where each process stands, no orphan, and   *)
(*                      parents first in what is still to be seeded;       *)
(*   SeedInv            what seeding has done, and from what;              *)
(*   FreshInv           what is in memory, against what is stored.         *)
(*                                                                         *)
(* Plan is a fold over sets and sequences.  What it makes is proved by     *)
(* induction in the form of a least counterexample (LeastNumber).          *)
(***************************************************************************)
EXTENDS Lifecycle, Integers, WellFoundedInduction, SequenceTheorems, FiniteSetTheorems, TLAPS

-----------------------------------------------------------------------------
(* Sequences.                                                              *)

\* Every set of numbers that is not empty has a least.
LEMMA LeastNumber ==
    ASSUME NEW T \in SUBSET Nat, T # {}
    PROVE  \E n \in T : \A m \in T : n <= m
<1> DEFINE R == {ss \in Nat \X Nat : ss[1] < ss[2]}
<1>1. IsWellFoundedOn(R, Nat)
  BY NatLessThanWellFounded DEF OpToRel
<1>2. PICK n \in T : \A m \in T : ~ (<<m, n>> \in R)
  <2> HIDE DEF R
  <2> QED BY <1>1, WFMin
<1>3. \A m \in T : ~(m < n)
  BY <1>2
<1> QED
  BY <1>3

\* A set of numbers that has 1 and, of each number below n, the next has n.
LEMMA Climbing ==
    ASSUME NEW n \in Nat \ {0}, NEW T,
           1 \in T,
           \A i \in 1..n : i \in T /\ i + 1 <= n => i + 1 \in T
    PROVE  \A i \in 1..n : i \in T
<1> DEFINE Missing == {i \in 1..n : i \notin T}
<1>1. SUFFICES ASSUME Missing # {} PROVE FALSE
  OBVIOUS
<1>2. PICK i \in Missing : \A j \in Missing : i <= j
  <2>1. Missing \in SUBSET Nat
    OBVIOUS
  <2> HIDE DEF Missing
  <2> QED BY <1>1, <2>1, LeastNumber
<1>3. i \in 1..n /\ i # 1 /\ i - 1 \in 1..n /\ i - 1 \in T
  BY <1>2
<1> QED
  BY <1>2, <1>3

Joined(ss, f) == \A i \in DOMAIN f : f[i] = IF i = 1 THEN ss[i] ELSE f[i - 1] \o ss[i]

\* The sequences FlattenSeq joins its parts into, one by one.
LEMMA Flattening ==
    ASSUME NEW A, NEW ss \in Seq(Seq(A)), ss # <<>>
    PROVE  \E f \in [1..Len(ss) -> Seq(A)] :
              Joined(ss, f) /\ FlattenSeq(ss) = f[Len(ss)]
<1> DEFINE n == Len(ss)
           Made == {m \in 1..n : \E f \in [1..m -> Seq(A)] : Joined(ss, f)}
<1>1. n \in Nat \ {0} /\ \A i \in 1..n : ss[i] \in Seq(A)
  OBVIOUS
<1>2. 1 \in Made
  <2> DEFINE f == [i \in 1..1 |-> ss[1]]
  <2>1. f \in [1..1 -> Seq(A)]
    BY <1>1
  <2>2. Joined(ss, f)
    BY DEF Joined
  <2> QED
    BY <1>1, <2>1, <2>2
<1>3. ASSUME NEW m \in 1..n, m \in Made, m + 1 <= n PROVE m + 1 \in Made
  <2>1. PICK f \in [1..m -> Seq(A)] : Joined(ss, f)
    BY <1>3
  <2> DEFINE g == [i \in 1..(m + 1) |-> IF i <= m THEN f[i] ELSE f[m] \o ss[m + 1]]
  <2>2. g \in [1..(m + 1) -> Seq(A)]
    <3>1. f[m] \in Seq(A) /\ ss[m + 1] \in Seq(A)
      BY <1>1, <1>3
    <3>2. f[m] \o ss[m + 1] \in Seq(A)
      BY <3>1, ConcatProperties
    <3> QED
      BY <3>2
  <2>3. Joined(ss, g)
    <3>1. DOMAIN g = 1..(m + 1)
      OBVIOUS
    <3>2. ASSUME NEW i \in 1..(m + 1)
          PROVE  g[i] = IF i = 1 THEN ss[i] ELSE g[i - 1] \o ss[i]
      <4>1. CASE i <= m
        <5>1. i \in DOMAIN f /\ g[i] = f[i] /\ (i # 1 => i - 1 \in 1..m /\ g[i - 1] = f[i - 1])
          BY <4>1
        <5> QED
          BY <2>1, <5>1 DEF Joined
      <4>2. CASE i = m + 1
        BY <1>1, <1>3, <4>2
      <4> QED
        BY <4>1, <4>2
    <3> QED
      BY <3>1, <3>2 DEF Joined
  <2>4. m + 1 \in 1..n
    BY <1>1, <1>3
  <2> HIDE DEF g
  <2>5. \E h \in [1..(m + 1) -> Seq(A)] : Joined(ss, h)
    BY <2>2, <2>3
  <2> QED
    BY <2>4, <2>5
<1>4. n \in Made
  <2> HIDE DEF Made, n
  <2>1. n \in 1..n
    BY <1>1
  <2> QED BY <1>1, <1>2, <1>3, <2>1, Climbing
<1>5. PICK f \in [1..n -> Seq(A)] : Joined(ss, f)
  BY <1>4
<1> DEFINE D(g) == [i \in 1..n |-> IF i = 1 THEN ss[i] ELSE g[i - 1] \o ss[i]]
           F == CHOOSE g : g = D(g)
<1>6. f = D(f)
  BY <1>5 DEF Joined
<1>7. F = D(F)
  <2> HIDE DEF D
  <2> QED BY <1>6
<1>8. \A i \in 1..n : F[i] = f[i]
  <2> DEFINE Same == {i \in 1..n : F[i] = f[i]}
  <2>1. 1 \in Same
    <3>1. 1 \in 1..n
      BY <1>1
    <3>2. F[1] = ss[1] /\ f[1] = ss[1]
      BY <1>6, <1>7, <3>1
    <3> QED BY <3>1, <3>2
  <2>2. ASSUME NEW i \in 1..n, i \in Same, i + 1 <= n PROVE i + 1 \in Same
    <3>1. i + 1 \in 1..n /\ i + 1 # 1 /\ (i + 1) - 1 = i
      BY <1>1, <2>2
    <3>2. F[i + 1] = F[i] \o ss[i + 1]
      BY <1>7, <3>1
    <3>3. f[i + 1] = f[i] \o ss[i + 1]
      BY <1>6, <3>1
    <3> QED
      BY <2>2, <3>1, <3>2, <3>3
  <2> HIDE DEF Same, n, F
  <2>3. \A i \in 1..n : i \in Same
    BY <1>1, <2>1, <2>2, Climbing
  <2> QED
    BY <2>3 DEF Same
<1>9. FlattenSeq(ss) = F[n]
  BY <1>1 DEF FlattenSeq
<1> HIDE DEF F, D, Made
<1>10. F[n] = f[n]
  <2>1. n \in 1..n
    BY <1>1
  <2> HIDE DEF n
  <2> QED BY <1>8, <2>1
<1>11. FlattenSeq(ss) = f[Len(ss)]
  BY <1>9, <1>10
<1> QED
  BY <1>5, <1>11

\* What the parts are made of and concatenation keeps, the whole has.
LEMMA FlattenKeeps ==
    ASSUME NEW A, NEW P, NEW ss \in Seq(P),
           P \subseteq Seq(A), <<>> \in P,
           \A s, t \in P : s \o t \in P
    PROVE  FlattenSeq(ss) \in P
<1>1. CASE ss = <<>>
  <2>1. Len(ss) = 0
    BY <1>1
  <2> QED
    BY <1>1, <2>1 DEF FlattenSeq
<1>2. CASE ss # <<>>
  <2> DEFINE n == Len(ss)
             T == {i \in 1..n : ss[i] \in P}
  <2>1. n \in Nat \ {0} /\ \A i \in 1..n : ss[i] \in P
    BY <1>2
  <2>2. ss \in Seq(Seq(A))
    OBVIOUS
  <2>3. PICK f \in [1..n -> Seq(A)] : Joined(ss, f) /\ FlattenSeq(ss) = f[n]
    BY <1>2, <2>2, Flattening
  <2> DEFINE K == {i \in 1..n : f[i] \in P}
  <2>4. 1 \in K
    <3>1. 1 \in 1..n
      BY <2>1
    <3>2. f[1] = ss[1]
      BY <2>3, <3>1 DEF Joined
    <3> QED
      BY <2>1, <3>1, <3>2
  <2>5. ASSUME NEW i \in 1..n, i \in K, i + 1 <= n PROVE i + 1 \in K
    <3>1. i + 1 \in 1..n /\ i + 1 # 1 /\ (i + 1) - 1 = i
      BY <2>1, <2>5
    <3>2. f[i + 1] = f[i] \o ss[i + 1]
      BY <2>3, <3>1 DEF Joined
    <3> QED
      BY <2>1, <2>5, <3>1, <3>2
  <2>6. n \in K
    <3>1. n \in 1..n
      BY <2>1
    <3> HIDE DEF K, n
    <3> QED BY <2>1, <2>4, <2>5, <3>1, Climbing
  <2> QED
    BY <2>3, <2>6
<1> QED
  BY <1>1, <1>2

Elements(s) == {s[k] : k \in DOMAIN s}

\* All that a part has, the whole has.
LEMMA FlattenCovers ==
    ASSUME NEW A, NEW ss \in Seq(Seq(A)), NEW k \in DOMAIN ss
    PROVE  Elements(ss[k]) \subseteq Elements(FlattenSeq(ss))
<1> DEFINE n == Len(ss)
<1>1. n \in Nat \ {0} /\ k \in 1..n /\ ss # <<>> /\ \A i \in 1..n : ss[i] \in Seq(A)
  OBVIOUS
<1>2. PICK f \in [1..n -> Seq(A)] : Joined(ss, f) /\ FlattenSeq(ss) = f[n]
  BY <1>1, Flattening
<1>3. \A s, t \in Seq(A) : Elements(s) \cup Elements(t) \subseteq Elements(s \o t)
  <2> TAKE s, t \in Seq(A)
  <2>1. /\ Len(s) \in Nat /\ Len(t) \in Nat
        /\ DOMAIN s = 1..Len(s) /\ DOMAIN t = 1..Len(t)
        /\ DOMAIN (s \o t) = 1..(Len(s) + Len(t))
    BY ConcatProperties
  <2>2. \A i \in DOMAIN s : i \in DOMAIN (s \o t) /\ (s \o t)[i] = s[i]
    BY <2>1, ConcatProperties
  <2>3. \A i \in DOMAIN t : i + Len(s) \in DOMAIN (s \o t) /\ (s \o t)[i + Len(s)] = t[i]
    BY <2>1, ConcatProperties
  <2> QED
    BY <2>2, <2>3 DEF Elements
<1> DEFINE K == {i \in 1..n : k <= i => Elements(ss[k]) \subseteq Elements(f[i])}
<1>4. 1 \in K
  <2>1. 1 \in 1..n
    BY <1>1
  <2>2. f[1] = ss[1]
    BY <1>2, <2>1 DEF Joined
  <2>3. k <= 1 => k = 1
    BY <1>1
  <2> QED
    BY <2>1, <2>2, <2>3
<1>5. ASSUME NEW i \in 1..n, i \in K, i + 1 <= n PROVE i + 1 \in K
  <2>1. i + 1 \in 1..n /\ i + 1 # 1 /\ (i + 1) - 1 = i
    BY <1>1, <1>5
  <2>2. f[i + 1] = f[i] \o ss[i + 1]
    BY <1>2, <2>1 DEF Joined
  <2>3. Elements(f[i]) \cup Elements(ss[i + 1]) \subseteq Elements(f[i + 1])
    BY <1>1, <1>3, <2>1, <2>2
  <2>4. k <= i \/ i + 1 < k \/ k = i + 1
    BY <1>1, <2>1
  <2> QED
    BY <1>1, <1>5, <2>1, <2>3, <2>4
<1>6. n \in K
  <2>1. n \in 1..n
    BY <1>1
  <2> HIDE DEF K, n
  <2> QED BY <1>1, <1>4, <1>5, <2>1, Climbing
<1> QED
  BY <1>1, <1>2, <1>6

\* SetToSeq lists a finite set, and nothing else.
LEMMA Listing ==
    ASSUME NEW S, IsFiniteSet(S)
    PROVE  SetToSeq(S) \in Seq(S) /\ Elements(SetToSeq(S)) = S
<1> DEFINE n == Cardinality(S)
           f == SetToSeq(S)
<1>1. n \in Nat /\ ExistsBijection(1..n, S)
  BY FS_CardinalityType
<1>2. \E g \in [1..n -> S] : IsInjective(g)
  BY <1>1 DEF ExistsBijection, Bijection, Injection
<1>3. f \in [1..n -> S] /\ IsInjective(f)
  BY <1>2 DEF SetToSeq
<1>4. f \in Injection(1..n, S)
  BY <1>3 DEF Injection
<1>5. f \in Surjection(1..n, S)
  <2>1. Cardinality(1..n) = n
    BY <1>1, FS_Interval
  <2> QED
    BY <1>4, <2>1, FS_Injection
<1>6. \A x \in S : \E k \in 1..n : f[k] = x
  BY <1>5 DEF Surjection
<1> HIDE DEF f, n
<1>7. f \in Seq(S)
  BY <1>1, <1>3
<1>8. Elements(f) = S
  BY <1>3, <1>6 DEF Elements
<1> QED
  BY <1>7, <1>8 DEF f
LEMMA TailFacts ==
    ASSUME NEW A, NEW s \in Seq(A), s # <<>>
    PROVE  /\ Head(s) \in A /\ Head(s) = s[1] /\ 1 \in DOMAIN s
           /\ Tail(s) \in Seq(A)
           /\ \A k \in DOMAIN Tail(s) : k + 1 \in DOMAIN s /\ Tail(s)[k] = s[k + 1]
           /\ \A k \in DOMAIN s : k # 1 => k - 1 \in DOMAIN Tail(s) /\ Tail(s)[k - 1] = s[k]
           /\ Elements(s) = {Head(s)} \cup Elements(Tail(s))
<1>1. /\ Head(s) \in A /\ Head(s) = s[1] /\ 1 \in DOMAIN s
      /\ Tail(s) \in Seq(A) /\ Len(Tail(s)) = Len(s) - 1
      /\ \A k \in 1..Len(Tail(s)) : Tail(s)[k] = s[k + 1]
      /\ Len(s) \in Nat
  BY HeadTailProperties, EmptySeq, LenProperties
<1>2. DOMAIN Tail(s) = 1..(Len(s) - 1) /\ DOMAIN s = 1..Len(s)
  BY <1>1
<1>3. \A k \in DOMAIN Tail(s) : k + 1 \in DOMAIN s /\ Tail(s)[k] = s[k + 1]
  BY <1>1, <1>2
<1>4. \A k \in DOMAIN s : k # 1 => k - 1 \in DOMAIN Tail(s) /\ Tail(s)[k - 1] = s[k]
  BY <1>1, <1>2
<1>5. ASSUME NEW k \in DOMAIN s PROVE s[k] \in {Head(s)} \cup Elements(Tail(s))
  <2>1. CASE k = 1
    BY <1>1, <2>1
  <2>2. CASE k # 1
    BY <1>4, <2>2 DEF Elements
  <2> QED
    BY <2>1, <2>2
<1>6. Head(s) \in Elements(s) /\ Elements(Tail(s)) \subseteq Elements(s)
  BY <1>1, <1>3 DEF Elements
<1>7. Elements(s) \subseteq {Head(s)} \cup Elements(Tail(s))
  BY <1>5 DEF Elements
<1> QED
  BY <1>1, <1>3, <1>4, <1>6, <1>7

-----------------------------------------------------------------------------
(* The plan of a seeding.                                                  *)

\* The calls a catalogue asks for.
DomainCalls(c) ==
    {[call |-> "domain", of |-> d, content |-> c.domains[d]] :
        d \in {e \in Domains : c.domains[e] # Nil}}
IntentCalls(c) ==
    {[call |-> "intent", of |-> i, content |-> c.intents[i]] :
        i \in {j \in Intents : c.intents[j] # Nil}}
ExampleCalls(c) ==
    {[call |-> "example", of |-> e, content |-> Nil] : e \in c.examples}
RebuildCalls(c) ==
    {[call |-> "rebuild", of |-> d, content |-> Nil] :
        d \in {e \in Domains : c.domains[e] # Nil}}
Rows(c) == DomainCalls(c) \cup IntentCalls(c) \cup ExampleCalls(c)
Calls(c) == Rows(c) \cup RebuildCalls(c)

\* Call b makes the row that call c hangs its own from, or rebuilds.
Provides(b, c) ==
    \/ c.call = "intent" /\ b.call = "domain" /\ b.of = DomainOf(c.of)
    \/ c.call = "example" /\ b.call = "intent" /\ b.of = c.of[1]
    \/ c.call = "rebuild" /\ b.call = "domain" /\ b.of = c.of

\* Every call of s is in Base or comes after one that provides for it.
Provided(s, Base) ==
    \A k \in DOMAIN s : s[k] \in Base \/ \E j \in 1..(k - 1) : Provides(s[j], s[k])

LEMMA JoinProvided ==
    ASSUME NEW C, NEW Base, NEW s \in Seq(C), NEW t \in Seq(C),
           Provided(s, Base), Provided(t, Base)
    PROVE  Provided(s \o t, Base)
<1>1. /\ Len(s) \in Nat /\ Len(t) \in Nat
      /\ DOMAIN s = 1..Len(s) /\ DOMAIN t = 1..Len(t)
      /\ DOMAIN (s \o t) = 1..(Len(s) + Len(t))
  BY ConcatProperties
<1>2. \A k \in 1..Len(s) : (s \o t)[k] = s[k]
  BY <1>1, ConcatProperties
<1>3. \A k \in 1..Len(t) : (s \o t)[k + Len(s)] = t[k]
  BY <1>1, ConcatProperties
<1>4. SUFFICES ASSUME NEW k \in DOMAIN (s \o t)
               PROVE  \/ (s \o t)[k] \in Base
                      \/ \E j \in 1..(k - 1) : Provides((s \o t)[j], (s \o t)[k])
  BY DEF Provided
<1>5. CASE k <= Len(s)
  <2>1. k \in 1..Len(s) /\ \A j \in 1..(k - 1) : j \in 1..Len(s)
    BY <1>1, <1>5
  <2> QED
    BY <1>1, <1>2, <2>1 DEF Provided
<1>6. CASE k > Len(s)
  <2> DEFINE l == k - Len(s)
  <2>1. l \in 1..Len(t) /\ k = l + Len(s)
    BY <1>1, <1>6
  <2>2. \A j \in 1..(l - 1) : j \in 1..Len(t) /\ j + Len(s) \in 1..(k - 1)
    BY <1>1, <2>1
  <2>3. (s \o t)[k] = t[l]
    BY <1>3, <2>1
  <2>4. t[l] \in Base \/ \E j \in 1..(l - 1) : Provides(t[j], t[l])
    BY <1>1, <2>1 DEF Provided
  <2>5. ASSUME NEW j \in 1..(l - 1), Provides(t[j], t[l])
        PROVE  \E m \in 1..(k - 1) : Provides((s \o t)[m], (s \o t)[k])
    BY <1>3, <2>2, <2>3, <2>5
  <2> QED
    BY <2>3, <2>4, <2>5
<1> QED
  BY <1>1, <1>5, <1>6

LEMMA ConsElements ==
    ASSUME NEW C, NEW x \in C, NEW s \in Seq(C)
    PROVE  /\ <<x>> \o s \in Seq(C) /\ Len(<<x>> \o s) = 1 + Len(s)
           /\ (<<x>> \o s)[1] = x
           /\ \A k \in 1..Len(s) : (<<x>> \o s)[k + 1] = s[k]
           /\ Elements(<<x>> \o s) = {x} \cup Elements(s)
<1> DEFINE h == <<x>>
           y == h \o s
<1>1. /\ h \in Seq(C) /\ Len(h) = 1 /\ h[1] = x
      /\ Len(s) \in Nat /\ DOMAIN s = 1..Len(s)
  OBVIOUS
<1> HIDE DEF h
<1>2. /\ y \in Seq(C) /\ Len(y) = 1 + Len(s)
      /\ \A k \in 1..(1 + Len(s)) : y[k] = IF k <= 1 THEN h[k] ELSE s[k - 1]
  <2>1. /\ y \in Seq(C) /\ Len(y) = Len(h) + Len(s)
        /\ \A k \in 1..(Len(h) + Len(s)) : y[k] = IF k <= Len(h) THEN h[k] ELSE s[k - Len(h)]
    BY <1>1, ConcatProperties
  <2> HIDE DEF y
  <2> QED
    BY <1>1, <2>1
<1> HIDE DEF y
<1>3. /\ DOMAIN y = 1..(1 + Len(s)) /\ y[1] = x
      /\ \A k \in 1..Len(s) : y[k + 1] = s[k]
  BY <1>1, <1>2
<1>4. Elements(y) = {x} \cup Elements(s)
  <2>1. x \in Elements(y) /\ Elements(s) \subseteq Elements(y)
    <3>1. \A k \in DOMAIN s : k + 1 \in DOMAIN y /\ y[k + 1] = s[k]
      BY <1>1, <1>3
    <3>2. 1 \in DOMAIN y
      BY <1>1, <1>3
    <3> QED
      BY <1>3, <3>1, <3>2 DEF Elements
  <2>2. ASSUME NEW k \in DOMAIN y PROVE y[k] \in {x} \cup Elements(s)
    <3>1. CASE k = 1
      BY <1>3, <3>1
    <3>2. CASE k # 1
      <4>1. k - 1 \in DOMAIN s /\ y[k] = s[k - 1]
        BY <1>1, <1>3, <3>2
      <4> QED
        BY <4>1 DEF Elements
    <3> QED
      BY <3>1, <3>2
  <2>3. Elements(y) \subseteq {x} \cup Elements(s)
    BY <2>2 DEF Elements
  <2> QED
    BY <2>1, <2>3
<1> QED
  BY <1>2, <1>3, <1>4 DEF y, h

\* Call x provides for all that s leaves to W.
Leads(C, W, x, s) ==
    x \in C /\ s \in Seq(C) /\ Provided(s, W) /\ \A w \in W : Provides(x, w)

LEMMA ConsProvided ==
    ASSUME NEW C, NEW W, NEW x, NEW s, Leads(C, W, x, s)
    PROVE  Provided(<<x>> \o s, {x})
<1> USE DEF Leads
<1> DEFINE y == <<x>> \o s
<1>1. Len(s) \in Nat /\ DOMAIN s = 1..Len(s)
  OBVIOUS
<1>2. /\ DOMAIN y = 1..(1 + Len(s)) /\ y[1] = x
      /\ \A k \in 1..Len(s) : y[k + 1] = s[k]
  <2>1. y \in Seq(C) /\ Len(y) = 1 + Len(s) /\ y[1] = x /\ \A k \in 1..Len(s) : y[k + 1] = s[k]
    BY ConsElements
  <2> HIDE DEF y
  <2> QED
    BY <2>1
<1> HIDE DEF y
<1>3. ASSUME NEW k \in DOMAIN y PROVE y[k] \in {x} \/ \E j \in 1..(k - 1) : Provides(y[j], y[k])
  <2>1. CASE k = 1
    BY <1>2, <2>1
  <2>2. CASE k # 1
    <3>1. k - 1 \in DOMAIN s /\ y[k] = s[k - 1] /\ 1 \in 1..(k - 1)
      BY <1>1, <1>2, <2>2
    <3>2. CASE s[k - 1] \in W
      BY <1>2, <3>1, <3>2
    <3>3. ASSUME NEW j \in 1..((k - 1) - 1), Provides(s[j], s[k - 1])
          PROVE  \E m \in 1..(k - 1) : Provides(y[m], y[k])
      <4>1. j \in 1..Len(s) /\ j + 1 \in 1..(k - 1)
        BY <1>1, <3>1
      <4> QED
        BY <1>2, <3>1, <3>3, <4>1
    <3> QED
      BY <3>1, <3>2, <3>3 DEF Provided
  <2> QED
    BY <2>1, <2>2
<1> QED
  BY <1>3 DEF Provided, y

\* The calls scripts.seed.seed makes for a catalogue are those of its rows, and a
\* rebuild of each of its domains, and no other; every row of the catalogue has
\* its call; and no call comes before the one for the row's parent.
THEOREM PlanSound ==
    ASSUME NEW c \in Catalogues
    PROVE  /\ Plan(c) \in Seq(Calls(c))
           /\ Provided(Plan(c), DomainCalls(c))
           /\ Rows(c) \subseteq Elements(Plan(c))
<1> DEFINE C == Calls(c)
           listed(d) == {i \in Intents : DomainOf(i) = d /\ c.intents[i] # Nil}
           texts(i) == SetToSeq({e \in c.examples : e[1] = i})
           intentCall(i) == [call |-> "intent", of |-> i, content |-> c.intents[i]]
           exampleCalls(i) ==
               [k \in DOMAIN texts(i) |-> [call |-> "example", of |-> texts(i)[k], content |-> Nil]]
           ofIntent(i) == <<intentCall(i)>> \o exampleCalls(i)
           ofIntents(d) ==
               LET order == SetToSeq(listed(d))
               IN  FlattenSeq([k \in DOMAIN order |-> ofIntent(order[k])])
           domainCall(d) == [call |-> "domain", of |-> d, content |-> c.domains[d]]
           rebuildCall(d) == [call |-> "rebuild", of |-> d, content |-> Nil]
           ofDomain(d) == <<domainCall(d)>> \o ofIntents(d) \o <<rebuildCall(d)>>
           present == {d \in Domains : c.domains[d] # Nil}
           order == SetToSeq(present)
           within(d) == {intentCall(i) : i \in listed(d)}
<1>1. Plan(c) = FlattenSeq([k \in DOMAIN order |-> ofDomain(order[k])])
  BY DEF Plan
<1>2. /\ IsFiniteSet(present) /\ \A d \in Domains : IsFiniteSet(listed(d))
      /\ \A i \in Intents : IsFiniteSet({e \in c.examples : e[1] = i})
  <2>1. IsFiniteSet(Stored)
    BY FiniteAssumption, FS_Product DEF Stored
  <2>2. c.examples \subseteq Stored
    BY DEF Catalogues
  <2>3. \A i \in Intents : {e \in c.examples : e[1] = i} \in SUBSET Stored
    BY <2>2
  <2>4. \A i \in Intents : IsFiniteSet({e \in c.examples : e[1] = i})
    BY <2>1, <2>3, FS_Subset
  <2>5. present \in SUBSET Domains /\ \A d \in Domains : listed(d) \in SUBSET Intents
    OBVIOUS
  <2> HIDE DEF present, listed
  <2> QED
    BY <2>4, <2>5, FiniteAssumption, FS_Subset
<1>3. ASSUME NEW i \in Intents, c.intents[i] # Nil
      PROVE  /\ ofIntent(i) \in Seq(C)
             /\ Provided(ofIntent(i), {intentCall(i)})
             /\ intentCall(i) \in Elements(ofIntent(i))
             /\ \A e \in c.examples : e[1] = i =>
                   [call |-> "example", of |-> e, content |-> Nil] \in Elements(ofIntent(i))
  <2> DEFINE mine == {e \in c.examples : e[1] = i}
             t == SetToSeq(mine)
             W == {[call |-> "example", of |-> e, content |-> Nil] : e \in mine}
             x == exampleCalls(i)
  <2>1. t \in Seq(mine) /\ Elements(t) = mine
    BY <1>2, Listing
  <2>2. Len(t) \in Nat /\ DOMAIN t = 1..Len(t) /\ \A k \in DOMAIN t : t[k] \in mine
    <3> HIDE DEF mine, t
    <3> QED BY <2>1
  <2>3. W \subseteq C /\ \A w \in W : Provides(intentCall(i), w)
    BY DEF Calls, Rows, ExampleCalls, Provides
  <2>4. x = [k \in DOMAIN t |-> [call |-> "example", of |-> t[k], content |-> Nil]]
    OBVIOUS
  <2>5. intentCall(i) \in C
    BY <1>3 DEF Calls, Rows, IntentCalls
  <2>6. x \in Seq(W) /\ DOMAIN x = DOMAIN t
    <3>1. \A k \in DOMAIN t : [call |-> "example", of |-> t[k], content |-> Nil] \in W
      BY <2>2
    <3> HIDE DEF W, t, x
    <3> QED
      BY <2>2, <2>4, <3>1
  <2>7. W \subseteq Elements(x)
    <3>1. ASSUME NEW e \in mine
          PROVE  [call |-> "example", of |-> e, content |-> Nil] \in Elements(x)
      <4> HIDE DEF mine, t, x
      <4> QED
        BY <2>1, <2>4, <2>6 DEF Elements
    <3> HIDE DEF x, mine
    <3> QED
      BY <3>1
  <2> HIDE DEF W, x, mine
  <2>8. x \in Seq(C) /\ Provided(x, W)
    BY <2>3, <2>6 DEF Provided
  <2>9. /\ <<intentCall(i)>> \o x \in Seq(C)
        /\ Provided(<<intentCall(i)>> \o x, {intentCall(i)})
        /\ Elements(<<intentCall(i)>> \o x) = {intentCall(i)} \cup Elements(x)
    <3>1. intentCall(i) \in C \cap {intentCall(i)}
      BY <2>5
    <3>2. PICK z : z = intentCall(i)
      OBVIOUS
    <3> HIDE DEF intentCall, C
    <3>3. z \in C /\ \A w \in W : Provides(z, w)
      BY <2>3, <3>1, <3>2
    <3>4. /\ <<z>> \o x \in Seq(C) /\ Provided(<<z>> \o x, {z})
          /\ Elements(<<z>> \o x) = {z} \cup Elements(x)
      <4>1. Leads(C, W, z, x)
        BY <2>8, <3>3 DEF Leads
      <4> QED
        BY <2>8, <3>3, <4>1, ConsProvided, ConsElements
    <3> QED
      BY <3>2, <3>4
  <2>10. \A e \in mine : [call |-> "example", of |-> e, content |-> Nil] \in W
    BY DEF W
  <2>11. ofIntent(i) = <<intentCall(i)>> \o x
    BY DEF x
  <2> QED
    BY <2>7, <2>9, <2>10, <2>11 DEF mine
<1>4. ASSUME NEW d \in Domains
      PROVE  /\ ofIntents(d) \in Seq(C)
             /\ Provided(ofIntents(d), within(d))
             /\ \A i \in listed(d) : Elements(ofIntent(i)) \subseteq Elements(ofIntents(d))
  <2> DEFINE o == SetToSeq(listed(d))
             ss == [k \in DOMAIN o |-> ofIntent(o[k])]
             P == {s \in Seq(C) : Provided(s, within(d))}
  <2>1. ofIntents(d) = FlattenSeq(ss)
    OBVIOUS
  <2>2. o \in Seq(listed(d)) /\ Elements(o) = listed(d)
    <3>1. IsFiniteSet(listed(d))
      BY <1>2
    <3> HIDE DEF listed
    <3> QED
      BY <3>1, Listing
  <2>3. \A i \in listed(d) : ofIntent(i) \in P
    <3> TAKE i \in listed(d)
    <3>1. ofIntent(i) \in Seq(C) /\ Provided(ofIntent(i), {intentCall(i)})
      BY <1>3
    <3>2. intentCall(i) \in within(d)
      OBVIOUS
    <3> HIDE DEF ofIntent, intentCall, within
    <3> QED
      BY <3>1, <3>2 DEF Provided
  <2> HIDE DEF listed, o, ofIntent, P
  <2>4. ss \in Seq(P) /\ DOMAIN ss = DOMAIN o /\ \A k \in DOMAIN o : ss[k] = ofIntent(o[k])
    BY <2>2, <2>3
  <2>5. P \subseteq Seq(C)
    BY DEF P
  <2>6. <<>> \in P
    BY DEF P, Provided
  <2>7. \A s, t \in P : s \o t \in P
    <3> TAKE s, t \in P
    <3>1. s \in Seq(C) /\ t \in Seq(C) /\ Provided(s, within(d)) /\ Provided(t, within(d))
      BY DEF P
    <3> HIDE DEF within
    <3>2. Provided(s \o t, within(d))
      BY <3>1, JoinProvided
    <3> QED
      BY <3>1, <3>2, ConcatProperties DEF P
  <2> HIDE DEF ss
  <2>8. FlattenSeq(ss) \in P
    BY <2>4, <2>5, <2>6, <2>7, FlattenKeeps
  <2>9. ASSUME NEW i \in listed(d) PROVE Elements(ofIntent(i)) \subseteq Elements(FlattenSeq(ss))
    <3>1. PICK k \in DOMAIN o : o[k] = i
      BY <2>2 DEF Elements
    <3>2. k \in DOMAIN ss /\ ss[k] = ofIntent(i) /\ ss \in Seq(Seq(C))
      BY <2>4, <2>5, <3>1
    <3> QED
      BY <3>2, FlattenCovers
  <2> QED
    BY <2>1, <2>8, <2>9 DEF P
<1>5. ASSUME NEW d \in Domains, c.domains[d] # Nil
      PROVE  /\ ofDomain(d) \in Seq(C)
             /\ Provided(ofDomain(d), DomainCalls(c))
             /\ domainCall(d) \in Elements(ofDomain(d))
             /\ Elements(ofIntents(d)) \subseteq Elements(ofDomain(d))
  <2> DEFINE q == ofIntents(d)
             W == within(d) \cup {rebuildCall(d)}
  <2>1. domainCall(d) \in C /\ domainCall(d) \in DomainCalls(c) /\ rebuildCall(d) \in C
    BY <1>5 DEF Calls, Rows, DomainCalls, RebuildCalls
  <2>2. \A w \in W : Provides(domainCall(d), w)
    BY DEF Provides
  <2>3. PICK x : x = domainCall(d)
    OBVIOUS
  <2>4. PICK r : r = rebuildCall(d)
    OBVIOUS
  <2>5. r \in W /\ within(d) \subseteq W
    BY <2>4
  <2>6. q \in Seq(C) /\ Provided(q, within(d))
    BY <1>4
  <2>7. ofDomain(d) = (<<x>> \o q) \o <<r>>
    BY <2>3, <2>4
  <2> HIDE DEF C, W, q, domainCall, rebuildCall, within, ofDomain
  <2>8. Provided(q, W) /\ Provided(<<r>>, W)
    BY <2>5, <2>6 DEF Provided
  <2>9. <<x>> \in Seq(C) /\ <<r>> \in Seq(C)
    BY <2>1, <2>3, <2>4
  <2> DEFINE s == q \o <<r>>
  <2>10. s \in Seq(C) /\ Provided(s, W)
    BY <2>6, <2>8, <2>9, JoinProvided, ConcatProperties
  <2>11. ofDomain(d) = <<x>> \o s
    BY <2>6, <2>7, <2>9, ConcatAssociative
  <2>12. Elements(q) \subseteq Elements(s)
    <3>1. /\ DOMAIN q = 1..Len(q) /\ Len(q) \in Nat /\ Len(<<r>>) = 1
      BY <2>6, <2>9
    <3>2. \A k \in 1..Len(q) : k \in DOMAIN s /\ s[k] = q[k]
      BY <2>6, <2>9, <3>1, ConcatProperties
    <3> HIDE DEF s
    <3> QED
      BY <3>1, <3>2 DEF Elements
  <2> HIDE DEF s
  <2>13. x \in C /\ \A w \in W : Provides(x, w)
    BY <2>1, <2>2, <2>3
  <2>14. /\ <<x>> \o s \in Seq(C) /\ Provided(<<x>> \o s, {x})
         /\ Elements(<<x>> \o s) = {x} \cup Elements(s)
    <3>1. Leads(C, W, x, s)
      BY <2>10, <2>13 DEF Leads
    <3> QED
      BY <2>10, <2>13, <3>1, ConsProvided, ConsElements
  <2>15. x \in DomainCalls(c)
    BY <2>1, <2>3
  <2>16. Provided(<<x>> \o s, DomainCalls(c))
    BY <2>14, <2>15 DEF Provided
  <2> QED
    BY <2>3, <2>11, <2>12, <2>14, <2>16 DEF q
<1> DEFINE ss == [k \in DOMAIN order |-> ofDomain(order[k])]
           P == {s \in Seq(C) : Provided(s, DomainCalls(c))}
<1>6. order \in Seq(present) /\ Elements(order) = present
  <2> HIDE DEF present
  <2> QED
    BY <1>2, Listing
<1>7. \A d \in present : ofDomain(d) \in P
  BY <1>5
<1>8. P \subseteq Seq(C) /\ <<>> \in P /\ \A s, t \in P : s \o t \in P
  <2>1. <<>> \in P
    BY DEF Provided
  <2>2. ASSUME NEW s \in P, NEW t \in P PROVE s \o t \in P
    <3>1. s \in Seq(C) /\ t \in Seq(C) /\ Provided(s, DomainCalls(c)) /\ Provided(t, DomainCalls(c))
      BY <2>2
    <3> HIDE DEF C
    <3>2. Provided(s \o t, DomainCalls(c))
      BY <3>1, JoinProvided
    <3> QED
      BY <3>1, <3>2, ConcatProperties
  <2> QED
    BY <2>1, <2>2
<1>9. ss \in Seq(P) /\ DOMAIN ss = DOMAIN order /\ \A k \in DOMAIN order : ss[k] = ofDomain(order[k])
  <2> HIDE DEF P, present, order, ofDomain
  <2> QED
    BY <1>6, <1>7
<1>10. FlattenSeq(ss) \in P
  <2> HIDE DEF P, ss
  <2> QED
    BY <1>8, <1>9, FlattenKeeps
<1>11. ASSUME NEW d \in present PROVE Elements(ofDomain(d)) \subseteq Elements(FlattenSeq(ss))
  <2> HIDE DEF P, ss, present, order, ofDomain, C
  <2>1. PICK k \in DOMAIN order : order[k] = d
    BY <1>6 DEF Elements
  <2>2. k \in DOMAIN ss /\ ss[k] = ofDomain(d) /\ ss \in Seq(Seq(C))
    BY <1>8, <1>9, <2>1
  <2> QED
    BY <2>2, FlattenCovers
<1>12. DomainCalls(c) \subseteq Elements(FlattenSeq(ss))
  <2>1. ASSUME NEW d \in present PROVE domainCall(d) \in Elements(FlattenSeq(ss))
    <3> HIDE DEF ss, ofDomain, ofIntents, order
    <3> QED BY <1>5, <1>11
  <2> HIDE DEF ss
  <2> QED
    BY <2>1 DEF DomainCalls
<1>13. ASSUME NEW i \in Intents, c.intents[i] # Nil
       PROVE  Elements(ofIntent(i)) \subseteq Elements(FlattenSeq(ss))
  <2>1. PICK d \in Domains : d = DomainOf(i)
    BY LifecycleAssumption
  <2>2. d \in present /\ i \in listed(d)
    BY <1>13, <2>1 DEF Catalogues, Nested
  <2>3. Elements(ofIntent(i)) \subseteq Elements(ofIntents(d))
    BY <1>4, <2>2
  <2>4. Elements(ofIntents(d)) \subseteq Elements(ofDomain(d))
    BY <1>5, <2>2
  <2>5. Elements(ofDomain(d)) \subseteq Elements(FlattenSeq(ss))
    BY <1>11, <2>2
  <2> HIDE DEF ofIntent, ofIntents, ofDomain, ss
  <2> QED
    BY <2>3, <2>4, <2>5
<1>14. IntentCalls(c) \subseteq Elements(FlattenSeq(ss))
  <2>1. ASSUME NEW i \in Intents, c.intents[i] # Nil PROVE intentCall(i) \in Elements(FlattenSeq(ss))
    <3>1. intentCall(i) \in Elements(ofIntent(i))
      BY <1>3, <2>1
    <3>2. Elements(ofIntent(i)) \subseteq Elements(FlattenSeq(ss))
      BY <1>13, <2>1
    <3> HIDE DEF ofIntent, ss
    <3> QED
      BY <3>1, <3>2
  <2> HIDE DEF ss
  <2> QED
    BY <2>1 DEF IntentCalls
<1>15. ExampleCalls(c) \subseteq Elements(FlattenSeq(ss))
  <2>1. ASSUME NEW e \in c.examples
        PROVE  [call |-> "example", of |-> e, content |-> Nil] \in Elements(FlattenSeq(ss))
    <3>1. PICK i \in Intents : i = e[1] /\ c.intents[i] # Nil
      BY DEF Catalogues, Nested, Stored
    <3>2. [call |-> "example", of |-> e, content |-> Nil] \in Elements(ofIntent(i))
      BY <1>3, <3>1
    <3>3. Elements(ofIntent(i)) \subseteq Elements(FlattenSeq(ss))
      BY <1>13, <3>1
    <3> HIDE DEF ofIntent, ss
    <3> QED
      BY <3>2, <3>3
  <2> HIDE DEF ss
  <2> QED
    BY <2>1 DEF ExampleCalls
<1>16. Plan(c) = FlattenSeq(ss)
  BY <1>1
<1> HIDE DEF ss
<1> QED
  BY <1>10, <1>12, <1>14, <1>15, <1>16 DEF Rows

LEMMA CallShape ==
    ASSUME NEW c \in Catalogues, NEW x \in Calls(c)
    PROVE  /\ x.call \in {"domain", "intent", "example", "rebuild"}
           /\ x.call = "domain" => /\ x.of \in Domains /\ x.content \in Contents
                                   /\ x.content = c.domains[x.of]
           /\ x.call = "intent" => /\ x.of \in Intents /\ x.content \in Contents
                                   /\ x.content = c.intents[x.of]
           /\ x.call = "example" => /\ x.of \in c.examples /\ x.of \in Stored
                                    /\ x.of[1] \in Intents
           /\ x.call = "rebuild" => x.of \in Domains
<1>1. /\ c.domains \in [Domains -> Contents \cup {Nil}]
      /\ c.intents \in [Intents -> Contents \cup {Nil}]
      /\ c.examples \subseteq Stored
  BY DEF Catalogues
<1>2. CASE x \in DomainCalls(c)
  BY <1>1, <1>2 DEF DomainCalls
<1>3. CASE x \in IntentCalls(c)
  BY <1>1, <1>3 DEF IntentCalls
<1>4. CASE x \in ExampleCalls(c)
  BY <1>1, <1>4 DEF ExampleCalls, Stored
<1>5. CASE x \in RebuildCalls(c)
  BY <1>1, <1>5 DEF RebuildCalls
<1> QED
  BY <1>2, <1>3, <1>4, <1>5 DEF Calls, Rows

-----------------------------------------------------------------------------
(* Type correctness.                                                       *)

\* Where a process stands, and what it may have to do there.
Remaining ==
    {<<"tools", "examples", "intents", "domains">>, <<"examples", "intents", "domains">>,
     <<"intents", "domains">>, <<"domains">>}
Places ==
    {"off", "checking", "seeding", "warming", "ready", "writing", "resetting", "reading"}
Standing ==
    /\ at \in Places
    /\ at = "off" => job = Nil
    /\ at \in {"checking", "warming", "ready"} => job = "server"
    /\ at = "writing" => job = "export"
    /\ at = "resetting" => job \in Resetting /\ todo \in Remaining
    /\ at = "reading" => job \in Jobs \ {"server", "export"}
    /\ at = "seeding" => /\ job \in Jobs \ {"export"}
                         /\ Source \in Catalogues
                         /\ todo \in Seq(Calls(Source))
    /\ at = "warming" => todo \in Seq(Domains)

Typed == TypeOK /\ Standing

LEMMA EntryShape ==
    ASSUME Standing, at = "seeding", todo # <<>>
    PROVE  /\ Entry \in Calls(Source) /\ Tail(todo) \in Seq(Calls(Source))
           /\ Entry.call \in {"domain", "intent", "example", "rebuild"}
           /\ Entry.call = "domain" => /\ Entry.of \in Domains /\ Entry.content \in Contents
                                       /\ Entry.content = Source.domains[Entry.of]
           /\ Entry.call = "intent" => /\ Entry.of \in Intents /\ Entry.content \in Contents
                                       /\ Entry.content = Source.intents[Entry.of]
                                       /\ DomainOf(Entry.of) \in Domains
           /\ Entry.call = "example" => /\ Entry.of \in Source.examples /\ Entry.of \in Stored
                                        /\ Entry.of[1] \in Intents
                                        /\ DomainOf(Entry.of[1]) \in Domains
           /\ Entry.call = "rebuild" => Entry.of \in Domains
<1>1. Source \in Catalogues /\ todo \in Seq(Calls(Source))
  BY DEF Standing
<1>2. Entry \in Calls(Source) /\ Tail(todo) \in Seq(Calls(Source))
  BY <1>1, TailFacts DEF Entry
<1> QED
  BY <1>1, <1>2, CallShape, LifecycleAssumption

LEMMA RowTypes ==
    ASSUME NEW content \in Contents
    PROVE  /\ [content |-> content, status |-> "active"] \in DomainRow
           /\ NewIntent(content) \in IntentRow
BY DEF DomainRow, IntentRow, NewIntent

\* What a rebuild leaves in memory.
LEMMA RebuiltTyped ==
    ASSUME TypeOK, NEW d \in Domains, NEW e, NEW i, e \subseteq Stored, Rebuilt(d, e, i)
    PROVE  /\ DOMAIN index' = Domains /\ dirty' \subseteq Domains /\ torn' \subseteq Domains
           /\ \A b \in Domains : index'[b] = Nil \/ index'[b] \subseteq Stored
BY DEF TypeOK, Rebuilt

LEMMA ExportFits ==
    ASSUME TypeOK, NoOrphans
    PROVE  Snapshot(Store) \in Catalogues
<1> DEFINE s == Snapshot(Store)
<1>1. /\ s = [domains |-> s.domains, intents |-> s.intents, examples |-> s.examples]
      /\ s.domains = [d \in Domains |-> IF domains[d] = Nil THEN Nil ELSE domains[d].content]
      /\ s.intents = [i \in Intents |-> IF intents[i] = Nil THEN Nil ELSE intents[i].content]
      /\ s.examples = examples
  BY DEF Snapshot, Store
<1> HIDE DEF s
<1>2. /\ \A d \in Domains : domains[d] # Nil => domains[d].content \in Contents
      /\ \A i \in Intents : intents[i] # Nil => intents[i].content \in Contents
  BY DEF TypeOK, DomainRow, IntentRow
<1>3. /\ s.domains \in [Domains -> Contents \cup {Nil}]
      /\ s.intents \in [Intents -> Contents \cup {Nil}]
      /\ s.examples \in SUBSET Stored
  BY <1>1, <1>2 DEF TypeOK
<1>4. Nested(s)
  <2>1. ASSUME NEW i \in Intents, s.intents[i] # Nil PROVE s.domains[DomainOf(i)] # Nil
    <3>1. HasIntent(i) /\ DomainOf(i) \in Domains
      BY <1>1, <2>1, LifecycleAssumption DEF HasIntent
    <3>2. HasDomain(DomainOf(i))
      BY <3>1 DEF NoOrphans
    <3> QED
      BY <1>1, <1>2, <3>1, <3>2, NilAssumption DEF HasDomain
  <2>2. ASSUME NEW e \in s.examples PROVE s.intents[e[1]] # Nil
    <3>1. HasIntent(e[1]) /\ e[1] \in Intents
      BY <1>1, <1>3, <2>2 DEF NoOrphans, Stored
    <3> QED
      BY <1>1, <1>2, <3>1, NilAssumption DEF HasIntent
  <2> QED
    BY <2>1, <2>2 DEF Nested
<1>5. s \in [domains : [Domains -> Contents \cup {Nil}],
             intents : [Intents -> Contents \cup {Nil}],
             examples : SUBSET Stored]
  BY <1>1, <1>3
<1> QED
  BY <1>4, <1>5 DEF Catalogues, s

LEMMA EndsTyped ==
    ASSUME TypeOK, Ends,
           UNCHANGED store, file' \in {Nil, Broken} \/ file' \in Catalogues
    PROVE  Typed'
BY DEF TypeOK, Typed, Standing, Ends, store, Places, NoIndex, HasIntent

\* A step that leaves the store and the memory as they are.
LEMMA GoesTyped ==
    ASSUME Typed, Standing', job' \in Jobs, UNCHANGED <<store, memory, file>>
    PROVE  Typed'
BY NilAssumption DEF TypeOK, Typed, store, memory, HasIntent, Jobs

LEMMA ListedSeq == Listed \in Seq(Domains) /\ Elements(Listed) = Domains
BY Listing, FiniteAssumption DEF Listed

LEMMA InitTyped == Init => Typed
BY DEF Init, Typed, TypeOK, Standing, Places, NoIndex, HasIntent

LEMMA MovesOn ==
    ASSUME Standing, UNCHANGED file
    PROVE  /\ at = "seeding" /\ todo # <<>> /\ Goes("seeding", Tail(todo)) => Standing'
           /\ job = "server" /\ Goes("warming", Listed) => Standing'
           /\ job = "server" /\ Goes("seeding", DemoPlan) => Standing'
           /\ job \in {"seed", "reset+seed"} /\ Goes("seeding", DemoPlan) => Standing'
           /\ job \in {"import", "reset+import"} /\ file \in Catalogues
                /\ Goes("seeding", Plan(file)) => Standing'
<1>1. ASSUME at = "seeding", todo # <<>>, Goes("seeding", Tail(todo)) PROVE Standing'
  <2>1. Tail(todo) \in Seq(Calls(Source))
    BY <1>1, EntryShape
  <2>2. Source' = Source
    BY <1>1 DEF Goes, Source
  <2>3. Calls(Source)' = Calls(Source)
    BY <2>2 DEF Calls, Rows, DomainCalls, IntentCalls, ExampleCalls, RebuildCalls
  <2> QED
    BY <1>1, <2>1, <2>2, <2>3 DEF Standing, Goes
<1>2. ASSUME job = "server", Goes("warming", Listed) PROVE Standing'
  BY <1>2, ListedSeq DEF Standing, Goes, Places
<1>3. ASSUME NEW c \in Catalogues, job \in Jobs \ {"export"}, Source' = c, Goes("seeding", Plan(c))
      PROVE  Standing'
  <2>1. Plan(c) \in Seq(Calls(c))
    BY PlanSound
  <2>2. Calls(Source)' = Calls(c)
    BY <1>3 DEF Calls, Rows, DomainCalls, IntentCalls, ExampleCalls, RebuildCalls
  <2> QED
    BY <1>3, <2>1, <2>2 DEF Standing, Goes, Places
<1>4. ASSUME job \in {"server", "seed", "reset+seed"}, Goes("seeding", DemoPlan) PROVE Standing'
  <2>1. Source' = Demo /\ Demo \in Catalogues /\ Goes("seeding", Plan(Demo))
    BY <1>4, LifecycleAssumption DEF Source, Goes, DemoPlan
  <2> QED
    BY <1>3, <1>4, <2>1 DEF Jobs
<1>5. ASSUME job \in {"import", "reset+import"}, file \in Catalogues, Goes("seeding", Plan(file))
      PROVE  Standing'
  <2>1. PICK c \in Catalogues : c = file
    BY <1>5
  <2>2. Source' = c /\ Goes("seeding", Plan(c))
    BY <1>5, <2>1 DEF Source, Goes
  <2> QED
    BY <1>3, <1>5, <2>2 DEF Jobs
<1> QED
  BY <1>1, <1>2, <1>4, <1>5

LEMMA ResettingOn ==
    ASSUME NEW s \in Remaining
    PROVE  /\ s # <<>> /\ Len(s) \in 1..4
           /\ Len(s) # 1 => Tail(s) \in Remaining /\ Len(Tail(s)) = Len(s) - 1
           /\ Len(s) = 4 => Head(s) = "tools"
           /\ Len(s) = 3 => Head(s) = "examples"
           /\ Len(s) = 2 => Head(s) = "intents"
           /\ Len(s) = 1 => Head(s) = "domains"
<1>1. CASE s = <<"tools", "examples", "intents", "domains">>
  <2>1. Tail(s) = <<"examples", "intents", "domains">> /\ Len(s) = 4 /\ Head(s) = "tools"
    BY <1>1
  <2> QED BY <1>1, <2>1 DEF Remaining
<1>2. CASE s = <<"examples", "intents", "domains">>
  <2>1. Tail(s) = <<"intents", "domains">> /\ Len(s) = 3 /\ Head(s) = "examples"
    BY <1>2
  <2> QED BY <1>2, <2>1 DEF Remaining
<1>3. CASE s = <<"intents", "domains">>
  <2>1. Tail(s) = <<"domains">> /\ Len(s) = 2 /\ Head(s) = "intents"
    BY <1>3
  <2> QED BY <1>3, <2>1 DEF Remaining
<1>4. CASE s = <<"domains">>
  BY <1>4
<1> QED
  BY <1>1, <1>2, <1>3, <1>4 DEF Remaining

LEMMA TypedStep == Typed /\ NoOrphans /\ [Next]_vars => Typed'
<1> SUFFICES ASSUME Typed, NoOrphans, [Next]_vars PROVE Typed'
  OBVIOUS
<1> USE DEF Typed
<1>1. CASE Boot
  BY <1>1, ListedSeq, GoesTyped DEF Boot, Start, Standing, Places, Jobs
<1>2. CASE BeginExport
  BY <1>2, GoesTyped DEF BeginExport, Start, Standing, Places, Jobs
<1>3. CASE BeginScript
  BY <1>3, GoesTyped DEF BeginScript, Start, Standing, Places, Jobs, Resetting, ResetOrder, Remaining
<1>4. CASE CheckEmpty
  <2>1. job' \in Jobs /\ UNCHANGED <<store, memory, file>>
    BY <1>4 DEF CheckEmpty, Goes, Standing, Jobs
  <2>2. Standing'
    BY <1>4, <2>1, MovesOn DEF CheckEmpty, Standing
  <2> QED
    BY <2>1, <2>2, GoesTyped
<1>5. ASSUME at = "seeding", todo # <<>>, Goes("seeding", Tail(todo)), UNCHANGED file,
             domains' \in [Domains -> DomainRow \cup {Nil}],
             intents' \in [Intents -> IntentRow \cup {Nil}],
             examples' \subseteq Stored, UNCHANGED tools,
             DOMAIN index' = Domains, dirty' \subseteq Domains, torn' \subseteq Domains,
             \A d \in Domains : index'[d] = Nil \/ index'[d] \subseteq Stored
      PROVE  Typed'
  <2>1. Standing'
    BY <1>5, MovesOn
  <2>2. job \in Jobs /\ job' = job
    BY <1>5 DEF Standing, Goes
  <2>3. job # Nil
    BY <2>2, NilAssumption DEF Jobs
  <2> QED
    BY <1>5, <2>1, <2>2, <2>3 DEF TypeOK, HasIntent
<1>6. CASE SeedDomain
  <2>1. domains' \in [Domains -> DomainRow \cup {Nil}]
    BY <1>6, EntryShape, RowTypes DEF SeedDomain, Call, Entry, TypeOK
  <2> QED
    BY <1>5, <1>6, <2>1 DEF SeedDomain, Call, memory, TypeOK
<1>7. CASE SeedIntent
  <2>1. intents' \in [Intents -> IntentRow \cup {Nil}]
    BY <1>7, EntryShape, RowTypes DEF SeedIntent, Call, Entry, TypeOK
  <2>2. DomainOf(Entry.of) \in Domains
    BY <1>7, EntryShape DEF SeedIntent, Call, Entry
  <2>3. /\ DOMAIN index' = Domains /\ dirty' \subseteq Domains /\ torn' \subseteq Domains
        /\ \A d \in Domains : index'[d] = Nil \/ index'[d] \subseteq Stored
    <3>1. CASE UNCHANGED memory
      BY <3>1 DEF memory, TypeOK
    <3>2. CASE Rebuilt(DomainOf(Entry.of), examples, intents')
      BY <2>2, <3>2, RebuiltTyped DEF TypeOK
    <3> QED
      BY <1>7, <3>1, <3>2 DEF SeedIntent
  <2> QED
    BY <1>5, <1>7, <2>1, <2>3 DEF SeedIntent, Call, TypeOK
<1>8. CASE SeedExample
  <2>1. examples' \subseteq Stored
    BY <1>8, EntryShape DEF SeedExample, Call, Entry, TypeOK
  <2>2. DomainOf(Entry.of[1]) \in Domains
    BY <1>8, EntryShape DEF SeedExample, Call, Entry
  <2>3. /\ DOMAIN index' = Domains /\ dirty' \subseteq Domains /\ torn' \subseteq Domains
        /\ \A d \in Domains : index'[d] = Nil \/ index'[d] \subseteq Stored
    <3>1. CASE UNCHANGED memory
      BY <3>1 DEF memory, TypeOK
    <3>2. CASE Rebuilt(DomainOf(Entry.of[1]), examples', intents)
      BY <2>1, <2>2, <3>2, RebuiltTyped
    <3> QED
      BY <1>8, <3>1, <3>2 DEF SeedExample
  <2> QED
    BY <1>5, <1>8, <2>1, <2>3 DEF SeedExample, Call, TypeOK
<1>9. CASE SeedRebuild
  <2>1. Entry.of \in Domains /\ examples \subseteq Stored
    BY <1>9, EntryShape DEF SeedRebuild, Call, Entry, TypeOK
  <2>2. /\ DOMAIN index' = Domains /\ dirty' \subseteq Domains /\ torn' \subseteq Domains
        /\ \A d \in Domains : index'[d] = Nil \/ index'[d] \subseteq Stored
    BY <1>9, <2>1, RebuiltTyped DEF SeedRebuild
  <2> QED
    BY <1>5, <1>9, <2>2 DEF SeedRebuild, Call, store, TypeOK
<1>10. CASE Seeded
  <2>1. job' \in Jobs /\ UNCHANGED <<store, memory, file>>
    BY <1>10 DEF Seeded, Goes, Jobs
  <2> QED
    BY <1>10, <2>1, MovesOn, GoesTyped DEF Seeded
<1>11. CASE Warm
  <2>1. Head(todo) \in Domains /\ Tail(todo) \in Seq(Domains) /\ job = "server"
    BY <1>11, TailFacts DEF Warm, Standing
  <2>2. /\ DOMAIN index' = Domains /\ dirty' \subseteq Domains /\ torn' \subseteq Domains
        /\ \A d \in Domains : index'[d] = Nil \/ index'[d] \subseteq Stored
    <3>1. CASE UNCHANGED memory
      BY <3>1 DEF memory, TypeOK
    <3>2. CASE Rebuilt(Head(todo), examples, intents)
      BY <2>1, <3>2, RebuiltTyped DEF TypeOK
    <3> QED
      BY <1>11, <3>1, <3>2 DEF Warm
  <2>3. Standing'
    BY <1>11, <2>1 DEF Warm, Goes, Standing, Places
  <2> QED
    BY <1>11, <2>1, <2>2, <2>3, NilAssumption DEF Warm, Goes, TypeOK, store, HasIntent
<1>12. CASE Ready
  <2>1. job' \in Jobs /\ UNCHANGED <<store, memory, file>>
    BY <1>12 DEF Ready, Goes, Standing, Jobs
  <2>2. Standing'
    BY <1>12 DEF Ready, Goes, Standing, Places
  <2> QED
    BY <2>1, <2>2, GoesTyped
<1>13. CASE Export
  BY <1>13, ExportFits, EndsTyped DEF Export
<1>14. CASE Reset
  <2>1. Standing'
    <3>1. todo \in Remaining /\ job \in Resetting
      BY <1>14 DEF Reset, Standing
    <3>2. CASE Len(todo) = 1
      BY <1>14, <3>1, <3>2 DEF Reset, Standing, Goes, Places, Resetting, Jobs
    <3>3. CASE Len(todo) # 1
      BY <1>14, <3>1, <3>3, ResettingOn DEF Reset, Standing, Goes, Places
    <3> QED
      BY <3>2, <3>3
  <2>2. /\ examples' \subseteq Stored /\ tools' \in BOOLEAN
        /\ intents' \in [Intents -> IntentRow \cup {Nil}]
        /\ domains' \in [Domains -> DomainRow \cup {Nil}]
    BY <1>14 DEF Reset, TypeOK
  <2>3. job' = job /\ job \in Jobs /\ job # Nil
    BY <1>14, NilAssumption DEF Reset, Goes, Standing, Resetting, Jobs
  <2> QED
    BY <1>14, <2>1, <2>2, <2>3 DEF Reset, TypeOK, memory, HasIntent
<1>15. CASE ReadPlan
  <2>1. CASE Ends
    BY <1>15, <2>1, EndsTyped DEF ReadPlan, TypeOK
  <2>2. CASE ~Ends
    <3>1. job' \in Jobs /\ UNCHANGED <<store, memory, file>>
      BY <1>15, <2>2 DEF ReadPlan, Goes, Standing
    <3>2. Standing'
      BY <1>15, <2>2, MovesOn DEF ReadPlan, Standing, Jobs, TypeOK
    <3> QED
      BY <3>1, <3>2, GoesTyped
  <2> QED
    BY <2>1, <2>2
<1>16. CASE ScriptDone
  BY <1>16, EndsTyped DEF ScriptDone, TypeOK
<1>17. CASE Request
  <2>1. at = "ready" /\ job = "server" /\ UNCHANGED <<process, file>>
    BY <1>17 DEF Request, AddDomain, RemoveDomain, SetIntent, RemoveIntent, RemoveExample,
      RegisterTools, Edit, Standing
  <2>2. Standing'
    BY <2>1 DEF process, Standing, Source
  <2>3. job # Nil
    BY <2>1, NilAssumption
  <2>4. ASSUME domains' \in [Domains -> DomainRow \cup {Nil}],
               intents' \in [Intents -> IntentRow \cup {Nil}],
               examples' \subseteq Stored, tools' \in BOOLEAN,
               DOMAIN index' = Domains, dirty' \subseteq Domains, torn' \subseteq Domains,
               \A d \in Domains : index'[d] = Nil \/ index'[d] \subseteq Stored
        PROVE  Typed'
    BY <2>1, <2>2, <2>3, <2>4 DEF TypeOK, process, HasIntent
  <2>5. ASSUME NEW d \in Domains, NEW e, NEW i, e \subseteq Stored, Reindexed(d, e, i)
        PROVE  /\ DOMAIN index' = Domains /\ dirty' \subseteq Domains /\ torn' \subseteq Domains
               /\ \A b \in Domains : index'[b] = Nil \/ index'[b] \subseteq Stored
    <3>1. CASE Rebuilt(d, e, i)
      BY <2>5, <3>1, RebuiltTyped
    <3>2. CASE dirty' = dirty \cup {d} /\ UNCHANGED <<index, torn>>
      BY <3>2 DEF TypeOK
    <3> QED
      BY <2>5, <3>1, <3>2 DEF Reindexed
  <2>11. ASSUME NEW d \in Domains, Torn(d)
         PROVE  /\ DOMAIN index' = Domains /\ dirty' \subseteq Domains /\ torn' \subseteq Domains
                /\ \A b \in Domains : index'[b] = Nil \/ index'[b] \subseteq Stored
    BY <2>11 DEF Torn, TypeOK
  <2>12. ASSUME NEW d \in Domains PROVE IntentsWithout(d) \in [Intents -> IntentRow \cup {Nil}]
    BY DEF IntentsWithout, TypeOK
  <2>6. CASE AddDomain
    BY <2>4, <2>6, RowTypes DEF AddDomain, TypeOK, memory
  <2>7. CASE RemoveDomain
    <3>1. PICK d \in Domains :
            /\ examples' = examples \ ExamplesOf(d)
            /\ \/ /\ intents' = IntentsWithout(d)
                  /\ domains' = [domains EXCEPT ![d] = Nil]
                  /\ index' = [index EXCEPT ![d] = Nil]
                  /\ dirty' = dirty \ {d} /\ torn' = torn \ {d}
               \/ intents' \in {intents, IntentsWithout(d)} /\ UNCHANGED domains /\ Torn(d)
            /\ UNCHANGED tools
      BY <2>7 DEF RemoveDomain
    <3>2. intents' \in [Intents -> IntentRow \cup {Nil}] /\ examples' \subseteq Stored
      BY <2>12, <3>1 DEF TypeOK
    <3>3. CASE /\ domains' = [domains EXCEPT ![d] = Nil]
               /\ index' = [index EXCEPT ![d] = Nil]
               /\ dirty' = dirty \ {d} /\ torn' = torn \ {d}
      BY <2>4, <3>1, <3>2, <3>3 DEF TypeOK
    <3>4. CASE UNCHANGED domains /\ Torn(d)
      BY <2>4, <2>11, <3>1, <3>2, <3>4 DEF TypeOK
    <3> QED
      BY <3>1, <3>3, <3>4
  <2>13. CASE RemoveIntent
    <3>1. PICK i \in Intents :
            /\ examples' = examples \ TextsOf(i)
            /\ \/ /\ intents' = [intents EXCEPT ![i] = Nil]
                  /\ Reindexed(DomainOf(i), examples', intents')
               \/ UNCHANGED intents /\ Torn(DomainOf(i))
      BY <2>13 DEF RemoveIntent
    <3>2. DomainOf(i) \in Domains /\ examples' \subseteq Stored
      BY <3>1, LifecycleAssumption DEF TypeOK
    <3>3. intents' \in [Intents -> IntentRow \cup {Nil}]
      BY <3>1 DEF TypeOK
    <3>4. UNCHANGED <<domains, tools>>
      BY <2>13 DEF RemoveIntent
    <3> QED
      BY <2>4, <2>5, <2>11, <3>1, <3>2, <3>3, <3>4 DEF TypeOK
  <2>8. CASE SetIntent
    <3>1. PICK i \in Intents, status \in {"active", "inactive"}, b \in BOOLEAN :
            /\ HasIntent(i)
            /\ intents' = [intents EXCEPT ![i].status = status, ![i].bound = b /\ tools]
            /\ Reindexed(DomainOf(i), examples, intents') \/ Torn(DomainOf(i))
      BY <2>8 DEF SetIntent
    <3>2. intents[i] \in IntentRow /\ DomainOf(i) \in Domains
      BY <3>1, LifecycleAssumption DEF TypeOK, HasIntent
    <3>3. intents' \in [Intents -> IntentRow \cup {Nil}]
      BY <3>1, <3>2 DEF TypeOK, IntentRow
    <3> QED
      BY <2>4, <2>5, <2>8, <2>11, <3>1, <3>2, <3>3 DEF SetIntent, TypeOK
  <2>9. CASE RemoveExample
    <3>1. PICK e \in examples :
            examples' = examples \ {e} /\ Reindexed(DomainOf(e[1]), examples', intents)
      BY <2>9 DEF RemoveExample
    <3>2. DomainOf(e[1]) \in Domains /\ examples' \subseteq Stored
      BY <3>1, LifecycleAssumption DEF TypeOK, Stored
    <3> QED
      BY <2>4, <2>5, <2>9, <3>1, <3>2 DEF RemoveExample, TypeOK
  <2>10. CASE RegisterTools
    BY <2>4, <2>10 DEF RegisterTools, TypeOK, memory
  <2> QED
    BY <1>17, <2>6, <2>7, <2>8, <2>9, <2>10, <2>13 DEF Request
<1>18. CASE Shutdown
  BY <1>18, EndsTyped DEF Shutdown, TypeOK
<1>19. ASSUME WriteHalf, at = "seeding"
       PROVE  /\ domains' \in [Domains -> DomainRow \cup {Nil}]
              /\ intents' \in [Intents -> IntentRow \cup {Nil}]
              /\ examples' \subseteq Stored /\ UNCHANGED tools
              /\ Target \in Domains
  <2>1. CASE Call("intent")
    BY <1>19, <2>1, EntryShape, RowTypes DEF WriteHalf, Call, Entry, Target, TypeOK, store
  <2>2. CASE Call("example")
    BY <1>19, <2>2, EntryShape DEF WriteHalf, Call, Entry, Target, TypeOK, store
  <2>3. CASE Call("rebuild")
    BY <1>19, <2>3, EntryShape DEF WriteHalf, Call, Entry, Target, TypeOK, store
  <2> QED
    BY <1>19, <2>1, <2>2, <2>3 DEF WriteHalf
<1>20. CASE FailStartupSeeding
  <2>1. Standing'
    BY <1>20, MovesOn DEF FailStartupSeeding
  <2>2. CASE UNCHANGED <<store, memory>>
    BY <1>20, <2>1, <2>2, GoesTyped DEF FailStartupSeeding, Goes, Jobs
  <2>3. CASE WriteHalf /\ dirty' = dirty \cup {Target} /\ UNCHANGED <<index, torn>>
    <3>1. at = "seeding"
      BY <2>3 DEF WriteHalf, Call
    <3>2. job' = "server" /\ UNCHANGED file
      BY <1>20 DEF FailStartupSeeding, Goes
    <3> QED
      BY <1>19, <2>1, <2>3, <3>1, <3>2, NilAssumption DEF TypeOK, Jobs, HasIntent
  <2> QED
    BY <1>20, <2>2, <2>3 DEF FailStartupSeeding
<1>21. CASE FailWarm
  BY <1>21, EndsTyped DEF FailWarm, TypeOK
<1>22. CASE FailScript
  <2>1. CASE UNCHANGED store
    BY <1>22, <2>1, EndsTyped DEF FailScript, TypeOK
  <2>2. CASE WriteHalf
    <3>1. at = "seeding"
      BY <2>2 DEF WriteHalf, Call
    <3> QED
      BY <1>19, <1>22, <2>2, <3>1 DEF FailScript, Ends, TypeOK, Standing, Places, NoIndex, HasIntent
  <2> QED
    BY <1>22, <2>1, <2>2 DEF FailScript
<1>23. CASE Crash
  BY <1>23, EndsTyped DEF Crash, TypeOK
<1>24. CASE UNCHANGED vars
  BY <1>24 DEF vars, store, memory, process, counters, TypeOK, Standing, HasIntent, Source
<1> QED
  BY <1>1, <1>2, <1>3, <1>4, <1>6, <1>7, <1>8, <1>9, <1>10, <1>11, <1>12, <1>13, <1>14, <1>15,
     <1>16, <1>17, <1>18, <1>20, <1>21, <1>22, <1>23, <1>24 DEF Next, Proceed

-----------------------------------------------------------------------------
(* No row outlives its parent.                                             *)

HasParent(c) ==
    /\ c.call = "intent" => HasDomain(DomainOf(c.of))
    /\ c.call = "example" => HasIntent(c.of[1])
    /\ c.call = "rebuild" => HasDomain(c.of)

\* What is still to be seeded hangs from what is there or comes first.
Rooted ==
    at = "seeding" =>
        \A k \in DOMAIN todo :
            HasParent(todo[k]) \/ \E j \in 1..(k - 1) : Provides(todo[j], todo[k])

\* What a reset has emptied so far.
Emptied ==
    /\ at = "resetting" =>
         /\ Len(todo) <= 2 => examples = {}
         /\ Len(todo) = 1 => \A i \in Intents : ~HasIntent(i)
    /\ at = "reading" /\ job \in Resetting =>
         /\ examples = {}
         /\ \A i \in Intents : ~HasIntent(i)
         /\ \A d \in Domains : ~HasDomain(d)

RootInv == NoOrphans /\ Rooted /\ Emptied

LEMMA EntryRooted ==
    ASSUME Standing, Rooted, at = "seeding", todo # <<>>
    PROVE  HasParent(Entry)
<1>1. todo \in Seq(Calls(Source))
  BY DEF Standing
<1>2. 1 \in DOMAIN todo /\ Entry = todo[1]
  BY <1>1, TailFacts DEF Entry
<1> QED
  BY <1>2 DEF Rooted

LEMMA RootedOn ==
    ASSUME Standing, Rooted, at = "seeding", todo # <<>>, Goes("seeding", Tail(todo)),
           \A d \in Domains : HasDomain(d) => domains'[d] # Nil,
           \A i \in Intents : HasIntent(i) => intents'[i] # Nil,
           Entry.call = "domain" => domains'[Entry.of] # Nil,
           Entry.call = "intent" => intents'[Entry.of] # Nil
    PROVE  Rooted'
<1>1. todo \in Seq(Calls(Source)) /\ Source \in Catalogues /\ todo' = Tail(todo)
  BY DEF Standing, Goes
<1>2. Entry = todo[1]
  BY <1>1, TailFacts DEF Entry
<1> DEFINE HasParentNext(c) ==
              /\ c.call = "intent" => domains'[DomainOf(c.of)] # Nil
              /\ c.call = "example" => intents'[c.of[1]] # Nil
              /\ c.call = "rebuild" => domains'[c.of] # Nil
<1>20. \A k \in DOMAIN todo' : HasParent(todo[k])' <=> HasParentNext(todo'[k])
  BY DEF HasParent, HasDomain, HasIntent
<1>21. \A j, k \in DOMAIN todo' : Provides(todo[j], todo[k])' <=> Provides(todo'[j], todo'[k])
  BY DEF Provides
<1>3. SUFFICES ASSUME NEW k \in DOMAIN Tail(todo)
               PROVE  \/ HasParentNext(Tail(todo)[k])
                      \/ \E j \in 1..(k - 1) : Provides(Tail(todo)[j], Tail(todo)[k])
  <2> HIDE DEF HasParentNext
  <2>1. SUFFICES ASSUME at' = "seeding", NEW k \in DOMAIN todo'
                 PROVE  \/ HasParent(todo[k])'
                        \/ \E j \in 1..(k - 1) : Provides(todo[j], todo[k])'
    BY DEF Rooted
  <2>2. CASE HasParentNext(Tail(todo)[k])
    BY <1>1, <1>20, <2>1, <2>2
  <2>3. ASSUME NEW j \in 1..(k - 1), Provides(Tail(todo)[j], Tail(todo)[k])
        PROVE  Provides(todo[j], todo[k])'
    BY <1>1, <2>3 DEF Provides
  <2> QED
    BY <1>1, <2>1, <2>2, <2>3
<1>4. Len(todo) \in Nat /\ DOMAIN todo = 1..Len(todo) /\ k \in Nat
  <2>1. Tail(todo) \in Seq(Calls(Source))
    BY <1>1, TailFacts
  <2> QED
    BY <1>1, <2>1
<1>5. k + 1 \in DOMAIN todo /\ Tail(todo)[k] = todo[k + 1]
  BY <1>1, TailFacts
<1> DEFINE x == todo[k + 1]
<1>6. /\ x.call = "intent" => DomainOf(x.of) \in Domains
      /\ x.call = "example" => x.of[1] \in Intents
      /\ x.call = "rebuild" => x.of \in Domains
  <2>1. x \in Calls(Source)
    BY <1>1, <1>5
  <2> QED
    BY <1>1, <2>1, CallShape, LifecycleAssumption
<1>7. CASE HasParent(x)
  BY <1>5, <1>6, <1>7 DEF HasParent, HasDomain, HasIntent
<1>8. ASSUME NEW j \in 1..((k + 1) - 1), Provides(todo[j], x)
      PROVE  \/ HasParentNext(Tail(todo)[k])
             \/ \E l \in 1..(k - 1) : Provides(Tail(todo)[l], Tail(todo)[k])
  <2>1. CASE j = 1
    <3>1. Provides(Entry, x)
      BY <1>2, <1>8, <2>1
    <3> QED
      BY <1>5, <3>1 DEF Provides
  <2>2. CASE j # 1
    <3>1. j - 1 \in 1..(k - 1) /\ j \in DOMAIN todo
      BY <1>4, <1>5, <2>2
    <3>2. Tail(todo)[j - 1] = todo[j]
      BY <1>1, <2>2, <3>1, TailFacts
    <3> QED
      BY <1>5, <1>8, <3>1, <3>2
  <2> QED
    BY <2>1, <2>2
<1> QED
  BY <1>5, <1>7, <1>8 DEF Rooted

LEMMA PlanRooted ==
    ASSUME NEW c \in Catalogues, Goes("seeding", Plan(c))
    PROVE  Rooted'
<1>1. Provided(Plan(c), DomainCalls(c)) /\ todo' = Plan(c)
  BY PlanSound DEF Goes
<1>2. \A x \in DomainCalls(c) : x.call = "domain"
  BY DEF DomainCalls
<1> QED
  BY <1>1, <1>2 DEF Rooted, Provided, HasParent, Provides

LEMMA WriteHalfRoots ==
    ASSUME Typed, RootInv, WriteHalf
    PROVE  /\ NoOrphans'
           /\ \A d \in Domains : HasDomain(d) => domains'[d] # Nil
<1>1. at = "seeding" /\ todo # <<>>
  BY DEF WriteHalf, Call
<1>2. HasParent(Entry)
  BY <1>1, EntryRooted DEF Typed, RootInv
<1>3. CASE Call("intent")
  <2>1. Entry.of \in Intents /\ HasDomain(DomainOf(Entry.of)) /\ Entry.content \in Contents
    BY <1>1, <1>2, <1>3, EntryShape DEF Call, Entry, HasParent, Typed
  <2>2. NewIntent(Entry.content) # Nil
    BY <2>1, RowTypes, NilAssumption
  <2>3. /\ intents' = [intents EXCEPT ![Entry.of] = NewIntent(Entry.content)]
        /\ UNCHANGED <<domains, examples>>
    BY <1>3 DEF WriteHalf, Call, Entry
  <2>4. /\ \A i \in Intents : HasIntent(i) => intents'[i] # Nil
        /\ \A i \in Intents : intents'[i] # Nil => HasIntent(i) \/ i = Entry.of
    BY <2>1, <2>2, <2>3 DEF HasIntent, Typed, TypeOK
  <2>5. NoOrphans'
    BY <2>1, <2>3, <2>4 DEF RootInv, NoOrphans, HasIntent, HasDomain, Typed, TypeOK, Stored
  <2> QED
    BY <2>3, <2>5 DEF HasDomain
<1>4. CASE Call("example")
  <2>1. Entry.of \in Stored /\ HasIntent(Entry.of[1])
    BY <1>1, <1>2, <1>4, EntryShape DEF Call, Entry, HasParent, Typed
  <2> QED
    BY <1>4, <2>1
    DEF WriteHalf, Call, Entry, RootInv, NoOrphans, HasIntent, HasDomain, Typed, TypeOK, store
<1>5. CASE Call("rebuild")
  BY <1>5 DEF WriteHalf, Call, Entry, RootInv, NoOrphans, HasIntent, HasDomain, store
<1> QED
  BY <1>3, <1>4, <1>5 DEF WriteHalf

LEMMA RootStep == Typed /\ RootInv /\ [Next]_vars => RootInv'
<1> SUFFICES ASSUME Typed, RootInv, [Next]_vars PROVE RootInv'
  OBVIOUS
<1>1. ASSUME UNCHANGED store PROVE NoOrphans'
  BY <1>1 DEF store, RootInv, NoOrphans, HasIntent, HasDomain
<1>2. ASSUME NoOrphans', at' \notin {"seeding", "resetting", "reading"} PROVE RootInv'
  BY <1>2 DEF RootInv, Rooted, Emptied
<1>3. CASE Boot \/ BeginExport
  BY <1>1, <1>2, <1>3 DEF Boot, BeginExport, Start
<1>4. CASE BeginScript
  BY <1>1, <1>4 DEF BeginScript, Start, RootInv, Rooted, Emptied, ResetOrder, Resetting
<1>5. CASE CheckEmpty
  <2>1. NoOrphans'
    BY <1>1, <1>5 DEF CheckEmpty
  <2>2. CASE Goes("warming", Listed)
    BY <1>2, <2>1, <2>2 DEF Goes
  <2>3. CASE Goes("seeding", DemoPlan)
    <3>1. Rooted'
      BY <2>3, PlanRooted, LifecycleAssumption DEF DemoPlan
    <3> QED
      BY <2>1, <2>3, <3>1 DEF RootInv, Emptied, Goes
  <2> QED
    BY <1>5, <2>2, <2>3 DEF CheckEmpty
<1>6. ASSUME at = "seeding", todo # <<>>, Goes("seeding", Tail(todo)), NoOrphans',
             \A d \in Domains : HasDomain(d) => domains'[d] # Nil,
             \A i \in Intents : HasIntent(i) => intents'[i] # Nil,
             Entry.call = "domain" => domains'[Entry.of] # Nil,
             Entry.call = "intent" => intents'[Entry.of] # Nil
      PROVE  RootInv'
  <2>1. Rooted'
    BY <1>6, RootedOn DEF Typed, RootInv
  <2> QED
    BY <1>6, <2>1 DEF RootInv, Emptied, Goes
<1>7. CASE SeedDomain
  <2>1. at = "seeding" /\ todo # <<>> /\ Entry.call = "domain" /\ Goes("seeding", Tail(todo))
    BY <1>7 DEF SeedDomain, Call, Entry
  <2>2. Entry.of \in Domains /\ Entry.content \in Contents
    BY <2>1, EntryShape DEF Typed
  <2>3. [content |-> Entry.content, status |-> "active"] # Nil
    BY <2>2, RowTypes, NilAssumption
  <2>4. /\ \A d \in Domains : HasDomain(d) => domains'[d] # Nil
        /\ domains'[Entry.of] # Nil
        /\ UNCHANGED <<intents, examples>>
    BY <1>7, <2>2, <2>3 DEF SeedDomain, HasDomain, Typed, TypeOK
  <2>5. NoOrphans'
    BY <2>4, LifecycleAssumption DEF RootInv, NoOrphans, HasIntent, HasDomain
  <2> QED
    BY <1>6, <2>1, <2>4, <2>5 DEF HasIntent
<1>8. CASE SeedIntent
  <2>1. at = "seeding" /\ todo # <<>> /\ Entry.call = "intent" /\ Goes("seeding", Tail(todo))
    BY <1>8 DEF SeedIntent, Call, Entry
  <2>2. Entry.of \in Intents /\ Entry.content \in Contents
    BY <2>1, EntryShape DEF Typed
  <2>3. HasDomain(DomainOf(Entry.of))
    BY <2>1, EntryRooted DEF Typed, RootInv, HasParent
  <2>4. NewIntent(Entry.content) # Nil
    BY <2>2, RowTypes, NilAssumption
  <2>5. /\ \A i \in Intents : HasIntent(i) => intents'[i] # Nil
        /\ \A i \in Intents : intents'[i] # Nil => HasIntent(i) \/ i = Entry.of
        /\ intents'[Entry.of] # Nil
        /\ UNCHANGED <<domains, examples>>
    BY <1>8, <2>2, <2>4 DEF SeedIntent, HasIntent, Typed, TypeOK
  <2>6. NoOrphans'
    BY <2>3, <2>5 DEF RootInv, NoOrphans, HasIntent, HasDomain, Typed, TypeOK, Stored
  <2> QED
    BY <1>6, <2>1, <2>5, <2>6 DEF HasDomain
<1>9. CASE SeedExample
  <2>1. at = "seeding" /\ todo # <<>> /\ Entry.call = "example" /\ Goes("seeding", Tail(todo))
    BY <1>9 DEF SeedExample, Call, Entry
  <2>2. HasIntent(Entry.of[1])
    BY <2>1, EntryRooted DEF Typed, RootInv, HasParent
  <2>3. examples' \subseteq examples \cup {Entry.of} /\ UNCHANGED <<domains, intents>>
    BY <1>9 DEF SeedExample
  <2>4. NoOrphans'
    BY <2>2, <2>3 DEF RootInv, NoOrphans, HasIntent, HasDomain
  <2> QED
    BY <1>6, <2>1, <2>3, <2>4 DEF HasDomain, HasIntent
<1>10. CASE SeedRebuild
  <2>1. at = "seeding" /\ todo # <<>> /\ Entry.call = "rebuild" /\ Goes("seeding", Tail(todo))
    BY <1>10 DEF SeedRebuild, Call, Entry
  <2>2. NoOrphans' /\ UNCHANGED store
    BY <1>1, <1>10 DEF SeedRebuild
  <2> QED
    BY <1>6, <2>1, <2>2 DEF HasDomain, HasIntent, store
<1>11. CASE Seeded \/ Warm \/ Ready \/ Export \/ ScriptDone \/ Shutdown \/ FailWarm \/ Crash
  BY <1>1, <1>2, <1>11
  DEF Seeded, Warm, Ready, Export, ScriptDone, Shutdown, FailWarm, Crash, Ends, Goes, store
<1>12. CASE Reset
  <2>1. at = "resetting" /\ todo \in Remaining /\ Emptied /\ NoOrphans
    BY <1>12 DEF Reset, Typed, Standing, RootInv
  <2>2. CASE Len(todo) = 1
    BY <1>12, <2>1, <2>2, ResettingOn
    DEF Reset, Goes, Emptied, RootInv, Rooted, NoOrphans, HasIntent, HasDomain
  <2>3. CASE Len(todo) # 1
    <3>1. Goes("resetting", Tail(todo)) /\ Len(Tail(todo)) = Len(todo) - 1 /\ Len(todo) \in 2..4
      BY <1>12, <2>1, <2>3, ResettingOn DEF Reset
    <3>2. UNCHANGED domains
      <4>1. Head(todo) # "domains"
        BY <2>1, <3>1, ResettingOn
      <4> QED
        BY <1>12, <4>1 DEF Reset
    <3>3. at' = "resetting" /\ todo' = Tail(todo) /\ Len(todo') = Len(todo) - 1
      <4>1. at' = "resetting" /\ todo' = Tail(todo)
        BY <3>1 DEF Goes
      <4> QED
        BY <3>1, <4>1
    <3>4. CASE Len(todo) = 4
      <4>1. UNCHANGED <<domains, intents, examples>>
        BY <1>12, <2>1, <3>2, <3>4, ResettingOn DEF Reset
      <4>2. NoOrphans'
        BY <2>1, <4>1 DEF NoOrphans, HasIntent, HasDomain
      <4>3. Len(todo') = 3
        BY <3>3, <3>4
      <4>4. Emptied'
        <5>1. at' = "resetting"
          BY <3>3
        <5>2. ~(Len(todo') <= 2) /\ Len(todo') # 1
          BY <4>3
        <5> QED
          BY <5>1, <5>2, Zenon DEF Emptied
      <4>5. Rooted'
        BY <3>3 DEF Rooted
      <4> QED
        BY <4>2, <4>4, <4>5 DEF RootInv
    <3>5. CASE Len(todo) = 3
      <4>1. UNCHANGED <<domains, intents>> /\ examples' = {}
        BY <1>12, <2>1, <3>2, <3>5, ResettingOn DEF Reset
      <4>2. NoOrphans'
        BY <2>1, <4>1 DEF NoOrphans, HasIntent, HasDomain
      <4> QED
        BY <3>3, <3>5, <4>1, <4>2 DEF RootInv, Rooted, Emptied
    <3>6. CASE Len(todo) = 2
      <4>1. UNCHANGED <<domains, examples>> /\ intents' = [i \in Intents |-> Nil] /\ examples = {}
        BY <1>12, <2>1, <3>2, <3>6, ResettingOn DEF Reset, Emptied
      <4>2. NoOrphans'
        BY <4>1 DEF NoOrphans, HasIntent, HasDomain
      <4> QED
        BY <3>3, <3>6, <4>1, <4>2 DEF RootInv, Rooted, Emptied, HasIntent
    <3> QED
      BY <3>1, <3>4, <3>5, <3>6
  <2> QED
    BY <2>2, <2>3
<1>13. CASE ReadPlan
  <2>1. NoOrphans'
    BY <1>1, <1>13 DEF ReadPlan
  <2>2. CASE Ends
    BY <1>2, <2>1, <2>2 DEF Ends
  <2>3. CASE Goes("seeding", Plan(file)) /\ file \notin {Nil, Broken}
    <3>1. file \in Catalogues
      BY <2>3 DEF Typed, TypeOK
    <3>2. Rooted'
      BY <2>3, <3>1, PlanRooted
    <3> QED
      BY <2>1, <2>3, <3>2 DEF RootInv, Emptied, Goes
  <2>4. CASE Goes("seeding", DemoPlan)
    <3>1. Rooted'
      BY <2>4, PlanRooted, LifecycleAssumption DEF DemoPlan
    <3> QED
      BY <2>1, <2>4, <3>1 DEF RootInv, Emptied, Goes
  <2> QED
    BY <1>13, <2>2, <2>3, <2>4 DEF ReadPlan
<1>14. CASE Request
  <2>1. at' = "ready"
    BY <1>14 DEF Request, AddDomain, RemoveDomain, SetIntent, RemoveIntent, RemoveExample,
      RegisterTools, Edit, process
  <2>2. CASE AddDomain
    <3>1. PICK d \in Domains, c \in Contents :
            domains' = [domains EXCEPT ![d] = [content |-> c, status |-> "active"]]
      BY <2>2 DEF AddDomain
    <3>2. UNCHANGED <<intents, examples>>
      BY <2>2 DEF AddDomain
    <3>3. \A b \in Domains : HasDomain(b) => domains'[b] # Nil
      BY <3>1, RowTypes, NilAssumption DEF HasDomain, Typed, TypeOK
    <3>4. NoOrphans'
      BY <3>2, <3>3, LifecycleAssumption DEF RootInv, NoOrphans, HasIntent, HasDomain
    <3> QED
      BY <1>2, <2>1, <3>4
  <2>3. CASE RemoveDomain
    <3>1. PICK d \in Domains :
            /\ examples' = examples \ ExamplesOf(d)
            /\ \/ intents' = IntentsWithout(d) /\ domains' = [domains EXCEPT ![d] = Nil]
               \/ intents' \in {intents, IntentsWithout(d)} /\ UNCHANGED domains
      BY <2>3 DEF RemoveDomain
    <3>2. ASSUME NEW e \in examples' PROVE intents'[e[1]] # Nil
      <4>1. e \in examples /\ DomainOf(e[1]) # d /\ e[1] \in Intents /\ HasIntent(e[1])
        BY <3>1, <3>2 DEF ExamplesOf, RootInv, NoOrphans, Typed, TypeOK, Stored
      <4> QED
        BY <3>1, <4>1 DEF HasIntent, IntentsWithout
    <3>3. ASSUME NEW i \in Intents, intents'[i] # Nil PROVE domains'[DomainOf(i)] # Nil
      <4>1. HasIntent(i)
        BY <3>1, <3>3 DEF HasIntent, IntentsWithout
      <4>2. HasDomain(DomainOf(i)) /\ DomainOf(i) \in Domains
        BY <4>1, LifecycleAssumption DEF RootInv, NoOrphans
      <4>3. CASE UNCHANGED domains
        BY <4>2, <4>3 DEF HasDomain
      <4>4. CASE intents' = IntentsWithout(d) /\ domains' = [domains EXCEPT ![d] = Nil]
        <5>1. DomainOf(i) # d
          BY <3>3, <4>4 DEF IntentsWithout
        <5> QED
          BY <4>2, <4>4, <5>1 DEF HasDomain, Typed, TypeOK
      <4> QED
        BY <3>1, <4>3, <4>4
    <3>4. NoOrphans'
      BY <3>2, <3>3 DEF NoOrphans, HasIntent, HasDomain
    <3> QED
      BY <1>2, <2>1, <3>4
  <2>7. CASE RemoveIntent
    <3>1. PICK i \in Intents :
            /\ examples' = examples \ TextsOf(i)
            /\ intents' \in {intents, [intents EXCEPT ![i] = Nil]}
      BY <2>7 DEF RemoveIntent
    <3>2. \A j \in Intents : intents'[j] # Nil => HasIntent(j)
      BY <3>1 DEF HasIntent, Typed, TypeOK
    <3>3. \A e \in examples' : e \in examples /\ e[1] # i /\ e[1] \in Intents
      BY <3>1 DEF TextsOf, Typed, TypeOK, Stored
    <3>4. \A e \in examples' : intents'[e[1]] # Nil
      BY <3>1, <3>3 DEF RootInv, NoOrphans, HasIntent, Typed, TypeOK
    <3>5. UNCHANGED domains
      BY <2>7 DEF RemoveIntent
    <3>6. NoOrphans'
      BY <3>2, <3>4, <3>5 DEF RootInv, NoOrphans, HasIntent, HasDomain
    <3> QED
      BY <1>2, <2>1, <3>6
  <2>4. CASE SetIntent
    <3>1. PICK i \in Intents, status \in {"active", "inactive"}, b \in BOOLEAN :
            /\ HasIntent(i)
            /\ intents' = [intents EXCEPT ![i].status = status, ![i].bound = b /\ tools]
      BY <2>4 DEF SetIntent
    <3>2. \A j \in Intents : j # i => intents'[j] = intents[j]
      BY <3>1 DEF Typed, TypeOK
    <3>3. intents'[i] # Nil
      <4>1. intents[i] \in IntentRow
        BY <3>1 DEF HasIntent, Typed, TypeOK
      <4>2. intents'[i] \in IntentRow
        BY <3>1, <4>1 DEF IntentRow, Typed, TypeOK
      <4> QED
        BY <4>2, NilAssumption
    <3>4. UNCHANGED <<domains, examples>>
      BY <2>4 DEF SetIntent
    <3>5. NoOrphans'
      BY <3>1, <3>2, <3>3, <3>4 DEF RootInv, NoOrphans, HasIntent, HasDomain, Typed, TypeOK, Stored
    <3> QED
      BY <1>2, <2>1, <3>5
  <2>5. CASE RemoveExample
    <3>1. examples' \subseteq examples /\ UNCHANGED <<domains, intents>>
      BY <2>5 DEF RemoveExample
    <3>2. NoOrphans'
      BY <3>1 DEF RootInv, NoOrphans, HasIntent, HasDomain
    <3> QED
      BY <1>2, <2>1, <3>2
  <2>6. CASE RegisterTools
    <3>1. NoOrphans'
      BY <2>6 DEF RegisterTools, RootInv, NoOrphans, HasIntent, HasDomain
    <3> QED
      BY <1>2, <2>1, <3>1
  <2> QED
    BY <1>14, <2>2, <2>3, <2>4, <2>5, <2>6, <2>7 DEF Request
<1>15. CASE FailStartupSeeding
  <2>1. at' = "warming"
    BY <1>15 DEF FailStartupSeeding, Goes
  <2>2. NoOrphans'
    BY <1>1, <1>15, WriteHalfRoots DEF FailStartupSeeding
  <2> QED
    BY <1>2, <2>1, <2>2
<1>16. CASE FailScript
  <2>1. at' = "off"
    BY <1>16 DEF FailScript, Ends
  <2>2. NoOrphans'
    BY <1>1, <1>16, WriteHalfRoots DEF FailScript
  <2> QED
    BY <1>2, <2>1, <2>2
<1>17. CASE UNCHANGED vars
  BY <1>17 DEF vars, store, process, RootInv, NoOrphans, Rooted, Emptied, HasIntent, HasDomain,
               HasParent, Provides
<1> QED
  BY <1>3, <1>4, <1>5, <1>7, <1>8, <1>9, <1>10, <1>11, <1>12, <1>13, <1>14, <1>15, <1>16, <1>17
  DEF Next, Proceed

\* The inductive invariant: types, where the process stands, and roots.
LEMMA RootedSafe == Spec => [](Typed /\ RootInv)
<1>1. Init => Typed /\ RootInv
  BY InitTyped DEF Init, RootInv, NoOrphans, Rooted, Emptied, HasIntent, HasDomain
<1>2. Typed /\ RootInv /\ [Next]_vars => Typed' /\ RootInv'
  BY TypedStep, RootStep DEF RootInv
<1> QED
  BY <1>1, <1>2, PTL DEF Spec

\* Every variable has its type; no process in memory means nothing in memory,
\* and what is exported is a catalogue that can be imported.
THEOREM StoreWellTyped == Spec => []TypeOK
BY RootedSafe, PTL DEF Typed

\* Wherever a reset, a seeding or an edit stops or dies, no example is left
\* without its intent and no intent without its domain.
THEOREM NoProcessLeavesOrphans == Spec => []NoOrphans
BY RootedSafe, PTL DEF RootInv

-----------------------------------------------------------------------------
(* What seeding spares and what it completes.                              *)

\* What a call is for is there.
Done(x) ==
    /\ x.call = "domain" => HasDomain(x.of)
    /\ x.call = "intent" => HasIntent(x.of)
    /\ x.call = "example" => x.of \in examples

\* Each row of the catalogue is there or still to come.
Pending == at = "seeding" => \A x \in Rows(Source) : Done(x) \/ x \in Elements(todo)

\* After a reset nothing is there but what the file says.
Restored ==
    at = "seeding" /\ job = "reset+import" =>
        /\ \A d \in Domains : HasDomain(d) => domains[d].content = file.domains[d]
        /\ \A i \in Intents : HasIntent(i) => intents[i].content = file.intents[i]
        /\ examples \subseteq file.examples

\* A start that seeds found no domain.
FoundEmpty ==
    /\ at = "checking" => found.domains = domains
    /\ at = "seeding" /\ job = "server" => \A d \in Domains : found.domains[d] = Nil

SeedInv == Pending /\ Restored /\ FoundEmpty

\* Seeding keeps every row that is there as it is.
LEMMA SeedingKeeps ==
    ASSUME Typed, RootInv, at = "seeding", [Next]_vars
    PROVE  /\ \A d \in Domains : HasDomain(d) => domains'[d] = domains[d]
           /\ \A i \in Intents : HasIntent(i) => intents'[i] = intents[i]
           /\ examples \subseteq examples'
<1> USE DEF HasDomain, HasIntent
<1>1. CASE UNCHANGED store
  BY <1>1 DEF store
<1>2. CASE SeedDomain
  BY <1>2 DEF SeedDomain, Typed, TypeOK
<1>3. CASE SeedIntent
  BY <1>3 DEF SeedIntent, Typed, TypeOK
<1>4. CASE SeedExample
  BY <1>4 DEF SeedExample
<1>5. CASE WriteHalf
  BY <1>1, <1>5 DEF WriteHalf, Typed, TypeOK
<1>6. at \notin {"checking", "warming", "ready", "writing", "resetting", "reading", "off"} /\ job # Nil
  BY NilAssumption DEF Typed, Standing, Jobs
<1>7. CASE Request
  BY <1>6, <1>7 DEF Request, AddDomain, RemoveDomain, SetIntent, RemoveIntent, RemoveExample,
      RegisterTools, Edit
<1>8. CASE SeedRebuild \/ Seeded \/ Warm \/ Ready \/ Export \/ ReadPlan \/ ScriptDone \/ Shutdown
           \/ FailWarm \/ Crash \/ CheckEmpty
  BY <1>1, <1>8
  DEF SeedRebuild, Seeded, Warm, Ready, Export, ReadPlan, ScriptDone, Shutdown, FailWarm, Crash, CheckEmpty
<1>9. CASE Boot \/ BeginExport \/ BeginScript \/ Reset
  BY <1>6, <1>9 DEF Boot, BeginExport, BeginScript, Start, Reset
<1>10. CASE FailStartupSeeding \/ FailScript
  BY <1>1, <1>5, <1>10 DEF FailStartupSeeding, FailScript
<1>11. CASE UNCHANGED vars
  BY <1>1, <1>11 DEF vars
<1> QED
  BY <1>2, <1>3, <1>4, <1>7, <1>8, <1>9, <1>10, <1>11 DEF Next, Proceed

\* A start that found a domain writes nothing until it is ready.
LEMMA StartSpares ==
    ASSUME Typed, FoundEmpty, [Next]_vars, job = "server", at # "ready",
           NEW d \in Domains, found.domains[d] # Nil
    PROVE  UNCHANGED store
<1>1. at \in {"checking", "warming"}
  <2>1. at # "off"
    BY NilAssumption DEF Typed, Standing
  <2>2. at # "seeding"
    BY DEF FoundEmpty
  <2>3. at \notin {"writing", "resetting", "reading"}
    BY DEF Typed, Standing, Resetting
  <2> QED
    BY <2>1, <2>2, <2>3 DEF Typed, Standing, Places
<1>2. job # Nil
  BY NilAssumption
<1>3. CASE Request
  BY <1>1, <1>3 DEF Request, AddDomain, RemoveDomain, SetIntent, RemoveIntent, RemoveExample,
      RegisterTools, Edit
<1>4. CASE SeedDomain \/ SeedIntent \/ SeedExample \/ SeedRebuild \/ Seeded \/ Warm \/ Ready \/ Export
           \/ ReadPlan \/ ScriptDone \/ Shutdown \/ FailWarm \/ Crash \/ CheckEmpty
  BY <1>1, <1>4
  DEF SeedDomain, SeedIntent, SeedExample, Call,
      SeedRebuild, Seeded, Warm, Ready, Export, ReadPlan, ScriptDone, Shutdown, FailWarm, Crash, CheckEmpty
<1>5. CASE Boot \/ BeginExport \/ BeginScript \/ Reset \/ FailScript
  BY <1>1, <1>2, <1>5 DEF Boot, BeginExport, BeginScript, Start, Reset, FailScript
<1>6. CASE FailStartupSeeding
  BY <1>1, <1>6 DEF FailStartupSeeding, WriteHalf, Call
<1>7. CASE UNCHANGED vars
  BY <1>7 DEF vars
<1> QED
  BY <1>3, <1>4, <1>5, <1>6, <1>7 DEF Next, Proceed

\* Where a step can lead to seeding from.
LEMMA IntoSeeding ==
    ASSUME Typed, [Next]_vars, at' = "seeding"
    PROVE  \/ UNCHANGED vars
           \/ /\ at = "seeding" /\ todo # <<>> /\ Goes("seeding", Tail(todo)) /\ UNCHANGED file
              /\ SeedDomain \/ SeedIntent \/ SeedExample \/ SeedRebuild
           \/ /\ UNCHANGED <<store, file>> /\ job' = job /\ found' = found
              /\ \/ at = "checking" /\ Goes("seeding", DemoPlan) /\ \A d \in Domains : ~HasDomain(d)
                 \/ /\ at = "reading"
                    /\ \/ job \in {"seed", "reset+seed"} /\ Goes("seeding", DemoPlan)
                       \/ /\ job \in {"import", "reset+import"} /\ file \in Catalogues
                          /\ Goes("seeding", Plan(file))
<1>1. CASE SeedDomain \/ SeedIntent \/ SeedExample \/ SeedRebuild
  BY <1>1 DEF SeedDomain, SeedIntent, SeedExample, SeedRebuild, Call
<1>2. CASE Seeded \/ Warm \/ Ready \/ Export \/ ScriptDone \/ Shutdown \/ FailWarm \/ Crash
           \/ FailStartupSeeding \/ FailScript \/ Reset
  BY <1>2 DEF Seeded, Warm, Ready, Export, ScriptDone, Shutdown, FailWarm, Crash, FailStartupSeeding,
              FailScript, Reset, Goes, Ends
<1>3. CASE Boot \/ BeginExport \/ BeginScript
  BY <1>3 DEF Boot, BeginExport, BeginScript, Start
<1>4. CASE Request
  BY <1>4 DEF Request, AddDomain, RemoveDomain, SetIntent, RemoveIntent, RemoveExample,
      RegisterTools, Edit, process
<1>5. CASE CheckEmpty
  BY <1>5 DEF CheckEmpty, Goes
<1>6. CASE ReadPlan
  BY <1>6 DEF ReadPlan, Goes, Ends, Typed, TypeOK, Standing, Jobs
<1> QED
  BY <1>1, <1>2, <1>3, <1>4, <1>5, <1>6 DEF Next, Proceed

LEMMA RowsSame ==
    ASSUME Source' = Source
    PROVE  Rows(Source)' = Rows(Source)
BY DEF Rows, DomainCalls, IntentCalls, ExampleCalls

LEMMA PendingStep ==
    ASSUME Typed, RootInv, Pending, [Next]_vars
    PROVE  Pending'
<1>1. SUFFICES ASSUME at' = "seeding" PROVE Pending'
  BY DEF Pending
<1>2. CASE UNCHANGED vars
  BY <1>2 DEF vars, store, process, Pending, Done, HasDomain, HasIntent, Source,
              Rows, DomainCalls, IntentCalls, ExampleCalls
<1>3. ASSUME NEW c \in Catalogues, Goes("seeding", Plan(c)), Source' = c
      PROVE  Pending'
  <2>1. Rows(c) \subseteq Elements(Plan(c))
    BY PlanSound
  <2>2. Rows(Source)' = Rows(c) /\ todo' = Plan(c)
    BY <1>3 DEF Goes, Rows, DomainCalls, IntentCalls, ExampleCalls
  <2> QED
    BY <2>1, <2>2 DEF Pending, Elements
<1>4. CASE /\ at = "seeding" /\ todo # <<>> /\ Goes("seeding", Tail(todo)) /\ UNCHANGED file
           /\ SeedDomain \/ SeedIntent \/ SeedExample \/ SeedRebuild
  <2>1. Source' = Source /\ todo' = Tail(todo) /\ Source \in Catalogues /\ todo \in Seq(Calls(Source))
    BY <1>4 DEF Goes, Source, Typed, Standing
  <2>2. Elements(todo) = {Entry} \cup Elements(Tail(todo))
    BY <1>4, <2>1, TailFacts DEF Entry
  <2>3. /\ \A d \in Domains : HasDomain(d) => domains'[d] # Nil
        /\ \A i \in Intents : HasIntent(i) => intents'[i] # Nil
        /\ examples \subseteq examples'
    BY <1>4, SeedingKeeps DEF HasDomain, HasIntent
  <2> DEFINE There(x) == /\ x.call = "domain" => domains'[x.of] # Nil
                         /\ x.call = "intent" => intents'[x.of] # Nil
                         /\ x.call = "example" => x.of \in examples'
  <2>4. There(Entry)
    <3>1. CASE SeedDomain
      <4>1. Entry.call = "domain" /\ Entry.of \in Domains /\ Entry.content \in Contents
        BY <1>4, <3>1, EntryShape DEF SeedDomain, Call, Entry, Typed
      <4>2. [content |-> Entry.content, status |-> "active"] # Nil
        BY <4>1, RowTypes, NilAssumption
      <4> QED
        BY <3>1, <4>1, <4>2 DEF SeedDomain, HasDomain, Typed, TypeOK
    <3>2. CASE SeedIntent
      <4>1. Entry.call = "intent" /\ Entry.of \in Intents /\ Entry.content \in Contents
        BY <1>4, <3>2, EntryShape DEF SeedIntent, Call, Entry, Typed
      <4>2. NewIntent(Entry.content) # Nil
        BY <4>1, RowTypes, NilAssumption
      <4> QED
        BY <3>2, <4>1, <4>2 DEF SeedIntent, HasIntent, Typed, TypeOK
    <3>3. CASE SeedExample
      BY <3>3 DEF SeedExample, Call, Entry
    <3>4. CASE SeedRebuild
      BY <3>4 DEF SeedRebuild, Call, Entry
    <3> QED
      BY <1>4, <3>1, <3>2, <3>3, <3>4
  <2>5. ASSUME NEW x \in Rows(Source) PROVE There(x) \/ x \in Elements(Tail(todo))
    <3>1. CASE x \in Elements(todo)
      BY <2>2, <2>4, <3>1
    <3>2. CASE Done(x)
      <4>1. x \in Calls(Source)
        BY DEF Calls
      <4>2. /\ x.call = "domain" => x.of \in Domains
            /\ x.call = "intent" => x.of \in Intents
        BY <2>1, <4>1, CallShape
      <4> QED
        BY <2>3, <3>2, <4>2 DEF Done, HasDomain, HasIntent
    <3> QED
      BY <1>4, <3>1, <3>2 DEF Pending
  <2>6. Rows(Source)' = Rows(Source)
    BY <2>1, RowsSame
  <2> QED
    BY <2>1, <2>5, <2>6 DEF Pending, Done, HasDomain, HasIntent, Elements
<1>5. CASE /\ UNCHANGED <<store, file>> /\ job' = job /\ found' = found
           /\ \/ at = "checking" /\ Goes("seeding", DemoPlan) /\ \A d \in Domains : ~HasDomain(d)
              \/ /\ at = "reading"
                 /\ \/ job \in {"seed", "reset+seed"} /\ Goes("seeding", DemoPlan)
                    \/ /\ job \in {"import", "reset+import"} /\ file \in Catalogues
                       /\ Goes("seeding", Plan(file))
  <2>1. CASE Goes("seeding", DemoPlan) /\ (at = "checking" \/ job \in {"seed", "reset+seed"})
    <3>1. Source' = Demo
      BY <1>5, <2>1 DEF Source, Typed, Standing
    <3> QED
      BY <1>3, <2>1, <3>1, LifecycleAssumption DEF DemoPlan
  <2>2. CASE job \in {"import", "reset+import"} /\ file \in Catalogues /\ Goes("seeding", Plan(file))
    <3>1. Source' = file
      BY <1>5, <2>2 DEF Source
    <3> QED
      BY <1>3, <2>2, <3>1
  <2> QED
    BY <1>5, <2>1, <2>2
<1> QED
  BY <1>1, <1>2, <1>4, <1>5, IntoSeeding

LEMMA RestoredStep ==
    ASSUME Typed, RootInv, Restored, [Next]_vars
    PROVE  Restored'
<1>1. SUFFICES ASSUME at' = "seeding", job' = "reset+import" PROVE Restored'
  BY DEF Restored
<1>2. CASE UNCHANGED vars
  BY <1>2 DEF vars, store, process, Restored, HasDomain, HasIntent
<1>3. CASE /\ at = "seeding" /\ todo # <<>> /\ Goes("seeding", Tail(todo)) /\ UNCHANGED file
           /\ SeedDomain \/ SeedIntent \/ SeedExample \/ SeedRebuild
  <2>1. job = "reset+import" /\ Source = file /\ Restored
    BY <1>1, <1>3 DEF Goes, Source
  <2>2. SUFFICES /\ \A d \in Domains : domains'[d] # Nil => domains'[d].content = file.domains[d]
                 /\ \A i \in Intents : intents'[i] # Nil => intents'[i].content = file.intents[i]
                 /\ examples' \subseteq file.examples
    BY <1>3 DEF Restored, HasDomain, HasIntent
  <2>3. CASE SeedDomain
    <3>1. Entry.content = file.domains[Entry.of]
      BY <1>3, <2>1, <2>3, EntryShape DEF SeedDomain, Call, Entry, Typed
    <3> QED
      BY <1>3, <2>1, <2>3, <3>1 DEF SeedDomain, Restored, HasDomain, HasIntent, Typed, TypeOK
  <2>4. CASE SeedIntent
    <3>1. Entry.content = file.intents[Entry.of]
      BY <1>3, <2>1, <2>4, EntryShape DEF SeedIntent, Call, Entry, Typed
    <3>2. \A i \in Intents : intents'[i] # Nil => intents'[i].content = file.intents[i]
      BY <1>3, <2>1, <2>4, <3>1 DEF SeedIntent, Restored, HasIntent, Typed, TypeOK, NewIntent
    <3> QED
      BY <1>3, <2>1, <2>4, <3>2 DEF SeedIntent, Restored, HasDomain
  <2>5. CASE SeedExample
    <3>1. Entry.of \in file.examples
      BY <1>3, <2>1, <2>5, EntryShape DEF SeedExample, Call, Entry, Typed
    <3> QED
      BY <1>3, <2>1, <2>5, <3>1 DEF SeedExample, Restored, HasDomain, HasIntent
  <2>6. CASE SeedRebuild
    BY <1>3, <2>1, <2>6 DEF SeedRebuild, store, Restored, HasDomain, HasIntent
  <2> QED
    BY <1>3, <2>3, <2>4, <2>5, <2>6
<1>4. CASE at = "reading" /\ job' = job /\ UNCHANGED <<store, file>>
  BY <1>1, <1>4 DEF RootInv, Emptied, Resetting, Restored, store, HasDomain, HasIntent
<1>5. CASE at = "checking" /\ job' = job
  BY <1>1, <1>5 DEF Typed, Standing
<1> QED
  BY <1>1, <1>2, <1>3, <1>4, <1>5, IntoSeeding

LEMMA FoundStep ==
    ASSUME Typed, FoundEmpty, [Next]_vars
    PROVE  FoundEmpty'
<1>1. ASSUME at' = "checking" PROVE found'.domains = domains'
  <2>1. CASE Boot
    BY <2>1 DEF Boot, Start, Store, store
  <2>2. CASE BeginExport \/ BeginScript
    BY <1>1, <2>2 DEF BeginExport, BeginScript, Start
  <2>3. CASE Proceed
    BY <1>1, <2>3 DEF Proceed, CheckEmpty, SeedDomain, SeedIntent, SeedExample, SeedRebuild, Seeded,
                      Warm, Ready, Export, Reset, ReadPlan, ScriptDone, Goes, Ends
  <2>4. CASE Request
    BY <1>1, <2>4 DEF Request, AddDomain, RemoveDomain, SetIntent, RemoveIntent, RemoveExample,
      RegisterTools, Edit,
                      process
  <2>5. CASE Shutdown \/ FailStartupSeeding \/ FailWarm \/ FailScript \/ Crash
    BY <1>1, <2>5 DEF Shutdown, FailStartupSeeding, FailWarm, FailScript, Crash, Goes, Ends
  <2>6. CASE UNCHANGED vars
    BY <1>1, <2>6 DEF vars, process, store, FoundEmpty
  <2> QED
    BY <2>1, <2>2, <2>3, <2>4, <2>5, <2>6 DEF Next
<1>2. ASSUME at' = "seeding", job' = "server", NEW d \in Domains PROVE found'.domains[d] = Nil
  <2>1. CASE UNCHANGED vars
    BY <1>2, <2>1 DEF vars, process, FoundEmpty
  <2>2. CASE at = "seeding" /\ Goes("seeding", Tail(todo))
    BY <1>2, <2>2 DEF Goes, FoundEmpty
  <2>3. CASE at = "checking" /\ found' = found /\ ~HasDomain(d)
    BY <2>3 DEF FoundEmpty, HasDomain
  <2>4. CASE at = "reading" /\ job' = job
    BY <1>2, <2>4 DEF Typed, Standing
  <2> QED
    BY <1>2, <2>1, <2>2, <2>3, <2>4, IntoSeeding
<1> QED
  BY <1>1, <1>2 DEF FoundEmpty

\* The inductive invariant with what seeding has still to do.
LEMMA SeedSafe == Spec => [](Typed /\ RootInv /\ SeedInv)
<1>1. Init => SeedInv
  BY DEF Init, SeedInv, Pending, Restored, FoundEmpty
<1>2. Typed /\ RootInv /\ SeedInv /\ [Next]_vars => SeedInv'
  BY PendingStep, RestoredStep, FoundStep DEF SeedInv
<1> QED
  BY <1>1, <1>2, RootedSafe, PTL DEF Spec

\* No step of a seeding changes or removes a row that is there, and a start that
\* found a domain writes nothing before it is ready.
THEOREM SeedingSparesAll == Spec => SeedingSpares
<1>1. Typed /\ RootInv /\ SeedInv /\ [Next]_vars =>
        [/\ at = "seeding" =>
               /\ \A d \in Domains : HasDomain(d) => domains'[d] = domains[d]
               /\ \A i \in Intents : HasIntent(i) => intents'[i] = intents[i]
               /\ examples \subseteq examples'
         /\ job = "server" /\ at # "ready" /\ (\E d \in Domains : found.domains[d] # Nil)
               => UNCHANGED store]_vars
  BY SeedingKeeps, StartSpares DEF SeedInv
<1> QED
  BY <1>1, SeedSafe, PTL DEF Spec, SeedingSpares

\* A seeding that runs to its end, whatever it started from, leaves everything
\* its catalogue lists.
THEOREM RepeatedSeedingCompletes == Spec => []SeedingCompletes
<1>1. SeedInv => SeedingCompletes
  <2> SUFFICES ASSUME SeedInv, SeedingDone PROVE SeedingCompletes
    BY DEF SeedingCompletes
  <2>1. \A x \in Rows(Source) : Done(x)
    BY DEF SeedInv, Pending, SeedingDone, Elements
  <2>2. ASSUME NEW d \in Domains, Source.domains[d] # Nil PROVE HasDomain(d)
    <3>1. [call |-> "domain", of |-> d, content |-> Source.domains[d]] \in Rows(Source)
      BY <2>2 DEF Rows, DomainCalls
    <3> QED
      BY <2>1, <3>1 DEF Done
  <2>3. ASSUME NEW i \in Intents, Source.intents[i] # Nil PROVE HasIntent(i)
    <3>1. [call |-> "intent", of |-> i, content |-> Source.intents[i]] \in Rows(Source)
      BY <2>3 DEF Rows, IntentCalls
    <3> QED
      BY <2>1, <3>1 DEF Done
  <2>4. ASSUME NEW e \in Source.examples PROVE e \in examples
    <3>1. [call |-> "example", of |-> e, content |-> Nil] \in Rows(Source)
      BY DEF Rows, ExampleCalls
    <3> QED
      BY <2>1, <3>1 DEF Done
  <2> QED
    BY <2>2, <2>3, <2>4 DEF SeedingCompletes
<1> QED
  BY <1>1, SeedSafe, PTL

\* A reset and an import that run to their end leave a store that exports to the
\* very file that was imported.
THEOREM RestoreExact == Spec => []RestoreIsExact
<1>1. Typed /\ SeedInv /\ SeedingCompletes => RestoreIsExact
  <2> SUFFICES ASSUME Typed, SeedInv, SeedingCompletes, job = "reset+import", SeedingDone
               PROVE  Snapshot(Store) = file
    BY DEF RestoreIsExact
  <2>1. Source = file /\ file \in Catalogues /\ at = "seeding"
    BY DEF Source, SeedingDone, Typed, Standing
  <2>2. PICK f \in Catalogues : f = file
    BY <2>1
  <2>3. /\ f.domains \in [Domains -> Contents \cup {Nil}]
        /\ f.intents \in [Intents -> Contents \cup {Nil}]
        /\ f = [domains |-> f.domains, intents |-> f.intents, examples |-> f.examples]
    BY DEF Catalogues
  <2>4. ASSUME NEW d \in Domains
        PROVE  f.domains[d] = IF domains[d] = Nil THEN Nil ELSE domains[d].content
    BY <2>1, <2>2 DEF SeedInv, Restored, SeedingCompletes, HasDomain
  <2>5. ASSUME NEW i \in Intents
        PROVE  f.intents[i] = IF intents[i] = Nil THEN Nil ELSE intents[i].content
    BY <2>1, <2>2 DEF SeedInv, Restored, SeedingCompletes, HasIntent
  <2>6. f.examples = examples
    BY <2>1, <2>2 DEF SeedInv, Restored, SeedingCompletes
  <2>7. /\ f.domains = [d \in Domains |-> IF domains[d] = Nil THEN Nil ELSE domains[d].content]
        /\ f.intents = [i \in Intents |-> IF intents[i] = Nil THEN Nil ELSE intents[i].content]
    BY <2>3, <2>4, <2>5
  <2> QED
    BY <2>2, <2>3, <2>6, <2>7 DEF Snapshot, Store
<1> QED
  BY <1>1, SeedSafe, RepeatedSeedingCompletes, PTL


-----------------------------------------------------------------------------
(* Indexes.                                                                *)

\* Nothing is in memory before a process has built anything.
Clean ==
    at \in {"off", "checking", "writing", "resetting", "reading"} => index = NoIndex /\ dirty = {}

\* Memory is about domains that exist.
NoStray ==
    /\ \A d \in dirty : HasDomain(d)
    /\ \A d \in Domains : ~HasDomain(d) => index[d] = Nil

\* What warming has built is current; the rest it has still to build.
WarmInv ==
    at = "warming" =>
        /\ dirty \subseteq Elements(todo)
        /\ \A d \in Domains : HasDomain(d) /\ d \notin Elements(todo) => index[d] = Searchable(d)

\* An index that a ready server holds is current, marked dirty, or of a domain
\* that a request left half written.
ReadyInv ==
    at = "ready" =>
        \A d \in Domains : HasDomain(d) /\ index[d] # Nil /\ d \notin dirty \cup torn =>
            index[d] = Searchable(d)

\* Only requests leave a domain so.
TornInv == at # "ready" => torn = {}

FreshInv == Clean /\ NoStray /\ WarmInv /\ ReadyInv

\* A rebuild that ends leaves what is stored.
LEMMA RebuiltIsFresh ==
    ASSUME TypeOK, NoOrphans', NEW d \in Domains, Rebuilt(d, examples', intents')
    PROVE  /\ index'[d] = Searchable(d)' /\ d \notin dirty' /\ dirty' \subseteq dirty
           /\ \A b \in Domains : b # d => /\ index'[b] = index[b]
                                          /\ b \in dirty' <=> b \in dirty
                                          /\ b \in torn' <=> b \in torn
BY DEF TypeOK, Rebuilt, NoOrphans, Searchable, ExamplesOf

\* What is built for a domain depends on its own rows.
LEMMA ElsewhereSame ==
    ASSUME Typed, NEW b \in Domains,
           \A e \in Stored : DomainOf(e[1]) = b => (e \in examples <=> e \in examples'),
           \A i \in Intents : DomainOf(i) = b => intents'[i] = intents[i],
           examples' \subseteq Stored
    PROVE  Searchable(b)' = Searchable(b)
BY DEF Typed, TypeOK, Stored, Searchable, ExamplesOf, HasIntent

\* A rebuild of a domain that exists brings no stray.
LEMMA RebuiltNoStray ==
    ASSUME TypeOK, NoStray, NEW d \in Domains, NEW e, NEW i, Rebuilt(d, e, i),
           domains'[d] # Nil,
           \A b \in Domains : HasDomain(b) => domains'[b] # Nil
    PROVE  NoStray'
BY DEF TypeOK, NoStray, Rebuilt, HasDomain

LEMMA SameNoStray ==
    ASSUME TypeOK, NoStray, UNCHANGED memory,
           \A b \in Domains : HasDomain(b) => domains'[b] # Nil
    PROVE  NoStray'
BY DEF TypeOK, NoStray, memory, HasDomain

\* Every call of a seeding is for a domain that exists.
LEMMA EntryDomain ==
    ASSUME Typed, RootInv, at = "seeding", todo # <<>>
    PROVE  /\ Entry.call = "intent" => DomainOf(Entry.of) \in Domains /\ HasDomain(DomainOf(Entry.of))
           /\ Entry.call = "example" =>
                DomainOf(Entry.of[1]) \in Domains /\ HasDomain(DomainOf(Entry.of[1]))
           /\ Entry.call = "rebuild" => Entry.of \in Domains /\ HasDomain(Entry.of)
<1>1. HasParent(Entry)
  BY EntryRooted DEF Typed, RootInv
<1> QED
  BY <1>1, EntryShape DEF Typed, HasParent, RootInv, NoOrphans

\* A seeding step, or one that fails, strays nowhere.
LEMMA SeedingNoStray ==
    ASSUME Typed, RootInv, NoStray, at = "seeding", todo # <<>>,
           SeedDomain \/ SeedIntent \/ SeedExample \/ SeedRebuild, [Next]_vars
    PROVE  NoStray'
<1>1. \A b \in Domains : HasDomain(b) => domains'[b] # Nil
  BY SeedingKeeps DEF HasDomain
<1>2. CASE UNCHANGED memory
  BY <1>1, <1>2, SameNoStray DEF Typed
<1>3. ASSUME NEW d \in Domains, HasDomain(d), NEW e, NEW i, Rebuilt(d, e, i) PROVE NoStray'
  BY <1>1, <1>3, RebuiltNoStray DEF Typed
<1>4. CASE SeedDomain
  BY <1>2, <1>4 DEF SeedDomain
<1>5. CASE SeedIntent
  <2>1. Entry.call = "intent"
    BY <1>5 DEF SeedIntent, Call, Entry
  <2>2. PICK d \in Domains : d = DomainOf(Entry.of) /\ HasDomain(d)
    BY <2>1, EntryDomain
  <2>3. UNCHANGED memory \/ Rebuilt(d, examples, intents')
    BY <1>5, <2>2 DEF SeedIntent
  <2> QED
    BY <1>2, <1>3, <2>2, <2>3
<1>6. CASE SeedExample
  <2>1. Entry.call = "example"
    BY <1>6 DEF SeedExample, Call, Entry
  <2>2. PICK d \in Domains : d = DomainOf(Entry.of[1]) /\ HasDomain(d)
    BY <2>1, EntryDomain
  <2>3. UNCHANGED memory \/ Rebuilt(d, examples', intents)
    BY <1>6, <2>2 DEF SeedExample
  <2> QED
    BY <1>2, <1>3, <2>2, <2>3
<1>7. CASE SeedRebuild
  <2>1. Entry.call = "rebuild"
    BY <1>7 DEF SeedRebuild, Call, Entry
  <2>2. PICK d \in Domains : d = Entry.of /\ HasDomain(d)
    BY <2>1, EntryDomain
  <2>3. Rebuilt(d, examples, intents)
    BY <1>7, <2>2 DEF SeedRebuild
  <2> QED
    BY <1>3, <2>2, <2>3
<1> QED
  BY <1>4, <1>5, <1>6, <1>7

LEMMA WarmStep ==
    ASSUME Typed, RootInv', NoStray, WarmInv, Warm
    PROVE  NoStray' /\ WarmInv'
<1>1. /\ at = "warming" /\ todo \in Seq(Domains) /\ todo # <<>>
      /\ UNCHANGED <<domains, intents, examples>>
  BY DEF Warm, Typed, Standing, store
<1>2. PICK h \in Domains : h = Head(todo)
  BY <1>1, TailFacts
<1>3. PICK rest : rest = Elements(Tail(todo))
  OBVIOUS
<1>4. Elements(todo) = {h} \cup rest /\ Elements(todo)' = rest
  <2>1. Elements(todo) = {h} \cup rest
    BY <1>1, <1>2, <1>3, TailFacts
  <2>2. Elements(todo)' = rest
    BY <1>3 DEF Warm, Goes, Elements
  <2> QED
    BY <2>1, <2>2
<1>5. /\ dirty \subseteq {h} \cup rest
      /\ \A d \in Domains : HasDomain(d) /\ d \notin {h} \cup rest => index[d] = Searchable(d)
  BY <1>1, <1>4 DEF WarmInv
<1>6. \A d \in Domains : Searchable(d)' = Searchable(d) /\ HasDomain(d)' = HasDomain(d)
  BY <1>1 DEF Searchable, ExamplesOf, HasIntent, HasDomain
<1>7. CASE ~HasDomain(h)
  <2>1. UNCHANGED memory
    BY <1>2, <1>7 DEF Warm
  <2>2. NoStray'
    BY <1>1, <2>1, SameNoStray DEF Typed, HasDomain
  <2>3. h \notin dirty
    BY <1>7 DEF NoStray
  <2>4. dirty' \subseteq rest
    BY <1>5, <2>1, <2>3 DEF memory
  <2>5. \A d \in Domains : HasDomain(d) /\ d \notin rest => index'[d] = Searchable(d)
    BY <1>5, <1>7, <2>1 DEF memory
  <2> QED
    BY <1>4, <1>6, <2>2, <2>4, <2>5 DEF WarmInv
<1>8. CASE HasDomain(h)
  <2>1. Rebuilt(h, examples', intents')
    BY <1>1, <1>2, <1>8 DEF Warm
  <2>2. /\ index'[h] = Searchable(h)' /\ h \notin dirty' /\ dirty' \subseteq dirty
        /\ \A b \in Domains : b # h => index'[b] = index[b]
    BY <2>1, RebuiltIsFresh DEF Typed, RootInv
  <2>3. NoStray'
    BY <1>1, <1>8, <2>1, RebuiltNoStray DEF Typed, HasDomain
  <2>4. dirty' \subseteq rest
    BY <1>5, <2>2
  <2>5. \A d \in Domains : HasDomain(d) /\ d \notin rest => index'[d] = Searchable(d)
    BY <1>5, <1>6, <2>2
  <2> QED
    BY <1>4, <1>6, <2>3, <2>4, <2>5 DEF WarmInv
<1> QED
  BY <1>7, <1>8

LEMMA RequestFresh ==
    ASSUME Typed, Typed', RootInv, RootInv', FreshInv, Request
    PROVE  FreshInv'
<1>1. at = "ready" /\ at' = "ready"
  BY DEF Request, AddDomain, RemoveDomain, SetIntent, RemoveIntent, RemoveExample,
      RegisterTools, Edit, process
<1>2. SUFFICES NoStray' /\ ReadyInv'
  BY <1>1 DEF FreshInv, Clean, WarmInv
<1>3. /\ \A d \in Domains : HasDomain(d) /\ index[d] # Nil /\ d \notin dirty \cup torn =>
             index[d] = Searchable(d)
      /\ NoStray
  BY <1>1 DEF FreshInv, ReadyInv
<1>4. ASSUME NEW d \in Domains, HasDomain(d), UNCHANGED domains,
             Reindexed(d, examples', intents') \/ Torn(d),
             \A b \in Domains : b # d => Searchable(b)' = Searchable(b)
      PROVE  NoStray' /\ ReadyInv'
  <2>1. CASE Rebuilt(d, examples', intents')
    <3>1. /\ index'[d] = Searchable(d)'
          /\ \A b \in Domains : b # d => /\ index'[b] = index[b] /\ (b \in dirty' <=> b \in dirty)
                                         /\ (b \in torn' <=> b \in torn)
      BY <2>1, RebuiltIsFresh DEF Typed, RootInv
    <3>2. NoStray'
      BY <1>3, <1>4, <2>1, RebuiltNoStray DEF Typed, HasDomain
    <3> QED
      BY <1>3, <1>4, <3>1, <3>2 DEF ReadyInv, HasDomain
  <2>2. CASE dirty' = dirty \cup {d} /\ UNCHANGED <<index, torn>>
    <3>1. NoStray'
      BY <1>3, <1>4, <2>2 DEF NoStray, HasDomain
    <3> QED
      BY <1>3, <1>4, <2>2, <3>1 DEF ReadyInv, HasDomain
  <2>3. CASE torn' = torn \cup {d} /\ UNCHANGED <<index, dirty>>
    <3>1. NoStray'
      BY <1>3, <1>4, <2>3 DEF NoStray, HasDomain
    <3> QED
      BY <1>3, <1>4, <2>3, <3>1 DEF ReadyInv, HasDomain
  <2> QED
    BY <1>4, <2>1, <2>2, <2>3 DEF Reindexed, Torn
<1>5. CASE AddDomain
  <2>1. PICK d \in Domains, c \in Contents :
          ~HasDomain(d) /\ domains' = [domains EXCEPT ![d] = [content |-> c, status |-> "active"]]
    BY <1>5 DEF AddDomain
  <2>2. UNCHANGED <<intents, examples, memory>>
    BY <1>5 DEF AddDomain
  <2>3. \A b \in Domains : /\ HasDomain(b) => domains'[b] # Nil
                           /\ b # d => domains'[b] = domains[b]
    BY <2>1 DEF Typed, TypeOK, HasDomain
  <2>4. NoStray'
    BY <1>3, <2>2, <2>3, SameNoStray DEF Typed
  <2>5. \A b \in Domains : Searchable(b)' = Searchable(b)
    BY <2>2 DEF Searchable, ExamplesOf, HasIntent
  <2>6. index'[d] = Nil
    BY <1>3, <2>1, <2>2 DEF NoStray, memory
  <2> QED
    BY <1>3, <2>2, <2>3, <2>4, <2>5, <2>6 DEF ReadyInv, HasDomain, memory
<1>6. CASE RemoveDomain
  <2>1. PICK d \in Domains :
          /\ HasDomain(d)
          /\ examples' = examples \ ExamplesOf(d)
          /\ \/ /\ intents' = IntentsWithout(d)
                /\ domains' = [domains EXCEPT ![d] = Nil]
                /\ index' = [index EXCEPT ![d] = Nil]
                /\ dirty' = dirty \ {d} /\ torn' = torn \ {d}
             \/ intents' \in {intents, IntentsWithout(d)} /\ UNCHANGED domains /\ Torn(d)
    BY <1>6 DEF RemoveDomain
  <2>2. ASSUME NEW b \in Domains, b # d PROVE Searchable(b)' = Searchable(b)
    <3>1. \A e \in Stored : DomainOf(e[1]) = b => (e \in examples <=> e \in examples')
      BY <2>1, <2>2 DEF ExamplesOf
    <3>2. \A i \in Intents : DomainOf(i) = b => intents'[i] = intents[i]
      BY <2>1, <2>2 DEF IntentsWithout
    <3>3. examples' \subseteq Stored
      BY DEF Typed, TypeOK
    <3> QED
      BY <3>1, <3>2, <3>3, ElsewhereSame
  <2>3. CASE UNCHANGED domains /\ Torn(d)
    BY <1>4, <2>1, <2>2, <2>3
  <2>4. CASE /\ domains' = [domains EXCEPT ![d] = Nil]
             /\ index' = [index EXCEPT ![d] = Nil]
             /\ dirty' = dirty \ {d} /\ torn' = torn \ {d}
    <3>1. domains'[d] = Nil /\ index'[d] = Nil
      BY <2>4 DEF Typed, TypeOK
    <3>2. ASSUME NEW b \in Domains, b # d
          PROVE  /\ domains'[b] = domains[b] /\ index'[b] = index[b]
                 /\ (b \in dirty' <=> b \in dirty) /\ (b \in torn' <=> b \in torn)
      BY <2>4, <3>2 DEF Typed, TypeOK
    <3>3. dirty' \subseteq Domains /\ d \notin dirty'
      BY <2>4 DEF Typed, TypeOK
    <3>4. NoStray'
      BY <1>3, <3>1, <3>2, <3>3 DEF NoStray, HasDomain
    <3> QED
      BY <1>3, <2>2, <3>1, <3>2, <3>4 DEF ReadyInv, HasDomain
  <2> QED
    BY <2>1, <2>3, <2>4
<1>10. CASE RemoveIntent
  <2>1. PICK i \in Intents :
          /\ HasIntent(i)
          /\ examples' = examples \ TextsOf(i)
          /\ \/ /\ intents' = [intents EXCEPT ![i] = Nil]
                /\ Reindexed(DomainOf(i), examples', intents')
             \/ UNCHANGED intents /\ Torn(DomainOf(i))
    BY <1>10 DEF RemoveIntent
  <2>2. PICK d \in Domains : d = DomainOf(i)
    BY LifecycleAssumption
  <2>3. UNCHANGED domains
    BY <1>10 DEF RemoveIntent
  <2>4. HasDomain(d)
    BY <2>1, <2>2 DEF RootInv, NoOrphans
  <2>5. ASSUME NEW b \in Domains, b # d PROVE Searchable(b)' = Searchable(b)
    <3>1. \A e \in Stored : DomainOf(e[1]) = b => (e \in examples <=> e \in examples')
      BY <2>1, <2>2, <2>5 DEF TextsOf
    <3>2. \A j \in Intents : DomainOf(j) = b => intents'[j] = intents[j]
      BY <2>1, <2>2, <2>5 DEF Typed, TypeOK
    <3>3. examples' \subseteq Stored
      BY DEF Typed, TypeOK
    <3> QED
      BY <3>1, <3>2, <3>3, ElsewhereSame
  <2>6. Reindexed(d, examples', intents') \/ Torn(d)
    BY <2>1, <2>2, Zenon
  <2> QED
    BY <1>4, <2>3, <2>4, <2>5, <2>6
<1>7. CASE SetIntent
  <2>1. PICK i \in Intents, status \in {"active", "inactive"}, b \in BOOLEAN :
          /\ HasIntent(i)
          /\ intents' = [intents EXCEPT ![i].status = status, ![i].bound = b /\ tools]
          /\ Reindexed(DomainOf(i), examples, intents') \/ Torn(DomainOf(i))
    BY <1>7 DEF SetIntent
  <2>2. PICK d \in Domains : d = DomainOf(i)
    BY LifecycleAssumption
  <2>3. UNCHANGED <<domains, examples>>
    BY <1>7 DEF SetIntent
  <2>4. \A j \in Intents : j # i => intents'[j] = intents[j]
    BY <2>1 DEF Typed, TypeOK
  <2>5. HasDomain(d)
    BY <2>1, <2>2, <2>3 DEF RootInv, NoOrphans, HasIntent, HasDomain, Typed, TypeOK
  <2>6. \A b2 \in Domains : b2 # d => Searchable(b2)' = Searchable(b2)
    BY <2>2, <2>3, <2>4, ElsewhereSame DEF Typed, TypeOK
  <2>7. Reindexed(d, examples', intents') \/ Torn(d)
    BY <2>1, <2>2, <2>3, Zenon
  <2> QED
    BY <1>4, <2>3, <2>5, <2>6, <2>7
<1>8. CASE RemoveExample
  <2>1. PICK e \in examples : examples' = examples \ {e} /\ Reindexed(DomainOf(e[1]), examples', intents)
    BY <1>8 DEF RemoveExample
  <2>2. PICK d \in Domains : d = DomainOf(e[1])
    BY LifecycleAssumption DEF Typed, TypeOK, Stored
  <2>3. UNCHANGED <<domains, intents>>
    BY <1>8 DEF RemoveExample
  <2>4. \A b \in Domains : b # d => Searchable(b)' = Searchable(b)
    BY <2>1, <2>2, <2>3, ElsewhereSame DEF Typed, TypeOK
  <2>5. Reindexed(d, examples', intents')
    BY <2>1, <2>2, <2>3, Zenon
  <2>6. HasDomain(d)
    BY <2>2 DEF RootInv, NoOrphans, Typed, TypeOK, Stored
  <2> QED
    BY <1>4, <2>3, <2>4, <2>5, <2>6
<1>9. CASE RegisterTools
  <2>1. UNCHANGED <<domains, intents, examples, memory>>
    BY <1>9 DEF RegisterTools
  <2> QED
    BY <1>3, <2>1 DEF NoStray, ReadyInv, HasDomain, HasIntent, Searchable, ExamplesOf, memory
<1> QED
  BY <1>5, <1>6, <1>7, <1>8, <1>9, <1>10 DEF Request

LEMMA FreshStep == Typed /\ RootInv /\ FreshInv /\ [Next]_vars => FreshInv'
<1> SUFFICES ASSUME Typed, RootInv, FreshInv, [Next]_vars PROVE FreshInv'
  OBVIOUS
<1>1. Typed' /\ RootInv'
  BY TypedStep, RootStep DEF RootInv
<1>2. ASSUME Ends PROVE FreshInv'
  BY <1>2 DEF Ends, FreshInv, Clean, NoStray, WarmInv, ReadyInv, NoIndex
<1>3. ASSUME NoStray', at' = "warming", todo' = Listed PROVE FreshInv'
  <2>1. Elements(Listed) = Domains /\ Elements(todo)' = Elements(Listed)
    <3>1. Elements(todo)' = Elements(Listed)
      BY <1>3 DEF Elements
    <3> QED
      BY <3>1, ListedSeq
  <2>2. dirty' \subseteq Domains
    BY <1>1 DEF Typed, TypeOK
  <2> QED
    BY <1>3, <2>1, <2>2 DEF FreshInv, Clean, WarmInv, ReadyInv
<1>4. ASSUME NoStray', at' = "seeding" PROVE FreshInv'
  BY <1>4 DEF FreshInv, Clean, WarmInv, ReadyInv
<1>5. ASSUME UNCHANGED <<store, memory>> PROVE NoStray'
  BY <1>5 DEF FreshInv, NoStray, store, memory, HasDomain
<1>6. ASSUME index = NoIndex, dirty = {}, UNCHANGED memory PROVE Clean' /\ NoStray'
  BY <1>6 DEF Clean, NoStray, NoIndex, memory
<1>7. CASE Boot \/ BeginExport \/ BeginScript
  <2>1. job = Nil /\ UNCHANGED <<store, memory>>
    BY <1>7 DEF Boot, BeginExport, BeginScript, Start
  <2>2. index = NoIndex /\ dirty = {}
    BY <2>1 DEF Typed, TypeOK
  <2>3. at' = "warming" => todo' = Listed
    BY <1>7 DEF Boot, BeginExport, BeginScript, Start
  <2>4. at' # "ready"
    BY <1>7 DEF Boot, BeginExport, BeginScript, Start
  <2>5. Clean' /\ NoStray'
    BY <1>6, <2>1, <2>2
  <2> QED
    BY <1>3, <2>3, <2>4, <2>5 DEF FreshInv, WarmInv, ReadyInv
<1>8. CASE CheckEmpty \/ Seeded
  <2>1. UNCHANGED <<store, memory>>
    BY <1>8 DEF CheckEmpty, Seeded
  <2>2. (at' = "warming" /\ todo' = Listed) \/ at' = "seeding"
    BY <1>8 DEF CheckEmpty, Seeded, Goes
  <2> QED
    BY <1>3, <1>4, <1>5, <2>1, <2>2
<1>9. CASE SeedDomain \/ SeedIntent \/ SeedExample \/ SeedRebuild
  <2>1. at = "seeding" /\ todo # <<>> /\ at' = "seeding"
    BY <1>9 DEF SeedDomain, SeedIntent, SeedExample, SeedRebuild, Call, Goes
  <2> QED
    BY <1>4, <1>9, <2>1, SeedingNoStray DEF FreshInv
<1>10. CASE Warm
  <2>1. at' = "warming"
    BY <1>10 DEF Warm, Goes
  <2> QED
    BY <1>1, <1>10, <2>1, WarmStep DEF FreshInv, Clean, ReadyInv
<1>11. CASE Ready
  <2>1. at = "warming" /\ todo = <<>> /\ at' = "ready" /\ UNCHANGED <<store, memory>>
    BY <1>11 DEF Ready, Goes
  <2>2. \A d \in Domains : HasDomain(d) => index[d] = Searchable(d)
    BY <2>1 DEF FreshInv, WarmInv, Elements
  <2>3. ReadyInv'
    BY <2>1, <2>2 DEF ReadyInv, store, memory, HasDomain, HasIntent, Searchable, ExamplesOf
  <2> QED
    BY <1>5, <2>1, <2>3 DEF FreshInv, Clean, WarmInv
<1>12. CASE Reset
  <2>1. /\ index = NoIndex /\ dirty = {} /\ UNCHANGED memory
        /\ at' \in {"reading", "resetting"}
    BY <1>12 DEF Reset, Goes, FreshInv, Clean
  <2> QED
    BY <1>6, <2>1 DEF FreshInv, WarmInv, ReadyInv
<1>13. CASE ReadPlan
  <2>1. CASE Ends
    BY <1>2, <2>1
  <2>2. CASE ~Ends
    <3>1. at' = "seeding" /\ UNCHANGED <<store, memory>>
      BY <1>13, <2>2 DEF ReadPlan, Goes
    <3> QED
      BY <1>4, <1>5, <3>1
  <2> QED
    BY <2>1, <2>2
<1>14. CASE Export \/ ScriptDone \/ Shutdown \/ FailWarm \/ FailScript \/ Crash
  BY <1>2, <1>14 DEF Export, ScriptDone, Shutdown, FailWarm, FailScript, Crash
<1>15. CASE Request
  BY <1>1, <1>15, RequestFresh
<1>16. CASE FailStartupSeeding
  <2>1. at' = "warming" /\ todo' = Listed
    BY <1>16 DEF FailStartupSeeding, Goes
  <2>2. CASE UNCHANGED <<store, memory>>
    BY <1>3, <1>5, <2>1, <2>2
  <2>3. CASE WriteHalf /\ dirty' = dirty \cup {Target} /\ UNCHANGED <<index, torn>>
    <3>1. at = "seeding" /\ todo # <<>> /\ Entry.call \in {"intent", "example", "rebuild"}
      BY <2>3 DEF WriteHalf, Call, Entry
    <3>2. Target \in Domains /\ HasDomain(Target)
      BY <3>1, EntryDomain DEF Target
    <3>3. \A d \in Domains : HasDomain(d) => domains'[d] # Nil
      BY <2>3, WriteHalfRoots
    <3>4. PICK t \in Domains : t = Target
      BY <3>2
    <3>5. dirty' = dirty \cup {t} /\ HasDomain(t)
      BY <2>3, <3>2, <3>4
    <3>6. NoStray'
      BY <2>3, <3>3, <3>5 DEF FreshInv, NoStray, HasDomain, Typed, TypeOK
    <3> QED
      BY <1>3, <2>1, <3>6
  <2> QED
    BY <1>16, <2>2, <2>3 DEF FailStartupSeeding
<1>17. CASE UNCHANGED vars
  <2>1. Elements(todo)' = Elements(todo)
    BY <1>17 DEF vars, process, Elements
  <2> QED
    BY <1>17, <2>1 DEF vars, store, memory, process, FreshInv, Clean, NoStray, WarmInv, ReadyInv,
                       HasDomain, HasIntent, Searchable, ExamplesOf
<1> QED
  BY <1>7, <1>8, <1>9, <1>10, <1>11, <1>12, <1>13, <1>14, <1>15, <1>16, <1>17 DEF Next, Proceed

LEMMA TornStep == Typed /\ TornInv /\ [Next]_vars => TornInv'
<1> SUFFICES ASSUME Typed, TornInv, [Next]_vars, at' # "ready" PROVE torn' = {}
  BY DEF TornInv
<1>1. CASE Ends
  BY <1>1 DEF Ends
<1>2. CASE Request
  BY <1>2 DEF Request, AddDomain, RemoveDomain, SetIntent, RemoveIntent, RemoveExample, RegisterTools,
              Edit, process
<1>3. CASE at # "ready" /\ torn' \subseteq torn
  BY <1>3 DEF TornInv
<1>4. ASSUME NEW d, NEW e, NEW i, Rebuilt(d, e, i) PROVE torn' \subseteq torn
  BY <1>4 DEF Rebuilt
<1>5. CASE SeedDomain \/ SeedIntent \/ SeedExample \/ SeedRebuild \/ Warm
  BY <1>3, <1>4, <1>5 DEF SeedDomain, SeedIntent, SeedExample, SeedRebuild, Warm, Call, memory
<1>6. CASE CheckEmpty \/ Seeded \/ Ready \/ Reset \/ ReadPlan \/ FailStartupSeeding
  BY <1>1, <1>3, <1>6 DEF CheckEmpty, Seeded, Ready, Reset, ReadPlan, FailStartupSeeding, memory
<1>7. CASE Boot \/ BeginExport \/ BeginScript
  <2>1. job = Nil /\ UNCHANGED memory
    BY <1>7 DEF Boot, BeginExport, BeginScript, Start
  <2>2. torn = {}
    BY <2>1 DEF Typed, TypeOK
  <2> QED
    BY <2>1, <2>2 DEF memory
<1>8. CASE Export \/ ScriptDone \/ Shutdown \/ FailWarm \/ FailScript \/ Crash
  BY <1>1, <1>8 DEF Export, ScriptDone, Shutdown, FailWarm, FailScript, Crash
<1>9. CASE UNCHANGED vars
  BY <1>9 DEF vars, memory, process, TornInv
<1> QED
  BY <1>2, <1>5, <1>6, <1>7, <1>8, <1>9 DEF Next, Proceed

\* Whatever a start had to do and wherever a seeding stopped, once every domain
\* is warm each index is what a build would now make it; and in a server that
\* serves, an index not marked dirty that counts as many examples as are stored
\* is current and complete, after any requests and any rebuilds that failed, but
\* for a domain that a call failing between two writes has left unmarked.
THEOREM ReportsStayFresh == Spec => []ReportsFresh
<1>1. Init => FreshInv /\ TornInv
  BY DEF Init, TornInv, FreshInv, Clean, NoStray, WarmInv, ReadyInv, NoIndex, HasDomain
<1>2. Typed /\ RootInv /\ FreshInv /\ TornInv => ReportsFresh
  <2> SUFFICES ASSUME Typed, RootInv, FreshInv, TornInv PROVE ReportsFresh
    OBVIOUS
  <2>1. ASSUME at = "warming", todo = <<>>
        PROVE  /\ dirty = {} /\ torn = {}
               /\ \A d \in Domains : HasDomain(d) => index[d] = Searchable(d)
    BY <2>1 DEF FreshInv, WarmInv, TornInv, Elements
  <2>2. ASSUME at = "ready", NEW d \in Domains, HasDomain(d), Healthy(d), d \notin torn
        PROVE  Indexed(d) = Searchable(d) /\ Indexed(d) = ExamplesOf(d)
    <3>1. IsFiniteSet(Stored)
      BY FiniteAssumption, FS_Product DEF Stored
    <3>2. ExamplesOf(d) \in SUBSET Stored
      BY DEF ExamplesOf, Typed, TypeOK
    <3>3. IsFiniteSet(ExamplesOf(d)) /\ Searchable(d) \in SUBSET ExamplesOf(d)
      BY <3>1, <3>2, FS_Subset DEF Searchable
    <3>4. Cardinality(Indexed(d)) = Cardinality(ExamplesOf(d))
      BY <2>2 DEF Healthy, InSync
    <3>5. CASE index[d] = Nil
      <4>1. Indexed(d) = {}
        BY <3>5 DEF Indexed
      <4>2. ExamplesOf(d) = {}
        BY <3>3, <3>4, <4>1, FS_EmptySet
      <4> QED
        BY <3>3, <4>1, <4>2
    <3>6. CASE index[d] # Nil
      <4>1. Indexed(d) = Searchable(d)
        BY <2>2, <3>6 DEF FreshInv, ReadyInv, Healthy, Indexed
      <4> QED
        BY <3>3, <3>4, <4>1, FS_Subset
    <3> QED
      BY <3>5, <3>6
  <2> QED
    BY <2>1, <2>2 DEF ReportsFresh
<1> QED
  BY <1>1, <1>2, FreshStep, TornStep, RootedSafe, PTL DEF Spec
====
