------------------------------ MODULE Verdict ------------------------------
(***************************************************************************)
(* How a classification reaches its verdict (services/classifier.py with   *)
(* rrf.py, aggregator.py, confidence.py and strategies.py, and the         *)
(* automatic fall-back of classification_service.py).                      *)
(*                                                                         *)
(* An attempt reads the active intents, retrieves from the vectors and     *)
(* then from the lexical index, and scores what it has.  The three reads   *)
(* are separate: Catalogue says what may change between them, and here     *)
(* they return anything they may, the index in particular examples of      *)
(* intents that are no longer active.                                      *)
(*                                                                         *)
(* Numbers are integers: similarities, signals and confidence in percent.  *)
(* A rank weighs Scale \div (k + rank); an intent's score is rounded to     *)
(* Digit, the sixth decimal, while the ceiling it is set against is not.   *)
(***************************************************************************)
EXTENDS Integers, Sequences, FiniteSets, FiniteSetsExt, SequencesExt

CONSTANTS
    Intents,        \* intents of the domain
    Examples,       \* examples the retrievers may return
    Owner,          \* example -> its intent
    Similarities,   \* similarities a dense hit may have, in percent
    TopK,           \* settings.retrieval_top_k
    TopN,           \* settings.agg_top_n
    RrfK,           \* settings.rrf_k
    Threshold,      \* settings.confidence_threshold
    MinSimilarity,  \* settings.min_dense_similarity
    Margin,         \* settings.auto_rescue_margin
    Variants,       \* strategies a request may be given
    Nil

Scale == 100000000
Digit == 100            \* a millionth of Scale
SimFloor == 50          \* settings.dense_sim_floor
SimCeil == 90           \* settings.dense_sim_ceil
SupportTarget == 3
Weights == [dense |-> 35, rrf |-> 25, margin |-> 25, support |-> 15]

\* The ranges the settings are held to; who retrieves knows an example's intent.
ASSUME SettingsAssumption ==
    /\ TopK \in Nat \ {0} /\ TopN \in Nat \ {0} /\ RrfK \in Nat \ {0}
    /\ Similarities \subseteq -100..100
    /\ Owner \in [Examples -> Intents]

VARIABLES
    at,         \* where the attempt stands
    queue,      \* strategies still to try, the current one first
    active,     \* the active intents, as read
    dense,      \* dense hits: [example, similarity], best first
    lexical,    \* lexical hits: examples, best first
    outcome,    \* the attempt's outcome
    first,      \* the outcome of the first attempt, or Nil
    answer      \* the verdict, or Nil

attempt == <<queue, active, dense, lexical, outcome, first, answer>>
verdictVars == <<at, queue, active, dense, lexical, outcome, first, answer>>

-----------------------------------------------------------------------------
(* Strategies.                                                             *)

Strategy(useDense, useBm25, k, topN, topK) ==
    [dense |-> useDense, bm25 |-> useBm25, k |-> k, topN |-> topN, topK |-> topK]

Builtin ==
    [hybrid_rrf     |-> Strategy(TRUE, TRUE, RrfK, TopN, TopK),
     dense_only     |-> Strategy(TRUE, FALSE, 60, 3, 10),
     bm25_only      |-> Strategy(FALSE, TRUE, 60, 3, 10),
     hybrid_rrf_k20 |-> Strategy(TRUE, TRUE, 20, 3, 10),
     hybrid_top1    |-> Strategy(TRUE, TRUE, 60, 1, 10),
     hybrid_wide    |-> Strategy(TRUE, TRUE, 60, 3, 20)]

AutoFallbacks == <<"hybrid_wide", "dense_only">>

\* Hybrid first, then the fall-backs that judge similarity.
AutoSequence ==
    LET fallback(n) == Builtin[AutoFallbacks[n]]
        upTo[n \in 0..2] ==
            IF n = 0 THEN <<Builtin["hybrid_rrf"]>>
            ELSE IF fallback(n).dense THEN Append(upTo[n - 1], fallback(n)) ELSE upTo[n - 1]
    IN  upTo[2]

\* What a request with this variant tries; an unknown name means hybrid.
Select(variant) ==
    IF variant = "auto" THEN AutoSequence
    ELSE IF variant \in DOMAIN Builtin THEN <<Builtin[variant]>>
    ELSE <<Builtin["hybrid_rrf"]>>

-----------------------------------------------------------------------------
(* Fusion and aggregation.                                                 *)

Elements(s) == {s[k] : k \in DOMAIN s}
Weight(s, rank) == Scale \div (s.k + rank)
DenseIds == [k \in DOMAIN dense |-> dense[k].example]
Retrieved == Elements(DenseIds) \cup Elements(lexical)

\* What a ranked list adds to an example's score.
Contribution(s, list, e) ==
    IF e \in Elements(list)
    THEN Weight(s, CHOOSE k \in DOMAIN list : list[k] = e)
    ELSE 0

Fused(s, e) == Contribution(s, DenseIds, e) + Contribution(s, lexical, e)

Support(i) == {e \in Retrieved : Owner[e] = i}
Supported == {Owner[e] : e \in Retrieved}

FusedScores(s) == [e \in Retrieved |-> Fused(s, e)]

\* Mutant: all of an intent's examples count.
SumOfAll(s, i) == SumFunctionOnSet(FusedScores(s), Support(i))

Least(m, n) == IF m < n THEN m ELSE n

\* The sum of an intent's topN best examples.
SumOfBest(s, i) ==
    LET fused == FusedScores(s)
        best == kSubset(Least(Cardinality(Support(i)), s.topN), Support(i))
    IN  Max({SumFunctionOnSet(fused, chosen) : chosen \in best})

\* round(score, 6).  A sum never lies halfway between two digits in the code.
Rounded(v) == ((v + Digit \div 2) \div Digit) * Digit
Score(s, i) == Rounded(SumOfBest(s, i))

BestSimilarity(i) ==
    LET hits == {k \in DOMAIN dense : Owner[dense[k].example] = i}
    IN  IF hits = {} THEN 0 ELSE Max({dense[k].similarity : k \in hits})

Ahead(s, i, j) ==
    \/ Score(s, i) > Score(s, j)
    \/ Score(s, i) = Score(s, j) /\ BestSimilarity(i) >= BestSimilarity(j)

\* Rankings by score, then similarity; what ties is in either order.
Rankings(s) ==
    {r \in SetToSeqs(Supported) :
        \A m, n \in DOMAIN r : m < n => Ahead(s, r[m], r[n])}

-----------------------------------------------------------------------------
(* Confidence.                                                             *)

\* Mutant: no upper limit.
ClampBelow(v) == IF v < 0 THEN 0 ELSE v

Clamp(v) == IF v < 0 THEN 0 ELSE IF v > 100 THEN 100 ELSE v

\* Mutant: the ceiling of one retriever, whatever the strategy.
CeilingOfOne(s) == SumFunction([rank \in 1..s.topN |-> Weight(s, rank)])

\* What an intent's examples add up to that hold the first topN ranks of every
\* list.
Ceiling(s) ==
    (IF s.dense /\ s.bm25 THEN 2 ELSE 1) * SumFunction([rank \in 1..s.topN |-> Weight(s, rank)])

Confidence(s, ranked) ==
    LET top == ranked[1]
        score == Score(s, top)
        second == IF Len(ranked) > 1 THEN Score(s, ranked[2]) ELSE 0
        rrf == IF Ceiling(s) > 0 THEN Clamp((100 * score) \div Ceiling(s)) ELSE 0
        margin == IF score > 0 THEN Clamp((100 * (score - second)) \div score) ELSE 0
        similar == IF s.dense
                   THEN Clamp((100 * (BestSimilarity(top) - SimFloor))
                                \div (SimCeil - SimFloor))
                   ELSE Clamp((rrf + margin) \div 2)
        backers == Cardinality(Support(top))
        support == (100 * Least(backers, SupportTarget)) \div SupportTarget
    IN  Clamp((Weights.dense * similar + Weights.rrf * rrf + Weights.margin * margin
                 + Weights.support * support) \div 100)

Unknown(reason, confidence, ranked) ==
    [intent |-> Nil, confidence |-> confidence, reason |-> reason, ranked |-> ranked]

\* The verdict on a ranking; an inactive intent can rank but not answer.
Decide(s, ranked) ==
    IF ranked = <<>> THEN Unknown("NO_EXAMPLES", 0, ranked)
    ELSE IF BestSimilarity(ranked[1]) < MinSimilarity /\ s.dense
    THEN Unknown("LOW_SIMILARITY", Confidence(s, ranked), ranked)
    ELSE IF Confidence(s, ranked) < Threshold
    THEN Unknown("LOW_CONFIDENCE", Confidence(s, ranked), ranked)
    ELSE IF ranked[1] \notin active
    THEN Unknown("NO_EXAMPLES", Confidence(s, ranked), ranked)
    ELSE [intent |-> ranked[1], confidence |-> Confidence(s, ranked), reason |-> Nil,
          ranked |-> ranked]

-----------------------------------------------------------------------------
(* Steps.                                                                  *)

NoOutcome == Unknown("NO_EXAMPLES", 0, <<>>)

VerdictInit ==
    /\ at = "idle"
    /\ queue = <<>>
    /\ active = {}
    /\ dense = <<>>
    /\ lexical = <<>>
    /\ outcome = NoOutcome
    /\ first = Nil
    /\ answer = Nil

Begin(variant) ==
    /\ at = "idle"
    /\ at' = "reading"
    /\ queue' = Select(variant)
    /\ UNCHANGED <<active, dense, lexical, outcome, first, answer>>

\* The active intents and the index are read; with neither there is no more
\* to do.
ReadIntents ==
    /\ at = "reading"
    /\ \E some \in SUBSET Intents, indexed \in BOOLEAN :
        /\ active' = some
        /\ at' = IF some = {} \/ ~indexed THEN "scored" ELSE "embedding"
    /\ UNCHANGED <<queue, dense, lexical, outcome, first, answer>>

\* The nearest examples of active intents.
RetrieveDense ==
    /\ at = "embedding"
    /\ IF Head(queue).dense
       THEN \E n \in 0..Head(queue).topK :
            \E ids \in UNION {SetToSeqs(S) :
                         S \in kSubset(n, {e \in Examples : Owner[e] \in active})} :
            \E similarity \in [DOMAIN ids -> Similarities] :
                /\ \A j, k \in DOMAIN ids : j < k => similarity[j] >= similarity[k]
                /\ dense' = [k \in DOMAIN ids |->
                               [example |-> ids[k], similarity |-> similarity[k]]]
       ELSE dense' = <<>>
    /\ at' = "searching"
    /\ UNCHANGED <<queue, active, lexical, outcome, first, answer>>

\* The best lexical matches in the index, whosever examples it holds.
RetrieveLexical ==
    /\ at = "searching"
    /\ IF Head(queue).bm25
       THEN \E n \in 0..Head(queue).topK :
            \E ids \in UNION {SetToSeqs(S) : S \in kSubset(n, Examples)} :
                lexical' = ids
       ELSE lexical' = <<>>
    /\ at' = "fusing"
    /\ UNCHANGED <<queue, active, dense, outcome, first, answer>>

Fuse ==
    /\ at = "fusing"
    /\ \E ranked \in Rankings(Head(queue)) : outcome' = Decide(Head(queue), ranked)
    /\ at' = "scored"
    /\ UNCHANGED <<queue, active, dense, lexical, first, answer>>

Forget == active' = {} /\ dense' = <<>> /\ lexical' = <<>> /\ outcome' = NoOutcome

Conclude(verdict) ==
    /\ at' = "answered"
    /\ answer' = verdict
    /\ queue' = <<>> /\ Forget

\* Mutant: a fall-back that matches is taken without the margin.
AcceptEasily ==
    /\ at = "scored"
    /\ outcome.intent # Nil
    /\ first' = IF first = Nil THEN outcome ELSE first
    /\ Conclude(outcome)

\* The first attempt that matches answers, and so does a later one that
\* matches with a margin above the threshold.
Accept ==
    /\ at = "scored"
    /\ outcome.intent # Nil
    /\ first # Nil => outcome.confidence >= Threshold + Margin
    /\ first' = IF first = Nil THEN outcome ELSE first
    /\ Conclude(outcome)

Declined ==
    \/ outcome.intent = Nil
    \/ first # Nil /\ outcome.confidence < Threshold + Margin

\* Nothing to retrieve, or nothing left to try: the first verdict stands.
GiveUp ==
    /\ at = "scored"
    /\ Declined
    /\ outcome.reason = "NO_EXAMPLES" \/ Len(queue) = 1
    /\ first' = IF first = Nil THEN outcome ELSE first
    /\ Conclude(first')

TryNext ==
    /\ at = "scored"
    /\ Declined
    /\ outcome.reason # "NO_EXAMPLES" /\ Len(queue) > 1
    /\ first' = IF first = Nil THEN outcome ELSE first
    /\ queue' = Tail(queue)
    /\ at' = "reading"
    /\ Forget
    /\ UNCHANGED answer

Deliberate ==
    \/ ReadIntents \/ RetrieveDense \/ RetrieveLexical \/ Fuse
    \/ Accept \/ GiveUp \/ TryNext

-----------------------------------------------------------------------------
(* Properties.                                                             *)

Current == Head(queue)
Scored == at = "scored" /\ Retrieved # {}

\* The ceiling a strategy is normalised by is out of reach of every intent but
\* for the rounding of its score: what the clamp on the fusion signal cuts off
\* is half a millionth at most (rrf.max_possible_score against the score that
\* aggregator.aggregate rounds, in confidence.compute).  With one retriever's
\* ceiling for both, or with all of an intent's examples counted, the signal
\* would be cut at 1 for intents of quite different evidence.
CeilingHolds ==
    Scored => \A i \in Supported : Score(Current, i) <= Ceiling(Current) + Digit \div 2

\* Numbers alone do not win: an intent with topN examples, each at least as
\* well ranked as every one of another's, scores no less, however many the
\* other has (aggregator.aggregate).
NumbersDoNotWin ==
    Scored =>
        \A i, j \in Supported :
            /\ Cardinality(Support(i)) >= Current.topN
            /\ \A e \in Support(i), d \in Support(j) :
                 Fused(Current, d) <= Fused(Current, e)
            => Score(Current, j) <= Score(Current, i)

\* The automatic mode overrules hybrid only when hybrid placed nothing, and
\* then only with an attempt above the threshold and the margin; otherwise it
\* reports hybrid's own verdict (ClassificationService._classify_auto).
RescueEarned ==
    at = "answered" /\ answer # first =>
        /\ first.intent = Nil
        /\ answer.intent # Nil
        /\ answer.confidence >= Threshold + Margin
=============================================================================
