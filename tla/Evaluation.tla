----------------------------- MODULE Evaluation -----------------------------
(***************************************************************************)
(* The held-out evaluation (services/evaluation.py): every case of a       *)
(* dataset is classified against the live catalogue, by the verdict of     *)
(* module Verdict, while domains come and go.  The set of domains is read  *)
(* once, before the first case; a case whose domain is gone by its turn is *)
(* an error, not a skip.  A case the dataset states badly is neither: it   *)
(* raises outside the handler of errors, and the run ends without a report.*)
(***************************************************************************)
EXTENDS Verdict

CONSTANTS
    DefaultStrategy,    \* settings.default_strategy
    AbVariants,     \* settings.ab_variants, built-in names; <<>> with ab_testing off
    Configurations, \* sets of domains that may be configured
    Cases,      \* the dataset: [domain, expected, askable]
    MaxChanges  \* bound: domains created or deleted meanwhile

UNKNOWN == "UNKNOWN"
ERROR == "ERROR"

\* The dataset is a list.  A case has a domain and an expected intent (or
\* UNKNOWN), Nil where the file leaves one out; it is askable if its query and
\* its domain's name are of a length ClassifyRequest takes.  What a case expects
\* is not how an error is noted.
ASSUME CasesAssumption ==
    /\ Len(Cases) \in Nat /\ DOMAIN Cases = 1..Len(Cases)
    /\ \A k \in DOMAIN Cases : Cases[k].expected # ERROR

\* What is wrong with a run that did not come to its end.
Incomplete == {"no cases", "no domains", "aborted"}

VARIABLES
    present,    \* the domains configured now
    known,      \* the domains listed when the run began
    variant,    \* the variant every case asks for, or Nil
    next,       \* the next case; 0 before the run
    results,    \* case -> its result, for the cases evaluated
    skipped,    \* domains the report notes as not configured
    problem,    \* why there is nothing in the report, or no report, or Nil
    changes

reportVars == <<known, variant, next, results, skipped, problem>>
vars == <<verdictVars, present, reportVars, changes>>

Init ==
    /\ VerdictInit
    /\ present \in Configurations
    /\ known = {}
    /\ variant = Nil
    /\ next = 0
    /\ results = <<>>
    /\ skipped = {}
    /\ problem = Nil
    /\ changes = 0

Case == Cases[next]
Running == at = "idle" /\ next \in DOMAIN Cases
Result(case, predicted, ranked) ==
    [expected |-> case.expected, predicted |-> predicted,
     inTop3 |-> \E k \in DOMAIN ranked : k <= 3 /\ ranked[k] = case.expected]
Record(case, predicted, ranked) ==
    /\ case.expected # Nil
    /\ results' = [k \in DOMAIN results \cup {next} |->
                  IF k = next THEN Result(case, predicted, ranked) ELSE results[k]]

\* StrategySelector.select: what is asked for, else with A/B testing any of the
\* variants, by a digest of the request's identifier, else the default.
Assigned(asked) ==
    IF asked # Nil THEN {asked}
    ELSE IF Len(AbVariants) > 1 THEN Elements(AbVariants)
    ELSE {DefaultStrategy}

\* The page's form names a variant or none.  The dataset may be missing, and no
\* domain may be configured.
StartEvaluation ==
    /\ next = 0
    /\ variant' \in Variants \cup {Nil}
    /\ \E readable \in BOOLEAN :
        /\ problem' = IF ~readable THEN "no cases"
                      ELSE IF present = {} THEN "no domains" ELSE Nil
        /\ next' = IF readable /\ present # {} THEN 1 ELSE Len(Cases) + 2
    /\ known' = present
    /\ UNCHANGED <<verdictVars, present, results, skipped, changes>>

SkipCase ==
    /\ Running
    /\ Case.domain \notin known \cup {Nil}
    /\ skipped' = skipped \cup {Case.domain}
    /\ next' = next + 1
    /\ UNCHANGED <<verdictVars, present, known, variant, results, problem, changes>>

\* Mutant: a domain that was deleted meanwhile is passed over.
FailCaseSilently ==
    /\ Running
    /\ Case.domain \in known \ present /\ Case.askable
    /\ next' = next + 1
    /\ UNCHANGED <<verdictVars, present, known, variant, results, skipped, problem, changes>>

\* A case whose domain is not there by now is classified and raises.
FailCase ==
    /\ Running
    /\ Case.domain \in known \ present /\ Case.askable
    /\ Record(Case, ERROR, <<>>)
    /\ next' = next + 1
    /\ UNCHANGED <<verdictVars, present, known, variant, skipped, problem, changes>>

ClassifyCase ==
    /\ Running
    /\ Case.domain \in known \cap present /\ Case.askable
    /\ \E name \in Assigned(variant) : Begin(name)
    /\ UNCHANGED <<present, reportVars, changes>>

Classify == Deliberate /\ UNCHANGED <<present, reportVars, changes>>

\* A classification may raise at any point; the run goes on.
BreakCase ==
    /\ at \notin {"idle", "answered"}
    /\ Record(Case, ERROR, <<>>)
    /\ next' = next + 1
    /\ at' = "idle" /\ queue' = <<>> /\ first' = Nil /\ Forget
    /\ UNCHANGED <<answer, present, known, variant, skipped, problem, changes>>

RecordCase ==
    /\ at = "answered"
    /\ Record(Case, IF answer.intent = Nil THEN UNKNOWN ELSE answer.intent, answer.ranked)
    /\ next' = next + 1
    /\ at' = "idle" /\ first' = Nil /\ answer' = Nil
    /\ UNCHANGED <<queue, active, dense, lexical, outcome>>
    /\ UNCHANGED <<present, known, variant, skipped, problem, changes>>

\* A case without a domain, one ClassifyRequest refuses, and one with nothing
\* expected once its result is to be noted: each ends the run, and what it had
\* found goes with it.
Unusable ==
    \/ Running /\ Case.domain = Nil
    \/ Running /\ Case.domain \in known /\ ~Case.askable
    \/ Running /\ Case.domain \in known \ present /\ Case.expected = Nil
    \/ at # "idle" /\ Case.expected = Nil

AbortRun ==
    /\ Unusable
    /\ next' = Len(Cases) + 2
    /\ results' = <<>> /\ skipped' = {}
    /\ problem' = "aborted"
    /\ at' = "idle" /\ queue' = <<>> /\ first' = Nil /\ answer' = Nil /\ Forget
    /\ UNCHANGED <<present, known, variant, changes>>

Finish ==
    /\ at = "idle" /\ next = Len(Cases) + 1
    /\ next' = next + 1
    /\ problem' = IF results = <<>> THEN "every case skipped" ELSE Nil
    /\ UNCHANGED <<verdictVars, present, known, variant, results, skipped, changes>>

\* Somebody creates or deletes domains.  A change during a classification is
\* seen by the next case only, so it may as well come after it.
ChangeDomains ==
    /\ at = "idle"
    /\ changes < MaxChanges
    /\ changes' = changes + 1
    /\ present' \in Configurations \ {present}
    /\ UNCHANGED <<verdictVars, reportVars>>

Next ==
    \/ StartEvaluation \/ SkipCase \/ FailCase \/ ClassifyCase \/ Classify
    \/ BreakCase \/ RecordCase \/ AbortRun \/ Finish \/ ChangeDomains

Spec == Init /\ [][Next]_vars

-----------------------------------------------------------------------------
(* The report's figures, in percent.                                       *)

InDomain == {k \in DOMAIN results : results[k].expected # UNKNOWN}
OutDomain == DOMAIN results \ InDomain
Correct == {k \in DOMAIN results : results[k].predicted = results[k].expected}
InTop3 == {k \in DOMAIN results : results[k].inTop3}
Unplaced == {k \in DOMAIN results : results[k].predicted = UNKNOWN}

Ratio(part, whole) ==
    IF whole = {} THEN 0 ELSE (100 * Cardinality(part)) \div Cardinality(whole)
Top1 == Ratio(InDomain \cap Correct, InDomain)
Top3 == Ratio(InDomain \cap InTop3, InDomain)
UnknownDetection == Ratio(OutDomain \cap Unplaced, OutDomain)
FalseUnknown == Ratio(InDomain \cap Unplaced, InDomain)

\* For each intent expected by a case, how many there are and how many hit it.
PerIntent ==
    [i \in {results[k].expected : k \in InDomain} |->
        LET rows == {k \in InDomain : results[k].expected = i}
        IN  [total |-> Cardinality(rows), correct |-> Cardinality(rows \cap Correct)]]

-----------------------------------------------------------------------------
(* Properties.                                                             *)

\* Every variable has its type.
TypeOK ==
    /\ at \in {"idle", "reading", "embedding", "searching", "fusing", "scored", "answered"}
    /\ active \subseteq Intents
    /\ Elements(DenseIds) \subseteq Examples /\ Elements(lexical) \subseteq Examples
    /\ \A o \in {outcome, first, answer} \ {Nil} :
        /\ o.intent \in Intents \cup {Nil}
        /\ o.confidence \in 0..100
        /\ o.ranked \in Seq(Intents)
    /\ next \in 0..(Len(Cases) + 2)
    /\ DOMAIN results \subseteq DOMAIN Cases
    /\ skipped \subseteq {Cases[k].domain : k \in DOMAIN Cases}

\* No case is lost from a report: each one passed has a result or its domain is
\* noted as skipped, also when the domain was deleted, created or renamed during the run;
\* and the figures agree with each other: whatever strategy answered, an intent
\* that was right was also ranked (top 3 is never below top 1), one is not
\* counted as right and as a false UNKNOWN, and the rows per intent add up to
\* the whole (run_evaluation, EvaluationReport).
CasesAccounted ==
    /\ problem \notin Incomplete =>
         \A k \in 1..(next - 1) : k \in DOMAIN Cases =>
             k \in DOMAIN results \/ Cases[k].domain \in skipped
    /\ Top1 <= Top3 /\ Top1 + FalseUnknown <= 100
    /\ UnknownDetection = Ratio(OutDomain \cap Correct, OutDomain)
    /\ SumFunction([i \in DOMAIN PerIntent |-> PerIntent[i].total]) = Cardinality(InDomain)
    /\ SumFunction([i \in DOMAIN PerIntent |-> PerIntent[i].correct]) =
         Cardinality(InDomain \cap Correct)
=============================================================================
