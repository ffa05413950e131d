---------------------------- MODULE MCEvaluation ----------------------------
(* Evaluation of four cases of two domains, over two intents with up to    *)
(* three examples.                                                         *)
EXTENDS Evaluation, TLC

CONSTANTS i1, i2, e1, e2, e3, d1, d2, d3

OwnerOf == [e \in {e1, e2, e3} |-> IF e = e3 THEN i2 ELSE i1]
\* The last one is badly stated, and found out where d2 is configured; nobody
\* has a case for d3.
FourCases ==
    <<[domain |-> d1, expected |-> i1, askable |-> TRUE],
      [domain |-> d1, expected |-> UNKNOWN, askable |-> TRUE],
      [domain |-> d2, expected |-> i2, askable |-> TRUE],
      [domain |-> d2, expected |-> i1, askable |-> FALSE]>>
OneOrNone == {{}, {d1}, {d2}, {d3}}
TwoSimilarities == {55, 100}
SingleLists == <<"dense_only", "bm25_only">>
JustAuto == {"auto"}
Alike == Permutations({e1, e2})
=============================================================================
