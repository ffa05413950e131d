---------------------------- MODULE MCLifecycle ----------------------------
(* Two domains; the demo catalogue has one, with two intents.              *)
EXTENDS Lifecycle, TLC

CONSTANTS d1, d2, n1, n2, x, y, c

TwoIntents == {<<d1, n1>>, <<d1, n2>>}
OneDomain ==
    [domains |-> (d1 :> c @@ d2 :> Nil),
     intents |-> (<<d1, n1>> :> c @@ <<d1, n2>> :> c),
     examples |-> {<<<<d1, n1>>, x>>, <<<<d1, n1>>, y>>}]
=============================================================================
