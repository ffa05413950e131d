---------------------------- MODULE MCAuthoring ----------------------------
(* Authoring with two intents, one of whose names comes in two spellings,  *)
(* four texts, two of them equal in normal form and one a phrasing of the  *)
(* rule-based provider, and four replies of a model.                       *)
EXTENDS Authoring, TLC

CONSTANTS t1, t2, k1, ghost, a, b, c

Names3 == {"SEARCH", "Search", "DETAILS"}
FoldNames == [n \in Names3 |-> IF n = "Search" THEN "SEARCH" ELSE n]
CoercedNames ==
    [n \in Names3 \cup {"?"} |-> IF n = "?" THEN Nil ELSE FoldNames[n]]

t3 == <<"SEARCH", 1>>
TypedTexts == {t1, t2, t3}
AllTexts ==
    TypedTexts \cup UNION {{<<op, k>>, <<op, k, "please">>} :
                            op \in {"SEARCH", "DETAILS"}, k \in 1..MaxPhrasings}
NormTexts == [t \in AllTexts |-> IF t = t2 THEN t1 ELSE t]
SelfQuotes == {<<t, t>> : t \in AllTexts \ {t2}}    \* t2 ends in a space

K1Searches == {<<k1, "SEARCH">>}
FieldKeys ==
    [f \in {"counterparty", "status", "Status", "record_id", "!"} |->
        IF f = "!" THEN Nil ELSE IF f = "Status" THEN "status" ELSE f]

TwoPairs == {<<a, b>>, <<c, Empty>>}

Proposal(name, tool, schema, texts) ==
    [name |-> name, tool |-> tool, schema |-> schema, texts |-> texts]
SomeReplies ==
    {<<Proposal("SEARCH", k1,
                <<Field("status", "enum"), Field("Status", "array"), Field("!", "date")>>,
                <<t3, t1, t2>>)>>,
     <<Proposal("Search", ghost, <<Field("status", "money")>>, <<>>),
       Proposal("DETAILS", Nil, <<>>, <<t3>>)>>,
     <<Proposal("?", Nil, <<>>, <<t1>>)>>,
     <<Proposal("DETAILS", k1, <<[Field("status", "enum") EXCEPT !.values = Nil]>>, <<t1>>)>>}
SomeBatches == {<<t3, t1>>, <<t2, t3>>}

Providers == {"mock", "openai"}
=============================================================================
