---------------------------- MODULE MCRegistry ----------------------------
(* Registry on small instances.  One of the two servers has a "." in its   *)
(* name and ends in "_", so that neither its qualified name nor its pair   *)
(* written with "." leads to it; one name has two spellings; and the       *)
(* binding could be taken for a tool of either server.                     *)
EXTENDS Registry, TLC

CONSTANTS i1, i2

Tokens == {"mcp", Underscore, "::", "/", ".", "s", "t", "T", i1, i2}
FoldCase == [token \in Tokens |-> IF token = "T" THEN "t" ELSE token]

SplitServers == {<<"s">>, <<"s", ".", "t", Underscore>>}
ShortName == <<"t">> \o Underscores \o <<"t">>
OtherSpelling == <<"T">> \o Underscores \o <<"t">>
LongName == <<"t", Underscore, ".">> \o ShortName
SplitNames == {ShortName, OtherSpelling, LongName}

Schema == [properties |-> {"e"}, required |-> {"e"}]
OneSchema == {Schema}
OneEntity == {"e"}
None == {}

TwoBindings == {Nil, <<"s", ".">> \o LongName}
OneLabel == {Nil, "label"}

Entry(name) == [name |-> name, schema |-> Schema]
\* A payload that lists one tool twice, in two spellings.
ImportPayloads == {<<Entry(OtherSpelling), Entry(ShortName)>>}

Symmetry == Permutations(Callers) \cup Permutations({i1, i2})
=============================================================================
