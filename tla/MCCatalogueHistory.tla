------------------------- MODULE MCCatalogueHistory -------------------------
(* Small instances of CatalogueHistory for TLC. *)
EXTENDS CatalogueHistory, TLC

CONSTANT x

\* A text, and a batch that repeats itself.
RepeatedText == {<<x>>, <<x, x>>}

\* One classification against whatever may change the corpus under it.
EvidenceKinds == {"create_domain", "create_intent", "update_intent", "delete_intent",
                  "add_examples", "delete_example", "classify", "reindex"}

Sym == Permutations(Threads)
=============================================================================
