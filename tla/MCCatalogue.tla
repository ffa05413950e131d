---------------------------- MODULE MCCatalogue ----------------------------
(* Small instances of Catalogue for TLC. *)
EXTENDS Catalogue, TLC

CONSTANT x

OneText == {<<x>>}

AllKinds == Mutations \cup Readers

\* Just what it takes for a reader and a writer to meet.
WaitKinds == {"create_domain", "create_intent", "status"}

Sym == Permutations(Threads)

\* Uuids and names are only ever compared for equality.
IdSym == Permutations(Threads) \cup Permutations(DomainIds) \cup Permutations(IntentIds)
         \cup Permutations(ExampleIds) \cup Permutations(Names)
=============================================================================
