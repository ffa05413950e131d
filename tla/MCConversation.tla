--------------------------- MODULE MCConversation ---------------------------
(* Small instances of Conversation for TLC. *)
EXTENDS Conversation, TLC

CONSTANTS search, expiry, party, other

\* One intent declares an entity, the other none; no intent declares the
\* other entity.
OneSchema == (search :> {party}) @@ (expiry :> {})

Sym == Permutations(Requests) \cup Permutations(Sessions) \cup Permutations(Domains)
=============================================================================
