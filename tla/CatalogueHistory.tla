-------------------------- MODULE CatalogueHistory --------------------------
(***************************************************************************)
(* What a classification may take for granted about the index it was given.*)
(*                                                                         *)
(* Two history variables watch the corpus from the moment the handler      *)
(* admits a request.  They record and never restrict: Catalogue's steps are *)
(* all here, unchanged.                                                    *)
(***************************************************************************)
EXTENDS Catalogue

VARIABLES
    steady,  \* documents in the corpus at every moment of the request so far
    alive    \* documents in the corpus at some moment of the request so far

hvars == <<vars, steady, alive>>

Watch ==
    /\ steady' = [t \in Threads |->
           IF pc'[t] = "idle" THEN {}
           ELSE IF pc[t] = "idle" THEN (Corpus(req[t].dom))'
           ELSE steady[t] \cap (Corpus(req[t].dom))']
    /\ alive' = [t \in Threads |->
           IF pc'[t] = "idle" THEN {}
           ELSE IF pc[t] = "idle" THEN (Corpus(req[t].dom))'
           ELSE alive[t] \cup (Corpus(req[t].dom))']

HInit == Init /\ steady = [t \in Threads |-> {}] /\ alive = [t \in Threads |-> {}]
HSpec == HInit /\ [][Next /\ Watch]_hvars

\* Read your writes, and nothing invented: until a Chroma call fails, the
\* documents a classification ranks include every one that was classifiable
\* for the whole request, and only ones that were classifiable at some moment
\* of it, although get() may return an index a writer is about to replace
\* (README: "the new phrasing is classifiable on the very next request").
EvidenceIsCurrent ==
    faults = 0 =>
        \A t \in Threads :
            pc[t] = "fetched" => steady[t] \subseteq held[t] /\ held[t] \subseteq alive[t]
=============================================================================
