---------------------------- MODULE EvidenceProof ----------------------------
(* What a reader of the catalogue may conclude from a dirty mark and from the *)
(* index it was handed, for every set of threads, ids, names and texts.       *)
EXTENDS CatalogueHistory, CatalogueProof

(****************************** dirty marks ********************************)

\* The labels at which a thread is going to rebuild the domain it serves.
Rebuilding(t) == pc[t] \in {"flagged", "building", "listed", "wantIndex"}

\* A service's step leaves the marks to whoever answers for them.
LEMMA MutateDirty ==
  ASSUME TypeOK, DirtyMeansFailed, NEW t \in Threads, Mutate(t)
  PROVE  DirtyMeansFailed'
<1>1. ~Rebuilding(t)
  BY DEF Mutate, Rebuilding, ReadIntent, Refuse, CreateDomain, UpdateDomain, RenameDomain,
         DeleteDomainExamples, DeleteDomainIntents, DeleteDomainRow, DropIndex, CreateIntent,
         UpdateIntent, RenameExamples, DeleteIntentExamples, DeleteIntentRow, AddExamples,
         DeleteExample, Enter
<1>2. dirty' \subseteq dirty /\ faults' = faults
  BY DEF Mutate, ReadIntent, Refuse, CreateDomain, UpdateDomain, RenameDomain,
         DeleteDomainExamples, DeleteDomainIntents, DeleteDomainRow, DropIndex, CreateIntent,
         UpdateIntent, RenameExamples, DeleteIntentExamples, DeleteIntentRow, AddExamples,
         DeleteExample, Enter, indexes, counters
<1>3. \A u \in Threads \ {t} : pc'[u] = pc[u] /\ req'[u] = req[u]
  BY DEF TypeOK, ThreadsTyped, Mutate, ReadIntent, Refuse, CreateDomain, UpdateDomain, RenameDomain,
         DeleteDomainExamples, DeleteDomainIntents, DeleteDomainRow, DropIndex, CreateIntent,
         UpdateIntent, RenameExamples, DeleteIntentExamples, DeleteIntentRow, AddExamples,
         DeleteExample, Enter, GoTo, Return
<1> QED BY <1>1, <1>2, <1>3 DEF DirtyMeansFailed, Rebuilding

\* A mark is only ever set by a thread that goes on to build, and a thread that
\* stops short of building found no mark or has cleared it.
LEMMA ServeDirty ==
  ASSUME TypeOK, DirtyMeansFailed, NEW t \in Threads, Serve(t)
  PROVE  DirtyMeansFailed'
<1>a. dirty \subseteq DomainIds /\ pc \in [Threads -> Labels] /\ req \in [Threads -> Request]
  BY DEF TypeOK, IndexesTyped, ThreadsTyped
<1>1. CASE MarkDirty(t)
  <2>1. /\ dirty' = dirty \cup {req[t].dom} /\ faults' = faults /\ req' = req
        /\ pc'[t] = "flagged" /\ \A u \in Threads \ {t} : pc'[u] = pc[u]
        /\ ~Rebuilding(t)
    BY <1>1, <1>a DEF MarkDirty, GoTo, counters, Rebuilding
  <2> QED BY <2>1 DEF DirtyMeansFailed, Rebuilding
<1>2. CASE Build(t) \/ ListActive(t) \/ GetStale(t)
  <2>1. /\ dirty' = dirty /\ faults' = faults /\ req' = req
        /\ pc'[t] \in {"building", "listed"} /\ \A u \in Threads \ {t} : pc'[u] = pc[u]
    BY <1>2, <1>a DEF Build, ListActive, GetStale, GoTo, indexes, counters
  <2> QED BY <2>1 DEF DirtyMeansFailed
<1>3. CASE Collect(t)
  <2>1. /\ dirty' = dirty \ {req[t].dom} /\ faults' = faults
        /\ \A u \in Threads \ {t} : pc'[u] = pc[u] /\ req'[u] = req[u]
    BY <1>3, <1>a DEF Collect, Return, counters
  <2> QED BY <2>1 DEF DirtyMeansFailed
<1>4. CASE GetReady(t)
  <2>1. /\ dirty' = dirty /\ faults' = faults /\ req' = req /\ req[t].dom \notin dirty
        /\ \A u \in Threads \ {t} : pc'[u] = pc[u]
    BY <1>4, <1>a DEF GetReady, IsReady, indexes, counters
  <2> QED BY <2>1 DEF DirtyMeansFailed
<1>5. CASE OpenStatus(t) \/ CountExamples(t) \/ ListIntents(t) \/ Respond(t)
  <2>1. /\ dirty' = dirty /\ faults' = faults /\ ~Rebuilding(t)
        /\ \A u \in Threads \ {t} : pc'[u] = pc[u] /\ req'[u] = req[u]
    BY <1>5, <1>a DEF OpenStatus, CountExamples, ListIntents, Respond, GoTo, Return, indexes,
                      counters, Rebuilding
  <2> QED BY <2>1 DEF DirtyMeansFailed, Rebuilding
<1> QED BY <1>1, <1>2, <1>3, <1>4, <1>5 DEF Serve

\* DirtyMeansFailed is inductive.
LEMMA NextDirty == TypeOK /\ DirtyMeansFailed /\ [Next]_vars => DirtyMeansFailed'
<1> SUFFICES ASSUME TypeOK, DirtyMeansFailed, [Next]_vars PROVE DirtyMeansFailed'
  OBVIOUS
<1>a. pc \in [Threads -> Labels] /\ req \in [Threads -> Request] /\ faults \in Nat
  BY DEF TypeOK, ThreadsTyped, LocksTyped
<1>1. ASSUME NEW t \in Threads, NEW r \in Requests, Admit(t, r)
      PROVE  DirtyMeansFailed'
  <2>1. /\ dirty' = dirty /\ faults' = faults /\ ~Rebuilding(t)
        /\ \A u \in Threads \ {t} : pc'[u] = pc[u] /\ req'[u] = req[u]
    BY <1>1, <1>a DEF Admit, indexes, counters, Rebuilding
  <2> QED BY <2>1 DEF DirtyMeansFailed, Rebuilding
<1>2. ASSUME NEW t \in Threads, Fail(t)
      PROVE  DirtyMeansFailed'
  BY <1>2, <1>a DEF Fail, DirtyMeansFailed
<1>3. CASE Restart
  BY <1>3 DEF Restart, DirtyMeansFailed
<1>4. CASE UNCHANGED vars
  BY <1>4 DEF vars, indexes, threads, counters, DirtyMeansFailed
<1> QED BY <1>1, <1>2, <1>3, <1>4, MutateDirty, ServeDirty DEF Next

\* A domain left marked dirty with no thread about to rebuild it had a Chroma
\* call fail, whatever mutations, rebuilds and classifications overlapped
\* (index_manager.mark_dirty and build; README: "a `dirty` state means a
\* mutation failed").
THEOREM DirtyOnlyAfterFailure == Spec => []DirtyMeansFailed
<1>1. Init => DirtyMeansFailed
  BY DEF Init, DirtyMeansFailed
<1> QED BY <1>1, NextDirty, TypeCorrect, PTL DEF Spec

(**************************** steps of a request ***************************)

\* The definitions a step of a service or of the index manager unfolds to.
LEMMA MutateFrame ==
  ASSUME TypeOK, NEW t \in Threads, Mutate(t)
  PROVE  /\ faults' = faults
         /\ pc[t] # "idle" /\ pc'[t] \notin {"listed", "fetched"}
         /\ pc'[t] # "idle" => req'[t].dom = req[t].dom
         /\ \A u \in Threads \ {t} : /\ pc'[u] = pc[u] /\ req'[u] = req[u]
                                     /\ actives'[u] = actives[u] /\ held'[u] = held[u]
         /\ \A d \in DomainIds : IsReady(d)' => IsReady(d) /\ index'[d] = index[d]
<1>1. \/ UNCHANGED indexes
      \/ /\ index' = [index EXCEPT ![req[t].dom] = Nil]
         /\ dirty' = dirty \ {req[t].dom}
  BY DEF Mutate, ReadIntent, Refuse, CreateDomain, UpdateDomain, RenameDomain,
         DeleteDomainExamples, DeleteDomainIntents, DeleteDomainRow, DropIndex, CreateIntent,
         UpdateIntent, RenameExamples, DeleteIntentExamples, DeleteIntentRow, AddExamples,
         DeleteExample, Enter
<1>2. \A d \in DomainIds : IsReady(d)' => IsReady(d) /\ index'[d] = index[d]
  BY <1>1 DEF IsReady, indexes, TypeOK, IndexesTyped
<1>3. faults' = faults /\ pc[t] # "idle"
  BY DEF Mutate, ReadIntent, Refuse, CreateDomain, UpdateDomain, RenameDomain,
         DeleteDomainExamples, DeleteDomainIntents, DeleteDomainRow, DropIndex, CreateIntent,
         UpdateIntent, RenameExamples, DeleteIntentExamples, DeleteIntentRow, AddExamples,
         DeleteExample, Enter, counters
<1>4. \/ Return(t) \/ \E label \in Labels \ {"listed", "fetched"} : GoTo(t, label)
      \/ ReadIntent(t)
  BY DEF Mutate, Refuse, CreateDomain, UpdateDomain, RenameDomain,
         DeleteDomainExamples, DeleteDomainIntents, DeleteDomainRow, DropIndex, CreateIntent,
         UpdateIntent, RenameExamples, DeleteIntentExamples, DeleteIntentRow, AddExamples,
         DeleteExample, Labels
<1>5. /\ pc'[t] \notin {"listed", "fetched"}
      /\ pc'[t] # "idle" => req'[t].dom = req[t].dom
      /\ \A u \in Threads \ {t} : /\ pc'[u] = pc[u] /\ req'[u] = req[u]
                                  /\ actives'[u] = actives[u] /\ held'[u] = held[u]
  <2>1. req[t] \in Request
    BY DEF TypeOK, ThreadsTyped
  <2> QED BY <1>4, <2>1 DEF ReadIntent, Return, GoTo, TypeOK, ThreadsTyped, Request
<1> QED BY <1>2, <1>3, <1>5

\* A thread keeps its domain for as long as it serves its request.
LEMMA DomainKept ==
  ASSUME TypeOK, [Next]_vars, NEW t \in Threads, pc[t] # "idle", pc'[t] # "idle"
  PROVE  req'[t].dom = req[t].dom
<1>a. pc \in [Threads -> Labels] /\ req \in [Threads -> Request]
  BY DEF TypeOK, ThreadsTyped
<1>1. ASSUME NEW u \in Threads, NEW r \in Requests, Admit(u, r)
      PROVE  req'[t].dom = req[t].dom
  BY <1>1, <1>a DEF Admit
<1>2. ASSUME NEW u \in Threads, Mutate(u)
      PROVE  req'[t].dom = req[t].dom
  BY <1>2, MutateFrame
<1>3. ASSUME NEW u \in Threads, Serve(u)
      PROVE  req'[t].dom = req[t].dom
  BY <1>3, <1>a DEF Serve, MarkDirty, Build, ListActive, Collect, OpenStatus, CountExamples,
                    ListIntents, GetReady, GetStale, Respond, GoTo, Return
<1>4. ASSUME NEW u \in Threads, Fail(u)
      PROVE  req'[t].dom = req[t].dom
  BY <1>4, <1>a DEF Fail, Return
<1>5. CASE Restart
  BY <1>5 DEF Restart
<1>6. CASE UNCHANGED vars
  BY <1>6 DEF vars, threads
<1> QED BY <1>1, <1>2, <1>3, <1>4, <1>5, <1>6 DEF Next

\* Failures are only forgotten by a restart, which ends every request.
LEMMA FaultsKept ==
  ASSUME TypeOK, [Next]_vars, faults' = 0
  PROVE  faults = 0 \/ \A t \in Threads : pc'[t] = "idle"
<1>a. faults \in Nat
  BY DEF TypeOK, LocksTyped
<1>1. ASSUME NEW u \in Threads, NEW r \in Requests, Admit(u, r)
      PROVE  faults' = faults
  BY <1>1 DEF Admit, counters
<1>2. ASSUME NEW u \in Threads, Mutate(u)
      PROVE  faults' = faults
  BY <1>2, MutateFrame
<1>3. ASSUME NEW u \in Threads, Serve(u)
      PROVE  faults' = faults
  BY <1>3 DEF Serve, MarkDirty, Build, ListActive, Collect, OpenStatus, CountExamples,
              ListIntents, GetReady, GetStale, Respond, counters
<1>4. ASSUME NEW u \in Threads, Fail(u)
      PROVE  FALSE
  BY <1>4, <1>a DEF Fail
<1>5. CASE Restart
  BY <1>5 DEF Restart
<1>6. CASE UNCHANGED vars
  BY <1>6 DEF vars, counters
<1> QED BY <1>1, <1>2, <1>3, <1>4, <1>5, <1>6 DEF Next

\* A request on a domain begins with the store free: its handler has just read
\* the domain's row.
LEMMA BeginsUnlocked ==
  ASSUME TypeOK, LockDiscipline, [Next]_vars,
         NEW t \in Threads, pc[t] = "idle", pc'[t] # "idle"
  PROVE  storeLock' = Nil \/ req'[t].dom \notin DomainIds
<1>a. pc \in [Threads -> Labels] /\ req \in [Threads -> Request]
  BY DEF TypeOK, ThreadsTyped
<1>1. ASSUME NEW u \in Threads, NEW r \in Requests, Admit(u, r)
      PROVE  storeLock' = Nil \/ req'[t].dom \notin DomainIds
  <2>1. u = t
    BY <1>1, <1>a DEF Admit
  <2>2. storeLock # t
    BY DEF LockDiscipline, InStore
  <2> QED BY <1>1, <1>a, <2>1, <2>2, NilAssumption DEF Admit, StoreFree, locks
<1>2. ASSUME NEW u \in Threads, Mutate(u)
      PROVE  FALSE
  BY <1>2, MutateFrame
<1>3. ASSUME NEW u \in Threads, Serve(u)
      PROVE  FALSE
  <2>1. u # t
    BY <1>3 DEF Serve, MarkDirty, Build, ListActive, Collect, OpenStatus, CountExamples,
                ListIntents, GetReady, GetStale, Respond
  <2> QED BY <1>3, <1>a, <2>1 DEF Serve, MarkDirty, Build, ListActive, Collect, OpenStatus,
                CountExamples, ListIntents, GetReady, GetStale, Respond, GoTo, Return
<1>4. ASSUME NEW u \in Threads, Fail(u)
      PROVE  FALSE
  BY <1>4, <1>a DEF Fail, Return
<1>5. CASE Restart
  BY <1>5 DEF Restart
<1>6. CASE UNCHANGED vars
  BY <1>6 DEF vars, threads
<1> QED BY <1>1, <1>2, <1>3, <1>4, <1>5, <1>6 DEF Next

\* An index that may be handed out was there before, or is what a build has
\* just collected, or was warmed by a restart.
LEMMA ReadyFrom ==
  ASSUME TypeOK, [Next]_vars, NEW d \in DomainIds, IsReady(d)'
  PROVE  \/ IsReady(d) /\ index'[d] = index[d]
         \/ \E t \in Threads : Collect(t) /\ req[t].dom = d /\ index'[d].docs = DocsOf(d, actives[t])
         \/ storeLock' = Nil
<1>a. index \in [DomainIds -> Bm25Index \cup {Nil}]
  BY DEF TypeOK, IndexesTyped
<1>1. ASSUME NEW u \in Threads, NEW r \in Requests, Admit(u, r)
      PROVE  IsReady(d) /\ index'[d] = index[d]
  BY <1>1 DEF Admit, indexes, IsReady
<1>2. ASSUME NEW u \in Threads, Mutate(u)
      PROVE  IsReady(d) /\ index'[d] = index[d]
  BY <1>2, MutateFrame
<1>3. ASSUME NEW u \in Threads, Serve(u), ~Collect(u)
      PROVE  IsReady(d) /\ index'[d] = index[d]
  BY <1>3 DEF Serve, MarkDirty, Build, ListActive, OpenStatus, CountExamples, ListIntents, GetReady,
              GetStale, Respond, indexes, IsReady
<1>4. ASSUME NEW u \in Threads, Collect(u)
      PROVE  \/ IsReady(d) /\ index'[d] = index[d]
             \/ req[u].dom = d /\ index'[d].docs = DocsOf(d, actives[u])
  BY <1>4, <1>a DEF Collect, IsReady
<1>5. ASSUME NEW u \in Threads, Fail(u)
      PROVE  IsReady(d) /\ index'[d] = index[d]
  BY <1>5 DEF Fail, indexes, IsReady
<1>6. CASE Restart
  BY <1>6 DEF Restart
<1>7. CASE UNCHANGED vars
  BY <1>7 DEF vars, indexes, IsReady
<1> QED BY <1>1, <1>2, <1>3, <1>4, <1>5, <1>6, <1>7 DEF Next

\* A build that has listed the intents had listed them before, or lists them
\* with the store its own.
LEMMA ListedFrom ==
  ASSUME TypeOK, [Next]_vars, NEW u \in Threads, pc'[u] = "listed"
  PROVE  \/ pc[u] = "listed" /\ actives'[u] = actives[u]
         \/ StoreFree(u)'
<1>a. pc \in [Threads -> Labels] /\ actives \in [Threads -> ActiveMap]
  BY DEF TypeOK, ThreadsTyped
<1>1. ASSUME NEW t \in Threads, NEW r \in Requests, Admit(t, r)
      PROVE  pc[u] = "listed" /\ actives'[u] = actives[u]
  BY <1>1, <1>a DEF Admit
<1>2. ASSUME NEW t \in Threads, Mutate(t)
      PROVE  pc[u] = "listed" /\ actives'[u] = actives[u]
  <2>1. t # u
    BY <1>2, MutateFrame
  <2> QED BY <1>2, <2>1, MutateFrame
<1>3. ASSUME NEW t \in Threads, Serve(t)
      PROVE  \/ pc[u] = "listed" /\ actives'[u] = actives[u]
             \/ StoreFree(u)'
  <2>1. CASE ListActive(t)
    BY <1>a, <2>1 DEF ListActive, StoreFree, locks
  <2>2. CASE ~ListActive(t)
    BY <1>3, <1>a, <2>2 DEF Serve, MarkDirty, Build, Collect, OpenStatus, CountExamples,
                            ListIntents, GetReady, GetStale, Respond, GoTo, Return
  <2> QED BY <2>1, <2>2
<1>4. ASSUME NEW t \in Threads, Fail(t)
      PROVE  pc[u] = "listed" /\ actives'[u] = actives[u]
  BY <1>4, <1>a DEF Fail, Return
<1>5. CASE Restart
  BY <1>5 DEF Restart
<1>6. CASE UNCHANGED vars
  BY <1>6 DEF vars, threads
<1> QED BY <1>1, <1>2, <1>3, <1>4, <1>5, <1>6 DEF Next

\* The documents a classification holds are the ones it held, the ones of an
\* index it found ready, or the ones it has just collected itself.
LEMMA HeldFrom ==
  ASSUME TypeOK, [Next]_vars, NEW t \in Threads, pc'[t] = "fetched"
  PROVE  \/ pc[t] = "fetched" /\ held'[t] = held[t]
         \/ /\ pc[t] # "idle" /\ req[t].dom \in DomainIds /\ req'[t].dom = req[t].dom
            /\ \/ /\ IsReady(req[t].dom) /\ held'[t] = index[req[t].dom].docs
                  /\ faults' = faults
               \/ Collect(t) /\ held'[t] = DocsOf(req[t].dom, actives[t])
<1>a. /\ pc \in [Threads -> Labels] /\ held \in [Threads -> SUBSET Doc]
      /\ \A u \in Threads : pc[u] \notin {"idle", "admitted"} => req[u].dom \in DomainIds
  BY DEF TypeOK, ThreadsTyped
<1>1. ASSUME NEW u \in Threads, NEW r \in Requests, Admit(u, r)
      PROVE  pc[t] = "fetched" /\ held'[t] = held[t]
  BY <1>1, <1>a DEF Admit
<1>2. ASSUME NEW u \in Threads, Mutate(u)
      PROVE  pc[t] = "fetched" /\ held'[t] = held[t]
  <2>1. u # t
    BY <1>2, MutateFrame
  <2> QED BY <1>2, <2>1, MutateFrame
<1>3. ASSUME NEW u \in Threads, u # t, Serve(u)
      PROVE  pc[t] = "fetched" /\ held'[t] = held[t]
  BY <1>3, <1>a DEF Serve, MarkDirty, Build, ListActive, Collect, OpenStatus, CountExamples,
                    ListIntents, GetReady, GetStale, Respond, GoTo, Return
<1>4. CASE Collect(t)
  <2>1. pc[t] # "idle" /\ req[t].dom \in DomainIds
    BY <1>4, <1>a DEF Collect
  <2>2. held'[t] = DocsOf(req[t].dom, actives[t]) /\ req' = req
    BY <1>4, <1>a DEF Collect, Return
  <2> QED BY <1>4, <2>1, <2>2
<1>5. CASE GetReady(t)
  BY <1>5, <1>a DEF GetReady, counters
<1>6. CASE Serve(t) /\ ~Collect(t) /\ ~GetReady(t)
  BY <1>6, <1>a DEF Serve, MarkDirty, Build, ListActive, OpenStatus, CountExamples,
                    ListIntents, GetStale, Respond, GoTo, Return
<1>7. ASSUME NEW u \in Threads, Fail(u)
      PROVE  pc[t] = "fetched" /\ held'[t] = held[t]
  BY <1>7, <1>a DEF Fail, Return
<1>8. CASE Restart
  BY <1>8 DEF Restart
<1>9. CASE UNCHANGED vars
  BY <1>9 DEF vars, threads
<1> QED BY <1>1, <1>2, <1>3, <1>4, <1>5, <1>6, <1>7, <1>8, <1>9 DEF Next

(******************************* evidence **********************************)

\* A request's two records frame the corpus it reads.
Watched ==
    \A t \in Threads : pc[t] # "idle" =>
        steady[t] \subseteq Corpus(req[t].dom) /\ Corpus(req[t].dom) \subseteq alive[t]

\* An index that may be handed out lies between the two records of every
\* request it may be handed to.
IndexCovered ==
    faults = 0 =>
        \A t \in Threads :
            pc[t] # "idle" /\ req[t].dom \in DomainIds /\ IsReady(req[t].dom) =>
                /\ steady[t] \subseteq index[req[t].dom].docs
                /\ index[req[t].dom].docs \subseteq alive[t]

\* The one build that may still be out of date when it installs its index is one
\* that found no active intent, and asks the store for no example: then no
\* document was classifiable throughout any request on that domain.
EmptyBuilds ==
    faults = 0 =>
        \A t, u \in Threads :
            pc[t] # "idle" /\ pc[u] = "listed" /\ ~Reads(u) /\ req[t].dom = req[u].dom =>
                steady[t] = {}

EvidenceInv == FreshInv /\ Watched /\ IndexCovered /\ EmptyBuilds /\ EvidenceIsCurrent

\* With no active intent there is nothing to classify against.
LEMMA NoDocs ==
  ASSUME NEW d, NEW names, DOMAIN names = {}
  PROVE  DocsOf(d, names) = {}
BY DEF DocsOf

\* The records narrow and widen with the corpus of the request's domain.
LEMMA WatchNarrows ==
  ASSUME Watch, NEW t \in Threads, pc'[t] # "idle", NEW d, req'[t].dom = d
  PROVE  /\ pc[t] # "idle" => steady'[t] \subseteq steady[t] /\ alive[t] \subseteq alive'[t]
         /\ steady'[t] \subseteq Corpus(d)' /\ Corpus(d)' \subseteq alive'[t]
<1>1. Corpus(req[t].dom)' = Corpus(d)'
  BY DEF Corpus, DocsOf, ActiveNames
<1>2. /\ steady'[t] = IF pc[t] = "idle" THEN Corpus(req[t].dom)'
                      ELSE steady[t] \cap Corpus(req[t].dom)'
      /\ alive'[t] = IF pc[t] = "idle" THEN Corpus(req[t].dom)'
                     ELSE alive[t] \cup Corpus(req[t].dom)'
  BY DEF Watch
<1> QED BY <1>1, <1>2

\* What a build collects lies between the records of every request on its domain.
LEMMA CollectCovers ==
  ASSUME FreshInv, EmptyBuilds, Watch, [Next]_vars, faults = 0,
         NEW u \in Threads, Collect(u),
         NEW t \in Threads, pc[t] # "idle", pc'[t] # "idle",
         NEW d, req[t].dom = d, req[u].dom = d
  PROVE  /\ steady'[t] \subseteq DocsOf(d, actives[u])
         /\ DocsOf(d, actives[u]) \subseteq alive'[t]
<1>1. TypeOK /\ BuildsCurrent
  BY DEF FreshInv
<1>2. pc[u] = "listed" /\ (Reads(u) => StoreFree(u)) /\ UNCHANGED <<intents, examples>>
  BY DEF Collect, rows
<1>3. req'[t].dom = d
  BY <1>1, DomainKept
<1>4. /\ steady'[t] \subseteq steady[t]
      /\ steady'[t] \subseteq Corpus(d)' /\ Corpus(d)' \subseteq alive'[t]
  BY <1>3, WatchNarrows
<1>5. Corpus(d)' = Corpus(d)
  BY <1>2, RowsSame
<1>6. CASE StoreFree(u)
  <2>1. DocsOf(d, actives[u]) = Corpus(d)
    BY <1>1, <1>2, <1>6 DEF BuildsCurrent, Corpus
  <2> QED BY <1>4, <1>5, <2>1
<1>7. CASE ~StoreFree(u)
  <2>1. steady[t] = {}
    BY <1>2, <1>7 DEF EmptyBuilds
  <2>2. DocsOf(d, actives[u]) = {}
    BY <1>2, <1>7, NoDocs DEF Reads
  <2> QED BY <1>4, <2>1, <2>2
<1> QED BY <1>6, <1>7

\* A step keeps every index that may be handed out between the records.
LEMMA StepCovers ==
  ASSUME FreshInv, FreshInv', IndexCovered, EmptyBuilds, Watch, [Next]_vars
  PROVE  IndexCovered'
<1>a. TypeOK /\ LockDiscipline
  BY DEF FreshInv
<1> SUFFICES ASSUME faults' = 0, NEW t \in Threads, pc'[t] # "idle",
                    NEW d \in DomainIds, d = req'[t].dom, IsReady(d)'
             PROVE  steady'[t] \subseteq index'[d].docs /\ index'[d].docs \subseteq alive'[t]
  BY DEF IndexCovered, IsReady
<1>1. faults = 0
  BY <1>a, FaultsKept
<1>2. /\ pc[t] # "idle" => steady'[t] \subseteq steady[t] /\ alive[t] \subseteq alive'[t]
      /\ steady'[t] \subseteq Corpus(d)' /\ Corpus(d)' \subseteq alive'[t]
  BY WatchNarrows
<1>3. CASE storeLock' = Nil
  <2>1. index'[d].docs = Corpus(d)'
    BY <1>3 DEF FreshInv, IndexFresh
  <2> QED BY <1>2, <2>1
<1>4. CASE storeLock' # Nil
  <2>1. pc[t] # "idle"
    BY <1>4, <1>a, BeginsUnlocked
  <2>2. req[t].dom = d
    BY <2>1, <1>a, DomainKept
  <2>3. CASE IsReady(d) /\ index'[d] = index[d]
    BY <1>1, <1>2, <2>1, <2>2, <2>3 DEF IndexCovered
  <2>4. ASSUME NEW u \in Threads, Collect(u), req[u].dom = d,
               index'[d].docs = DocsOf(d, actives[u])
        PROVE  steady'[t] \subseteq index'[d].docs /\ index'[d].docs \subseteq alive'[t]
    BY <1>1, <2>1, <2>2, <2>4, CollectCovers
  <2> QED BY <1>4, <1>a, <2>3, <2>4, ReadyFrom
<1> QED BY <1>3, <1>4

\* A build that found no active intent stays the sign of an empty corpus.
LEMMA StepEmpty ==
  ASSUME FreshInv, FreshInv', EmptyBuilds, Watch, [Next]_vars
  PROVE  EmptyBuilds'
<1>a. TypeOK /\ LockDiscipline
  BY DEF FreshInv
<1> SUFFICES ASSUME faults' = 0, NEW t \in Threads, pc'[t] # "idle",
                    NEW u \in Threads, pc'[u] = "listed", ~Reads(u)',
                    NEW d, d = req'[t].dom, d = req'[u].dom
             PROVE  steady'[t] = {}
  BY DEF EmptyBuilds, Reads
<1>1. faults = 0
  BY <1>a, FaultsKept
<1>2. /\ pc[t] # "idle" => steady'[t] \subseteq steady[t]
      /\ steady'[t] \subseteq Corpus(d)'
  BY WatchNarrows
<1>3. DOMAIN actives'[u] = {}
  BY DEF Reads
<1>4. CASE StoreFree(u)'
  <2>1. actives'[u] = ActiveNames(req[u].dom)'
    BY <1>4 DEF FreshInv, BuildsCurrent
  <2>2. actives'[u] = ActiveNames(d)'
    BY <2>1 DEF ActiveNames
  <2>3. Corpus(d)' = {}
    BY <1>3, <2>2 DEF Corpus, DocsOf
  <2> QED BY <1>2, <2>3
<1>5. CASE ~StoreFree(u)'
  <2>1. storeLock' # Nil
    BY <1>5 DEF StoreFree
  <2>2. pc[u] = "listed" /\ actives'[u] = actives[u]
    BY <1>5, <1>a, ListedFrom
  <2>3. req[u].dom = d
    BY <2>2, <1>a, DomainKept
  <2>4. d \in DomainIds
    BY <2>2, <2>3, <1>a DEF TypeOK, ThreadsTyped
  <2>5. pc[t] # "idle"
    BY <2>1, <2>4, <1>a, BeginsUnlocked
  <2>6. req[t].dom = d
    BY <2>5, <1>a, DomainKept
  <2>7. steady[t] = {}
    BY <1>1, <1>3, <2>2, <2>3, <2>5, <2>6 DEF EmptyBuilds, Reads
  <2> QED BY <1>2, <2>5, <2>7
<1> QED BY <1>4, <1>5

\* A classification keeps evidence that lies between its records.
LEMMA StepEvidence ==
  ASSUME FreshInv, IndexCovered, EmptyBuilds, EvidenceIsCurrent, Watch, [Next]_vars
  PROVE  EvidenceIsCurrent'
<1>a. TypeOK
  BY DEF FreshInv
<1> SUFFICES ASSUME faults' = 0, NEW t \in Threads, pc'[t] = "fetched"
             PROVE  steady'[t] \subseteq held'[t] /\ held'[t] \subseteq alive'[t]
  BY DEF EvidenceIsCurrent
<1>1. faults = 0
  BY <1>a, FaultsKept
<1>2. pc[t] # "idle"
  BY <1>a, HeldFrom
<1>3. steady'[t] \subseteq steady[t] /\ alive[t] \subseteq alive'[t]
  BY <1>2, WatchNarrows
<1>4. CASE pc[t] = "fetched" /\ held'[t] = held[t]
  BY <1>1, <1>3, <1>4 DEF EvidenceIsCurrent
<1>5. CASE req[t].dom \in DomainIds /\ IsReady(req[t].dom) /\ held'[t] = index[req[t].dom].docs
  BY <1>1, <1>2, <1>3, <1>5 DEF IndexCovered
<1>6. CASE Collect(t) /\ held'[t] = DocsOf(req[t].dom, actives[t])
  BY <1>1, <1>2, <1>6, CollectCovers
<1> QED BY <1>a, <1>4, <1>5, <1>6, HeldFrom

\* The strengthened invariant holds at a first start.
LEMMA InitEvidence == HInit => EvidenceInv
<1> SUFFICES ASSUME HInit PROVE EvidenceInv
  OBVIOUS
<1>1. FreshInv
  BY InitFresh DEF HInit
<1>2. \A t \in Threads : pc[t] = "idle"
  BY DEF HInit, Init
<1> QED BY <1>1, <1>2
        DEF EvidenceInv, Watched, IndexCovered, EmptyBuilds, EvidenceIsCurrent

\* And is inductive.
LEMMA NextEvidence == EvidenceInv /\ [Next /\ Watch]_hvars => EvidenceInv'
<1> SUFFICES ASSUME EvidenceInv, [Next /\ Watch]_hvars PROVE EvidenceInv'
  OBVIOUS
<1>a. /\ FreshInv /\ Watched /\ IndexCovered /\ EmptyBuilds /\ EvidenceIsCurrent
      /\ [Next]_vars
  BY DEF EvidenceInv, hvars
<1>b. FreshInv'
  BY <1>a, NextFresh
<1>1. CASE Next /\ Watch
  <2>1. ASSUME NEW t \in Threads, pc'[t] # "idle"
        PROVE  steady'[t] \subseteq Corpus(req[t].dom)' /\ Corpus(req[t].dom)' \subseteq alive'[t]
    BY <1>1, <2>1 DEF Watch
  <2>2. Watched'
    BY <2>1 DEF Watched
  <2> QED BY <1>1, <1>a, <1>b, <2>2, StepCovers, StepEmpty, StepEvidence DEF EvidenceInv
<1>2. CASE UNCHANGED hvars
  BY <1>2, <1>a, <1>b
     DEF EvidenceInv, hvars, vars, rows, indexes, threads, counters, Watched, IndexCovered,
         EmptyBuilds, EvidenceIsCurrent, IsReady, Reads, Corpus, DocsOf, ActiveNames, Exists
<1> QED BY <1>1, <1>2

\* Read your writes, and nothing invented: until a Chroma call fails, whatever
\* overlaps a classification, the documents it ranks include every one that was
\* classifiable throughout its request and none that never was
\* (index_manager.get and build against every service; README: "the new phrasing
\* is classifiable on the very next request").
THEOREM EvidenceStaysCurrent == HSpec => []EvidenceIsCurrent
<1>1. EvidenceInv => EvidenceIsCurrent
  BY DEF EvidenceInv
<1> QED BY <1>1, InitEvidence, NextEvidence, PTL DEF HSpec
=============================================================================
