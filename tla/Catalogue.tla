------------------------------ MODULE Catalogue ------------------------------
(***************************************************************************)
(* The intent catalogue and its derived BM25 indexes, as concurrent        *)
(* requests see them.                                                      *)
(*                                                                         *)
(* Rows of domains, intents and examples live in Chroma behind             *)
(* ChromaStore.lock (storeLock).  IndexManager keeps one in-memory index   *)
(* per domain behind a lock of its own (indexLock).  A thread serves one   *)
(* request at a time.  Both locks are re-entrant: a repository call inside *)
(* a service's critical section takes storeLock again, which is why        *)
(* StoreFree admits the lock's owner.                                      *)
(*                                                                         *)
(* A step is one Chroma call, or one critical section nobody can see into. *)
(* Taking the store lock, the checks made under it and the first write are *)
(* one step: no other thread reads or writes a row in between.  Each call  *)
(* on Chroma is taken to be atomic.  uuids are never issued twice (spent). *)
(***************************************************************************)
EXTENDS Naturals, FiniteSets, Sequences

CONSTANTS
    Threads,      \* worker threads, one request each at a time
    DomainIds, IntentIds, ExampleIds,   \* the uuids an instance can mint
    Names,        \* casefolded names (name_key) of domains and intents
    Texts,        \* normalised example texts, one per text_hash
    Batches,      \* payloads of add_many: sequences of texts
    Kinds,        \* the request kinds an instance exercises
    Nil,          \* no row, no index, no lock owner, field left unset
    MaxVersion,   \* bound: no request starts on a domain rebuilt this often
    MaxFaults,    \* bound: Chroma calls that raise in one process's life
    MaxCrashes    \* bound: process restarts

Statuses == {"active", "disabled"}
Mutations == {"create_domain", "update_domain", "delete_domain",
              "create_intent", "update_intent", "delete_intent",
              "add_examples", "delete_example"}
Readers == {"classify", "reindex", "status"}

ASSUME CatalogueAssumption ==
    /\ Kinds \subseteq Mutations \cup Readers
    /\ Batches \subseteq Seq(Texts)
    /\ MaxVersion \in Nat /\ MaxFaults \in Nat /\ MaxCrashes \in Nat

VARIABLES
    domains,    \* the domains collection
    intents,    \* the intents collection
    examples,   \* the intent_examples collection
    spent,      \* domain and example ids already minted
    home,       \* the domain an intent id was minted for, Nil before
    index,      \* IndexManager._indexes
    dirty,      \* IndexManager._dirty
    versions,   \* IndexManager._versions, 0 when absent
    storeLock,  \* owner of ChromaStore.lock
    indexLock,  \* owner of IndexManager._lock
    pc,         \* where each thread's request stands
    req,        \* the request it serves
    actives,    \* build(): the active intents read so far, id to name
    held,       \* classify(): the index get() returned
    faults,     \* Chroma calls that raised since the process started
    crashes     \* times the process was restarted

rows == <<domains, intents, examples, spent, home>>
indexes == <<index, dirty, versions>>
locks == <<storeLock, indexLock>>
threads == <<pc, req, actives, held>>
counters == <<faults, crashes>>
vars == <<rows, indexes, locks, threads, counters>>

(***************************** types ***************************************)

DomainRow == [name : Names, status : Statuses]
IntentRow == [dom : DomainIds, name : Names, status : Statuses]
ExampleRow == [dom : DomainIds, intent : IntentIds, name : Names, text : Texts]

\* What keeps Nil apart from every value it stands in for.
ASSUME NilAssumption ==
    /\ Nil \notin Threads /\ Nil \notin DomainIds /\ Nil \notin IntentIds
    /\ Nil \notin ExampleIds /\ Nil \notin Names /\ Nil \notin Statuses
    /\ Nil \notin DomainRow /\ Nil \notin IntentRow /\ Nil \notin ExampleRow

Doc == [example : ExampleIds, intent : IntentIds, name : Names]
Bm25Index == [version : Nat, docs : SUBSET Doc]

\* A request carries the fields its route demands.
WellFormed(r) ==
    /\ r.kind \notin {"none", "create_domain"} => r.dom \in DomainIds
    /\ r.kind \in {"create_domain", "create_intent"} => r.name \in Names /\ r.status \in Statuses
    /\ r.kind \in {"update_intent", "delete_intent", "add_examples", "delete_example"}
           => r.intent \in IntentIds

Request ==
    {r \in [kind : Mutations \cup Readers \cup {"none"},
            dom : DomainIds \cup {Nil}, intent : IntentIds \cup {Nil},
            name : Names \cup {Nil}, status : Statuses \cup {Nil},
            batch : Seq(Texts), example : ExampleIds \cup {Nil}] : WellFormed(r)}

NoRequest == [kind |-> "none", dom |-> Nil, intent |-> Nil, name |-> Nil,
              status |-> Nil, batch |-> << >>, example |-> Nil]
ActiveMap == UNION {[ids -> Names] : ids \in SUBSET IntentIds}
NoActives == [i \in {} |-> Nil]

Labels ==
    {"idle",        \* no request
     "admitted",    \* the handler has found the domain
     "resolved",    \* the example service has read the intent
     "examplesGone", "intentsGone", "rowGone",   \* inside a domain cascade
     "examplesCut", \* inside an intent cascade
     "saved",       \* intent renamed, its examples not yet
     "stored",      \* every write made, index untouched
     "flagged",     \* marked dirty, build() not entered
     "building",    \* index lock held, no row read yet
     "listed",      \* index lock held, active intents read
     "wantIndex",   \* classify about to call get()
     "fetched",     \* classify holds an index
     "rebuilt",     \* reindex about to report the status
     "counting"}    \* status() holds the index lock

(***************************** helpers *************************************)

Exists(table, id) == table[id] # Nil
StoreFree(t) == storeLock \in {Nil, t}
IndexFree(t) == indexLock \in {Nil, t}

\* list_for_domain filtered on status: what build() keeps as intent_names.
ActiveNames(d) ==
    [i \in {j \in IntentIds : /\ Exists(intents, j)
                              /\ intents[j].dom = d
                              /\ intents[j].status = "active"} |-> intents[i].name]

\* One document per example of domain d whose intent is in names.
DocsOf(d, names) ==
    {[example |-> e, intent |-> examples[e].intent, name |-> names[examples[e].intent]] :
        e \in {x \in ExampleIds : /\ Exists(examples, x)
                                  /\ examples[x].dom = d
                                  /\ examples[x].intent \in DOMAIN names}}

\* What a build of d would index if it ran alone now.
Corpus(d) == DocsOf(d, ActiveNames(d))

DomainNameTaken(n, self) ==
    \E d \in DomainIds \ {self} : Exists(domains, d) /\ domains[d].name = n
IntentNameTaken(d, n, self) ==
    \E i \in IntentIds \ {self} :
        Exists(intents, i) /\ intents[i].dom = d /\ intents[i].name = n
TextTaken(i, x) ==
    \E e \in ExampleIds : /\ Exists(examples, e)
                          /\ examples[e].intent = i
                          /\ examples[e].text = x

\* IntentService.get: the row exists and belongs to the domain asked about.
OwnsIntent(d, i) == Exists(intents, i) /\ intents[i].dom = d

Without(table, gone) == [id \in DOMAIN table |-> IF id \in gone THEN Nil ELSE table[id]]

IsReady(d) == index[d] # Nil /\ d \notin dirty

\* The request is over: its locals are dropped with it.
Return(t) ==
    /\ pc' = [pc EXCEPT ![t] = "idle"]
    /\ req' = [req EXCEPT ![t] = NoRequest]
    /\ actives' = [actives EXCEPT ![t] = NoActives]
    /\ held' = [held EXCEPT ![t] = {}]

GoTo(t, label) == pc' = [pc EXCEPT ![t] = label] /\ UNCHANGED <<req, actives, held>>

ReleaseStore(t) == storeLock' = IF storeLock = t THEN Nil ELSE storeLock
\* Mutant: a with-block that never exits.
ReleaseIndexNever(t) == indexLock' = indexLock
ReleaseIndex(t) == indexLock' = IF indexLock = t THEN Nil ELSE indexLock

(**************************** admission ************************************)

\* The bodies the handlers and their path parameters can carry.
Payload(kind, dom, intent, name, status, batch, example) ==
    [kind |-> kind, dom |-> dom, intent |-> intent, name |-> name,
     status |-> status, batch |-> batch, example |-> example]

Requests ==
    UNION {
      {Payload("create_domain", Nil, Nil, n, s, << >>, Nil) : n \in Names, s \in Statuses},
      {Payload("update_domain", d, Nil, n, s, << >>, Nil) :
          d \in DomainIds, n \in Names \cup {Nil}, s \in Statuses \cup {Nil}},
      {Payload("create_intent", d, Nil, n, s, << >>, Nil) :
          d \in DomainIds, n \in Names, s \in Statuses},
      {Payload("update_intent", d, i, n, s, << >>, Nil) :
          d \in DomainIds, i \in IntentIds, n \in Names \cup {Nil},
          s \in Statuses \cup {Nil}},
      {Payload("delete_intent", d, i, Nil, Nil, << >>, Nil) :
          d \in DomainIds, i \in IntentIds},
      {Payload("add_examples", d, i, Nil, Nil, b, Nil) :
          d \in DomainIds, i \in IntentIds, b \in Batches},
      {Payload("delete_example", d, i, Nil, Nil, << >>, e) :
          d \in DomainIds, i \in IntentIds, e \in ExampleIds},
      {Payload(k, d, Nil, Nil, Nil, << >>, Nil) :
          k \in {"delete_domain"} \cup Readers, d \in DomainIds}}

\* A handler looks the domain up before it calls a service, holding no lock
\* across the two.  A request that fails here leaves no trace.
Admit(t, r) ==
    /\ pc[t] = "idle"
    /\ r.kind \in Kinds
    /\ r.dom # Nil => /\ StoreFree(t)
                      /\ Exists(domains, r.dom)
                      /\ versions[r.dom] < MaxVersion
    /\ pc' = [pc EXCEPT ![t] = "admitted"]
    /\ req' = [req EXCEPT ![t] = r]
    /\ UNCHANGED <<rows, indexes, locks, actives, held, counters>>

\* ExampleService reads the intent, and its name, before it takes the lock.
ReadIntent(t) ==
    /\ pc[t] = "admitted" /\ req[t].kind \in {"add_examples", "delete_example"}
    /\ StoreFree(t)
    /\ OwnsIntent(req[t].dom, req[t].intent)
    /\ req' = [req EXCEPT ![t].name = intents[req[t].intent].name]
    /\ pc' = [pc EXCEPT ![t] = "resolved"]
    /\ UNCHANGED <<rows, indexes, locks, actives, held, counters>>

\* Ids not minted yet.  They are a bound: a request that finds too few of them
\* is turned away, which the code's uuids never do.
FreshDomains == DomainIds \ spent
FreshExamples == ExampleIds \ spent
FreshIntents == {i \in IntentIds : home[i] = Nil}

\* The checks each service makes; failing one raises ConflictError or
\* NotFoundError, and the request ends with nothing written.
Accepts(r) ==
    CASE r.kind = "create_domain" -> FreshDomains # {} /\ ~DomainNameTaken(r.name, Nil)
      [] r.kind = "update_domain" ->
            /\ Exists(domains, r.dom)
            /\ r.name \notin {Nil, domains[r.dom].name} => ~DomainNameTaken(r.name, r.dom)
      [] r.kind = "delete_domain" -> Exists(domains, r.dom)
      [] r.kind = "create_intent" -> FreshIntents # {} /\ ~IntentNameTaken(r.dom, r.name, Nil)
      [] r.kind = "update_intent" ->
            /\ OwnsIntent(r.dom, r.intent)
            /\ r.name \notin {Nil, intents[r.intent].name} =>
                   ~IntentNameTaken(r.dom, r.name, r.intent)
      [] r.kind = "delete_intent" -> OwnsIntent(r.dom, r.intent)
      [] OTHER -> TRUE

\* Mutant: the batch checked against the store and not against itself.
AcceptsBatchRepeats(r) ==
    /\ \A a \in DOMAIN r.batch : ~TextTaken(r.intent, r.batch[a])
    /\ Len(r.batch) <= Cardinality(FreshExamples)

\* add_many: all or nothing, on the first text seen twice or already stored.
AcceptsBatch(r) ==
    /\ \A a, b \in DOMAIN r.batch : r.batch[a] = r.batch[b] => a = b
    /\ \A a \in DOMAIN r.batch : ~TextTaken(r.intent, r.batch[a])
    /\ Len(r.batch) <= Cardinality(FreshExamples)

AcceptsExample(r) ==
    Exists(examples, r.example) /\ examples[r.example].intent = r.intent

Refuse(t) ==
    /\ StoreFree(t)
    /\ \/ /\ pc[t] = "admitted"
          /\ ~Accepts(req[t])
       \/ /\ pc[t] = "admitted"
          /\ req[t].kind \in {"add_examples", "delete_example"}
          /\ ~OwnsIntent(req[t].dom, req[t].intent)
       \/ /\ pc[t] = "resolved" /\ req[t].kind = "add_examples"
          /\ ~AcceptsBatch(req[t])
       \/ /\ pc[t] = "resolved" /\ req[t].kind = "delete_example"
          /\ ~AcceptsExample(req[t])
    /\ Return(t)
    /\ UNCHANGED <<rows, indexes, locks, counters>>

\* The service's critical section opens: with ChromaStore.lock free and the
\* checks passed, the thread takes the lock and makes its first write.
Enter(t, kind) ==
    /\ pc[t] = "admitted" /\ req[t].kind = kind
    /\ StoreFree(t)
    /\ Accepts(req[t])
    /\ storeLock' = t

(*************************** domain service ********************************)

\* One write, no index work: the lock is taken and released within the step.
CreateDomain(t) ==
    /\ pc[t] = "admitted" /\ req[t].kind = "create_domain"
    /\ StoreFree(t)
    /\ Accepts(req[t])
    /\ \E d \in FreshDomains :
         /\ domains' = [domains EXCEPT ![d] = [name |-> req[t].name, status |-> req[t].status]]
         /\ spent' = spent \cup {d}
    /\ Return(t)
    /\ UNCHANGED <<intents, examples, home, indexes, locks, counters>>

\* Only a request that carries a status rebuilds the index.
UpdateDomain(t) ==
    /\ req[t].status # Nil
    /\ Enter(t, "update_domain")
    /\ domains' = [domains EXCEPT ![req[t].dom] =
           [name |-> IF req[t].name = Nil THEN @.name ELSE req[t].name,
            status |-> IF req[t].status = Nil THEN @.status ELSE req[t].status]]
    /\ GoTo(t, "stored")
    /\ UNCHANGED <<intents, examples, spent, home, indexes, indexLock, counters>>

RenameDomain(t) ==
    /\ pc[t] = "admitted" /\ req[t].kind = "update_domain" /\ req[t].status = Nil
    /\ StoreFree(t)
    /\ Accepts(req[t])
    /\ domains' = [domains EXCEPT ![req[t].dom].name =
                       IF req[t].name = Nil THEN @ ELSE req[t].name]
    /\ Return(t)
    /\ UNCHANGED <<intents, examples, spent, home, indexes, locks, counters>>

\* Mutant: the parents first.
DeleteDomainIntentsFirst(t) ==
    /\ Enter(t, "delete_domain")
    /\ intents' = Without(intents, {i \in IntentIds : OwnsIntent(req[t].dom, i)})
    /\ GoTo(t, "examplesGone")
    /\ UNCHANGED <<domains, examples, spent, home, indexes, indexLock, counters>>

\* The cascade: examples, intents, the domain row, then the cached index.
DeleteDomainExamples(t) ==
    /\ Enter(t, "delete_domain")
    /\ examples' = Without(examples, {e \in ExampleIds : /\ Exists(examples, e)
                                                       /\ examples[e].dom = req[t].dom})
    /\ GoTo(t, "examplesGone")
    /\ UNCHANGED <<domains, intents, spent, home, indexes, indexLock, counters>>

DeleteDomainIntents(t) ==
    /\ pc[t] = "examplesGone"
    /\ intents' = Without(intents, {i \in IntentIds : OwnsIntent(req[t].dom, i)})
    /\ GoTo(t, "intentsGone")
    /\ UNCHANGED <<domains, examples, spent, home, indexes, locks, counters>>

DeleteDomainRow(t) ==
    /\ pc[t] = "intentsGone"
    /\ domains' = Without(domains, {req[t].dom})
    /\ GoTo(t, "rowGone")
    /\ UNCHANGED <<intents, examples, spent, home, indexes, locks, counters>>

\* Mutant: the index dropped and the store lock kept.
DropIndexKeepLock(t) ==
    /\ pc[t] = "rowGone"
    /\ IndexFree(t)
    /\ index' = [index EXCEPT ![req[t].dom] = Nil]
    /\ dirty' = dirty \ {req[t].dom}
    /\ versions' = [versions EXCEPT ![req[t].dom] = 0]
    /\ Return(t)
    /\ UNCHANGED <<rows, locks, counters>>

DropIndex(t) ==
    /\ pc[t] = "rowGone"
    /\ IndexFree(t)
    /\ index' = [index EXCEPT ![req[t].dom] = Nil]
    /\ dirty' = dirty \ {req[t].dom}
    /\ versions' = [versions EXCEPT ![req[t].dom] = 0]
    /\ ReleaseStore(t)
    /\ Return(t)
    /\ UNCHANGED <<rows, indexLock, counters>>

(*************************** intent service ********************************)

\* Mutant: the name checked before the lock is taken and not again under it.
CreateIntentCheckedEarlier(t) ==
    \/ /\ pc[t] = "admitted" /\ req[t].kind = "create_intent"
       /\ StoreFree(t)
       /\ Accepts(req[t])
       /\ GoTo(t, "resolved")
       /\ UNCHANGED <<rows, indexes, locks, counters>>
    \/ /\ pc[t] = "resolved" /\ req[t].kind = "create_intent"
       /\ StoreFree(t)
       /\ storeLock' = t
       /\ \E i \in FreshIntents :
            /\ intents' = [intents EXCEPT ![i] =
                   [dom |-> req[t].dom, name |-> req[t].name, status |-> req[t].status]]
            /\ home' = [home EXCEPT ![i] = req[t].dom]
       /\ GoTo(t, "stored")
       /\ UNCHANGED <<domains, examples, spent, indexes, indexLock, counters>>

\* The domain is not looked up again here.
CreateIntent(t) ==
    /\ Enter(t, "create_intent")
    /\ \E i \in FreshIntents :
         /\ intents' = [intents EXCEPT ![i] =
                [dom |-> req[t].dom, name |-> req[t].name, status |-> req[t].status]]
         /\ home' = [home EXCEPT ![i] = req[t].dom]
    /\ GoTo(t, "stored")
    /\ UNCHANGED <<domains, examples, spent, indexes, indexLock, counters>>

\* Mutant: the rename forgets the examples' copy of the name.
UpdateIntentOnly(t) ==
    LET i == req[t].intent
    IN /\ Enter(t, "update_intent")
       /\ intents' = [intents EXCEPT ![i] =
              [dom |-> @.dom,
               name |-> IF req[t].name = Nil THEN @.name ELSE req[t].name,
               status |-> IF req[t].status = Nil THEN @.status ELSE req[t].status]]
       /\ GoTo(t, "stored")
       /\ UNCHANGED <<domains, examples, spent, home, indexes, indexLock, counters>>

\* Mutant: fields left out of the payload are dumped too (no exclude_unset).
UpdateIntentUnset(t) ==
    /\ Enter(t, "update_intent")
    /\ intents' = [intents EXCEPT ![req[t].intent] =
           [dom |-> @.dom, name |-> req[t].name, status |-> req[t].status]]
    /\ GoTo(t, "stored")
    /\ UNCHANGED <<domains, examples, spent, home, indexes, indexLock, counters>>

\* A rename has the examples' copy of the name still to refresh.
UpdateIntent(t) ==
    LET i == req[t].intent
        renamed == req[t].name \notin {Nil, intents[i].name}
    IN /\ Enter(t, "update_intent")
       /\ intents' = [intents EXCEPT ![i] =
              [dom |-> @.dom,
               name |-> IF renamed THEN req[t].name ELSE @.name,
               status |-> IF req[t].status = Nil THEN @.status ELSE req[t].status]]
       /\ GoTo(t, IF renamed THEN "saved" ELSE "stored")
       /\ UNCHANGED <<domains, examples, spent, home, indexes, indexLock, counters>>

RenameExamples(t) ==
    /\ pc[t] = "saved"
    /\ examples' = [e \in ExampleIds |->
           IF Exists(examples, e) /\ examples[e].intent = req[t].intent
           THEN [examples[e] EXCEPT !.name = req[t].name]
           ELSE examples[e]]
    /\ GoTo(t, "stored")
    /\ UNCHANGED <<domains, intents, spent, home, indexes, locks, counters>>

DeleteIntentExamples(t) ==
    /\ Enter(t, "delete_intent")
    /\ examples' = Without(examples, {e \in ExampleIds : /\ Exists(examples, e)
                                                       /\ examples[e].intent = req[t].intent})
    /\ GoTo(t, "examplesCut")
    /\ UNCHANGED <<domains, intents, spent, home, indexes, indexLock, counters>>

DeleteIntentRow(t) ==
    /\ pc[t] = "examplesCut"
    /\ intents' = Without(intents, {req[t].intent})
    /\ GoTo(t, "stored")
    /\ UNCHANGED <<domains, examples, spent, home, indexes, locks, counters>>

(*************************** example service *******************************)

\* The intent is not looked up again under the lock: its row may be gone and
\* the name read before may be an old one.
AddExamples(t) ==
    /\ pc[t] = "resolved" /\ req[t].kind = "add_examples"
    /\ StoreFree(t)
    /\ AcceptsBatch(req[t])
    /\ storeLock' = t
    /\ \E ids \in [DOMAIN req[t].batch -> FreshExamples] :
         /\ \A a, b \in DOMAIN ids : ids[a] = ids[b] => a = b
         /\ examples' = [e \in ExampleIds |->
                IF \E a \in DOMAIN ids : ids[a] = e
                THEN [dom |-> req[t].dom, intent |-> req[t].intent, name |-> req[t].name,
                      text |-> req[t].batch[CHOOSE a \in DOMAIN ids : ids[a] = e]]
                ELSE examples[e]]
         /\ spent' = spent \cup {ids[a] : a \in DOMAIN ids}
    /\ GoTo(t, "stored")
    /\ UNCHANGED <<domains, intents, home, indexes, indexLock, counters>>

\* Mutant: no rebuild after the delete.
DeleteExampleUnindexed(t) ==
    /\ pc[t] = "resolved" /\ req[t].kind = "delete_example"
    /\ StoreFree(t)
    /\ AcceptsExample(req[t])
    /\ examples' = Without(examples, {req[t].example})
    /\ Return(t)
    /\ UNCHANGED <<domains, intents, spent, home, indexes, locks, counters>>

DeleteExample(t) ==
    /\ pc[t] = "resolved" /\ req[t].kind = "delete_example"
    /\ StoreFree(t)
    /\ AcceptsExample(req[t])
    /\ storeLock' = t
    /\ examples' = Without(examples, {req[t].example})
    /\ GoTo(t, "stored")
    /\ UNCHANGED <<domains, intents, spent, home, indexes, indexLock, counters>>

(*************************** index manager *********************************)

\* rebuild(): the index lock is let go between mark_dirty and build.
MarkDirty(t) ==
    /\ \/ pc[t] = "stored"
       \/ pc[t] = "admitted" /\ req[t].kind = "reindex"
    /\ IndexFree(t)
    /\ dirty' = dirty \cup {req[t].dom}
    /\ GoTo(t, "flagged")
    /\ UNCHANGED <<rows, index, versions, locks, counters>>

Build(t) ==
    /\ pc[t] = "flagged"
    /\ IndexFree(t)
    /\ indexLock' = t
    /\ GoTo(t, "building")
    /\ UNCHANGED <<rows, indexes, storeLock, counters>>

\* build() with the index lock held: each repository call takes the store lock.
ListActive(t) ==
    /\ pc[t] = "building"
    /\ StoreFree(t)
    /\ actives' = [actives EXCEPT ![t] = ActiveNames(req[t].dom)]
    /\ pc' = [pc EXCEPT ![t] = "listed"]
    /\ UNCHANGED <<rows, indexes, locks, req, held, counters>>

\* list_for_domain asks the store nothing when no intent is active.
Reads(t) == DOMAIN actives[t] # {}

\* Mutant: the domain stays marked dirty after its build.
CollectStillDirty(t) ==
    LET d == req[t].dom
    IN /\ pc[t] = "listed"
       /\ Reads(t) => StoreFree(t)
       /\ versions' = [versions EXCEPT ![d] = @ + 1]
       /\ index' = [index EXCEPT ![d] = [version |-> versions[d] + 1,
                                        docs |-> DocsOf(d, actives[t])]]
       /\ ReleaseIndex(t) /\ ReleaseStore(t)
       /\ Return(t)
       /\ UNCHANGED <<rows, dirty, counters>>

Collect(t) ==
    LET d == req[t].dom
        docs == DocsOf(d, actives[t])
    IN /\ pc[t] = "listed"
       /\ Reads(t) => StoreFree(t)
       /\ versions' = [versions EXCEPT ![d] = @ + 1]
       /\ index' = [index EXCEPT ![d] = [version |-> versions[d] + 1, docs |-> docs]]
       /\ dirty' = dirty \ {d}
       /\ ReleaseIndex(t)
       /\ ReleaseStore(t)
       /\ \/ /\ req[t].kind \in Mutations
             /\ Return(t)
          \/ /\ req[t].kind \in {"reindex", "classify"}
             /\ pc' = [pc EXCEPT ![t] = IF req[t].kind = "reindex" THEN "rebuilt" ELSE "fetched"]
             /\ actives' = [actives EXCEPT ![t] = NoActives]
             /\ held' = [held EXCEPT ![t] = IF req[t].kind = "reindex" THEN {} ELSE docs]
             /\ UNCHANGED req
       /\ UNCHANGED <<rows, counters>>

\* status() counts the domain's examples while it holds the index lock.
OpenStatus(t) ==
    /\ \/ pc[t] = "rebuilt"
       \/ pc[t] = "admitted" /\ req[t].kind = "status"
    /\ IndexFree(t)
    /\ indexLock' = t
    /\ GoTo(t, "counting")
    /\ UNCHANGED <<rows, indexes, storeLock, counters>>

CountExamples(t) ==
    /\ pc[t] = "counting"
    /\ StoreFree(t)
    /\ ReleaseIndex(t)
    /\ Return(t)
    /\ UNCHANGED <<rows, indexes, storeLock, counters>>

(*************************** classification ********************************)

\* IntentClassifier.classify: list the intents, get the index, query the
\* vectors.  Only the index travels between the steps; the verdict drawn from
\* it is not modelled here.  The vector query changes nothing, and a strategy
\* without dense retrieval skips it: the answer waits for no lock.
ListIntents(t) ==
    /\ pc[t] = "admitted" /\ req[t].kind = "classify"
    /\ StoreFree(t)
    /\ GoTo(t, "wantIndex")
    /\ UNCHANGED <<rows, indexes, locks, counters>>

GetReady(t) ==
    /\ pc[t] = "wantIndex"
    /\ IndexFree(t)
    /\ IsReady(req[t].dom)
    /\ held' = [held EXCEPT ![t] = index[req[t].dom].docs]
    /\ pc' = [pc EXCEPT ![t] = "fetched"]
    /\ UNCHANGED <<rows, indexes, locks, req, actives, counters>>

GetStale(t) ==
    /\ pc[t] = "wantIndex"
    /\ IndexFree(t)
    /\ ~IsReady(req[t].dom)
    /\ indexLock' = t
    /\ GoTo(t, "building")
    /\ UNCHANGED <<rows, indexes, storeLock, counters>>

Respond(t) ==
    /\ pc[t] = "fetched"
    /\ Return(t)
    /\ UNCHANGED <<rows, indexes, locks, counters>>

(************************ failures and restarts ****************************)

\* The labels whose next step calls Chroma.
CallsStore(t) ==
    \/ pc[t] \in {"examplesGone", "intentsGone", "examplesCut", "saved",
                  "building", "counting"}
    \/ pc[t] = "listed" /\ Reads(t)
    \/ pc[t] = "fetched" /\ held[t] # {}

\* The call raises: the with-blocks release what the thread holds and what
\* was written stays written.  A first write that raises changes nothing and
\* is not told apart from a request never made.
Fail(t) ==
    /\ CallsStore(t)
    /\ StoreFree(t)
    /\ faults < MaxFaults
    /\ faults' = faults + 1
    /\ ReleaseStore(t)
    /\ ReleaseIndex(t)
    /\ Return(t)
    /\ UNCHANGED <<rows, indexes, crashes>>

\* Mutant: the warm-up forgets that disabled intents are not indexed.
RestartUnfiltered ==
    /\ crashes < MaxCrashes
    /\ crashes' = crashes + 1
    /\ index' = [d \in DomainIds |->
           IF Exists(domains, d)
           THEN [version |-> 1,
                 docs |-> DocsOf(d, [i \in {j \in IntentIds : OwnsIntent(d, j)} |-> intents[i].name])]
           ELSE Nil]
    /\ dirty' = {}
    /\ versions' = [d \in DomainIds |-> IF Exists(domains, d) THEN 1 ELSE 0]
    /\ storeLock' = Nil /\ indexLock' = Nil
    /\ pc' = [t \in Threads |-> "idle"]
    /\ req' = [t \in Threads |-> NoRequest]
    /\ actives' = [t \in Threads |-> NoActives]
    /\ held' = [t \in Threads |-> {}]
    /\ faults' = 0
    /\ UNCHANGED rows

\* The process dies and comes back: rows survive, locks and indexes do not,
\* and the lifespan hook warms an index per domain before serving.
Restart ==
    /\ crashes < MaxCrashes
    /\ crashes' = crashes + 1
    /\ index' = [d \in DomainIds |->
           IF Exists(domains, d) THEN [version |-> 1, docs |-> Corpus(d)] ELSE Nil]
    /\ dirty' = {}
    /\ versions' = [d \in DomainIds |-> IF Exists(domains, d) THEN 1 ELSE 0]
    /\ storeLock' = Nil /\ indexLock' = Nil
    /\ pc' = [t \in Threads |-> "idle"]
    /\ req' = [t \in Threads |-> NoRequest]
    /\ actives' = [t \in Threads |-> NoActives]
    /\ held' = [t \in Threads |-> {}]
    /\ faults' = 0
    /\ UNCHANGED rows

(**************************** specification ********************************)

\* A first start on an empty store.
Init ==
    /\ domains = [d \in DomainIds |-> Nil]
    /\ intents = [i \in IntentIds |-> Nil]
    /\ examples = [e \in ExampleIds |-> Nil]
    /\ spent = {}
    /\ home = [i \in IntentIds |-> Nil]
    /\ index = [d \in DomainIds |-> Nil]
    /\ dirty = {}
    /\ versions = [d \in DomainIds |-> 0]
    /\ storeLock = Nil /\ indexLock = Nil
    /\ pc = [t \in Threads |-> "idle"]
    /\ req = [t \in Threads |-> NoRequest]
    /\ actives = [t \in Threads |-> NoActives]
    /\ held = [t \in Threads |-> {}]
    /\ faults = 0 /\ crashes = 0

Mutate(t) ==
    \/ ReadIntent(t) \/ Refuse(t)
    \/ CreateDomain(t) \/ UpdateDomain(t) \/ RenameDomain(t)
    \/ DeleteDomainExamples(t) \/ DeleteDomainIntents(t) \/ DeleteDomainRow(t) \/ DropIndex(t)
    \/ CreateIntent(t) \/ UpdateIntent(t) \/ RenameExamples(t)
    \/ DeleteIntentExamples(t) \/ DeleteIntentRow(t)
    \/ AddExamples(t) \/ DeleteExample(t)

Serve(t) ==
    \/ MarkDirty(t) \/ Build(t) \/ ListActive(t) \/ Collect(t)
    \/ OpenStatus(t) \/ CountExamples(t)
    \/ ListIntents(t) \/ GetReady(t) \/ GetStale(t) \/ Respond(t)

Next ==
    \/ \E t \in Threads : \/ \E r \in Requests : Admit(t, r)
                          \/ Mutate(t) \/ Serve(t) \/ Fail(t)
    \/ Restart

Spec == Init /\ [][Next]_vars

\* An admitted request keeps being scheduled: its worker thread is runnable
\* whenever the lock it waits for is free.
FairSpec == Spec /\ \A t \in Threads : WF_vars(Mutate(t) \/ Serve(t))

(****************************** properties *********************************)

\* Where a thread stands inside ChromaStore.lock or IndexManager._lock.
InStore(t) ==
    \/ pc[t] \in {"examplesGone", "intentsGone", "rowGone", "examplesCut", "saved", "stored"}
    \/ pc[t] \in {"flagged", "building", "listed"} /\ req[t].kind \in Mutations
InIndex(t) == pc[t] \in {"building", "listed", "counting"}

RowsTyped ==
    /\ domains \in [DomainIds -> DomainRow \cup {Nil}]
    /\ intents \in [IntentIds -> IntentRow \cup {Nil}]
    /\ examples \in [ExampleIds -> ExampleRow \cup {Nil}]
    /\ spent \subseteq DomainIds \cup ExampleIds
    /\ home \in [IntentIds -> DomainIds \cup {Nil}]
IndexesTyped ==
    /\ index \in [DomainIds -> Bm25Index \cup {Nil}]
    /\ dirty \subseteq DomainIds
    /\ versions \in [DomainIds -> Nat]
LocksTyped ==
    /\ storeLock \in Threads \cup {Nil} /\ indexLock \in Threads \cup {Nil}
    /\ faults \in Nat /\ crashes \in Nat
ThreadsTyped ==
    /\ pc \in [Threads -> Labels]
    /\ req \in [Threads -> Request]
    /\ \A t \in Threads : /\ pc[t] \notin {"idle", "admitted"} => req[t].dom \in DomainIds
                          /\ pc[t] \in {"resolved", "saved"} => req[t].name \in Names
    /\ actives \in [Threads -> ActiveMap]
    /\ held \in [Threads -> SUBSET Doc]

\* Every row, index, lock and request holds a value of its kind, partial
\* updates included: a field a payload leaves unset never reaches a row.
TypeOK == RowsTyped /\ IndexesTyped /\ LocksTyped /\ ThreadsTyped

\* A thread is inside a critical section exactly when it owns that lock, so
\* two services never write interleaved and two builds never overlap, even
\* though rebuild() lets the index lock go half way and a failure or a restart
\* may cut any section short.
LockDiscipline ==
    \A t \in Threads : /\ InStore(t) <=> storeLock = t
                       /\ InIndex(t) <=> indexLock = t

\* As long as no Chroma call has failed since the process started: whenever no
\* mutation is in progress, an index that get() would hand out unbuilt holds exactly the examples of
\* the domain's active intents, under the intents' current names.  Builds read
\* the store in two separate calls while other threads mutate it, so this is
\* about the two locks together (index_manager.build, *_service), and about the
\* warm-up that takes over whatever rows a crash left (main.lifespan).
IndexFresh ==
    faults = 0 /\ storeLock = Nil =>
        \A d \in DomainIds : IsReady(d) => index[d].docs = Corpus(d)

\* What makes IndexFresh inductive.  An uuid is used once and an intent never
\* leaves the domain it was minted in, so a mutation of one domain cannot touch
\* another's corpus; a thread past a check on its intent still knows its home.
Homes ==
    /\ \A i \in IntentIds : Exists(intents, i) => intents[i].dom = home[i]
    /\ \A e \in ExampleIds : Exists(examples, e) => e \in spent
    /\ \A t \in Threads : pc[t] \in {"resolved", "examplesCut"} =>
                             /\ req[t].intent \in IntentIds
                             /\ home[req[t].intent] = req[t].dom

\* The labels of a request fit its kind.
KindsAgree ==
    \A t \in Threads :
        /\ pc[t] \in {"examplesGone", "intentsGone", "rowGone",
                      "examplesCut", "saved", "stored"} => req[t].kind \in Mutations
        /\ pc[t] = "wantIndex" => req[t].kind = "classify"

\* While a thread owns the store, only the domain it mutates can be stale; and
\* a build that has listed the intents may still trust them unless another
\* thread is mutating that domain, which then cannot finish before the build.
OthersFresh ==
    faults = 0 /\ storeLock # Nil =>
        \A d \in DomainIds \ {req[storeLock].dom} : IsReady(d) => index[d].docs = Corpus(d)
BuildsCurrent ==
    faults = 0 =>
        \A t \in Threads :
            pc[t] = "listed" /\ (StoreFree(t) \/ req[storeLock].dom # req[t].dom) =>
                actives[t] = ActiveNames(req[t].dom)

FreshInv == /\ TypeOK /\ LockDiscipline /\ Homes /\ KindsAgree
            /\ IndexFresh /\ OthersFresh /\ BuildsCurrent

\* A domain left marked dirty with nobody about to rebuild it had a mutation or
\* a rebuild fail (README: "a `dirty` state means a mutation failed").
DirtyMeansFailed ==
    faults = 0 =>
        \A d \in dirty : \E t \in Threads :
            req[t].dom = d /\ pc[t] \in {"flagged", "building", "listed", "wantIndex"}

\* Chroma has no constraints, so a name is unique only while no other writer gets
\* between the check of it and the write (intent_service.py:28-32, 61-75): whatever
\* creations and renames meet, no two domains share a name, and no two intents of a
\* domain do.
UniqueNames ==
    /\ \A c, d \in DomainIds :
         Exists(domains, c) /\ Exists(domains, d) /\ domains[c].name = domains[d].name => c = d
    /\ \A i, j \in IntentIds :
         /\ Exists(intents, i) /\ Exists(intents, j)
         /\ intents[i].dom = intents[j].dom
         /\ intents[i].name = intents[j].name
         => i = j

\* No intent stores a text twice, whether the copies come in one batch or in
\* two that race (example_service.add_many: the duplicate check and the insert
\* share one critical section).
UniqueTexts ==
    \A e, f \in ExampleIds :
        /\ Exists(examples, e) /\ Exists(examples, f)
        /\ examples[e].intent = examples[f].intent
        /\ examples[e].text = examples[f].text
        => e = f

\* Every child row has its parent, in every state a reader can see and in the
\* middle of every cascade (domain_service.delete: "Cascade: examples, then
\* intents, then the domain itself").
NoOrphans ==
    /\ \A i \in IntentIds : Exists(intents, i) => Exists(domains, intents[i].dom)
    /\ \A e \in ExampleIds : Exists(examples, e) =>
         OwnsIntent(examples[e].dom, examples[e].intent)

\* Outside a rename, and until a failure or a crash cuts one short, an example
\* carries its intent's current name (the API description: "Renaming one updates
\* its examples.").
NamesCurrent ==
    storeLock = Nil /\ faults = 0 /\ crashes = 0 =>
        \A e \in ExampleIds :
            Exists(examples, e) /\ Exists(intents, examples[e].intent)
            => examples[e].name = intents[examples[e].intent].name

\* All access runs "under a single lock": no thread waits for the store while
\* it keeps the index lock from the thread that owns the store.
WaitsForStore(t) ==
    /\ pc[t] \in {"building", "counting"} \/ (pc[t] = "listed" /\ Reads(t))
    /\ indexLock = t /\ ~StoreFree(t)
WaitsForIndex(t) ==
    /\ pc[t] \in {"stored", "flagged", "rowGone"}
    /\ storeLock = t /\ ~IndexFree(t)
NoCircularWait == ~ \E t, u \in Threads : WaitsForStore(t) /\ WaitsForIndex(u)

\* Every admitted request is answered.
RequestsFinish == \A t \in Threads : pc[t] # "idle" ~> pc[t] = "idle"
=============================================================================
