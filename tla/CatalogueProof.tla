--------------------------- MODULE CatalogueProof ---------------------------
(* Theorems about Catalogue, for every set of threads, ids, names and texts.  *)
EXTENDS Catalogue, TLAPS

(*************************** type correctness ******************************)

\* The map of a build that has listed nothing is typed.
LEMMA EmptyTyped == NoActives \in ActiveMap
<1>1. NoActives \in [{} -> Names]
  BY DEF NoActives
<1> QED BY <1>1 DEF ActiveMap

\* An idle thread's request is typed.
LEMMA NoRequestTyped == NoRequest \in Request
  BY DEF NoRequest, Request, WellFormed

\* Every request a route can carry is well-formed.
LEMMA RequestsTyped == Requests \subseteq Request
<1> USE CatalogueAssumption DEF WellFormed, Payload, Request, Mutations, Readers
<1> SUFFICES ASSUME NEW r \in Requests PROVE r \in Request
  OBVIOUS
<1>1. << >> \in Seq(Texts)
  OBVIOUS
<1>2. CASE \E n \in Names, s \in Statuses :
             r = Payload("create_domain", Nil, Nil, n, s, << >>, Nil)
  BY <1>1, <1>2
<1>3. CASE \E d \in DomainIds, n \in Names \cup {Nil}, s \in Statuses \cup {Nil} :
             r = Payload("update_domain", d, Nil, n, s, << >>, Nil)
  BY <1>1, <1>3
<1>4. CASE \E d \in DomainIds, n \in Names, s \in Statuses :
             r = Payload("create_intent", d, Nil, n, s, << >>, Nil)
  BY <1>1, <1>4
<1>5. CASE \E d \in DomainIds, i \in IntentIds, n \in Names \cup {Nil},
                s \in Statuses \cup {Nil} :
             r = Payload("update_intent", d, i, n, s, << >>, Nil)
  BY <1>1, <1>5
<1>6. CASE \E d \in DomainIds, i \in IntentIds :
             r = Payload("delete_intent", d, i, Nil, Nil, << >>, Nil)
  BY <1>1, <1>6
<1>7. CASE \E d \in DomainIds, i \in IntentIds, b \in Batches :
             r = Payload("add_examples", d, i, Nil, Nil, b, Nil)
  BY <1>7
<1>8. CASE \E d \in DomainIds, i \in IntentIds, e \in ExampleIds :
             r = Payload("delete_example", d, i, Nil, Nil, << >>, e)
  BY <1>1, <1>8
<1>9. CASE \E k \in {"delete_domain"} \cup Readers, d \in DomainIds :
             r = Payload(k, d, Nil, Nil, Nil, << >>, Nil)
  BY <1>1, <1>9
<1> QED BY <1>2, <1>3, <1>4, <1>5, <1>6, <1>7, <1>8, <1>9 DEF Requests

\* list_for_domain yields a map from intents to names.
LEMMA ActiveNamesTyped ==
  ASSUME TypeOK, NEW d
  PROVE  ActiveNames(d) \in ActiveMap
<1> DEFINE S == {j \in IntentIds : /\ Exists(intents, j)
                                   /\ intents[j].dom = d
                                   /\ intents[j].status = "active"}
<1>1. ActiveNames(d) = [i \in S |-> intents[i].name]
  BY DEF ActiveNames
<1>2. \A i \in S : intents[i].name \in Names
  BY DEF TypeOK, RowsTyped, Exists, IntentRow
<1>3. ActiveNames(d) \in [S -> Names]
  BY <1>1, <1>2
<1>4. S \in SUBSET IntentIds
  OBVIOUS
<1> QED BY <1>3, <1>4 DEF ActiveMap

\* The documents a build collects are documents of the catalogue.
LEMMA DocsTyped ==
  ASSUME TypeOK, NEW d, NEW names \in ActiveMap
  PROVE  DocsOf(d, names) \subseteq Doc
<1>1. PICK S \in SUBSET IntentIds : names \in [S -> Names]
  BY DEF ActiveMap
<1>2. ASSUME NEW e \in ExampleIds, Exists(examples, e), examples[e].intent \in DOMAIN names
      PROVE  [example |-> e, intent |-> examples[e].intent,
              name |-> names[examples[e].intent]] \in Doc
  BY <1>1, <1>2 DEF Doc
<1> QED BY <1>2 DEF DocsOf

\* A first start is typed.
LEMMA InitTyped == Init => TypeOK
BY EmptyTyped, NoRequestTyped
   DEF Init, TypeOK, RowsTyped, IndexesTyped, LocksTyped, ThreadsTyped, Labels

\* The locals of a thread stay typed however its request goes on or ends.
LEMMA ReturnTyped ==
  ASSUME ThreadsTyped, NEW t \in Threads, Return(t)
  PROVE  ThreadsTyped'
BY EmptyTyped, NoRequestTyped DEF ThreadsTyped, Return, Labels

\* The locals of a thread stay typed when its request moves on.
LEMMA GoToTyped ==
  ASSUME ThreadsTyped, NEW t \in Threads, NEW label \in Labels, GoTo(t, label),
         req[t].dom \in DomainIds, label \in {"resolved", "saved"} => req[t].name \in Names
  PROVE  ThreadsTyped'
BY DEF ThreadsTyped, GoTo

\* Deleting rows leaves a table of rows.
LEMMA WithoutTyped ==
  ASSUME NEW S, NEW Row, NEW table \in [S -> Row \cup {Nil}], NEW gone
  PROVE  Without(table, gone) \in [S -> Row \cup {Nil}]
BY DEF Without

\* No step of a service writes a value of the wrong kind.
LEMMA MutateTyped ==
  ASSUME TypeOK, NEW t \in Threads, Mutate(t)
  PROVE  TypeOK'
<1> USE DEF rows, indexes, locks, counters
<1>a. RowsTyped /\ IndexesTyped /\ LocksTyped /\ ThreadsTyped
  BY DEF TypeOK
<1>b. req[t] \in Request
  BY <1>a DEF ThreadsTyped
<1>d. pc[t] # "idle" /\ req[t].kind \notin {"none", "create_domain"} => req[t].dom \in DomainIds
  BY <1>b DEF Request, WellFormed
<1>e. pc[t] \notin {"idle", "admitted"} => req[t].dom \in DomainIds
  BY <1>a DEF ThreadsTyped
<1>1. CASE ReadIntent(t)
  <2>1. /\ req[t].intent \in IntentIds
        /\ intents[req[t].intent].name \in Names
    BY <1>a, <1>b, <1>1 DEF ReadIntent, OwnsIntent, Exists, RowsTyped, IntentRow, Request, WellFormed
  <2>2. [req[t] EXCEPT !.name = intents[req[t].intent].name] \in Request
    BY <1>b, <1>1, <2>1 DEF Request, WellFormed, ReadIntent
  <2>3. ThreadsTyped'
    BY <1>1, <1>a, <1>d, <2>1, <2>2 DEF ReadIntent, ThreadsTyped, Labels, Request
  <2> QED BY <1>1, <1>a, <2>3 DEF ReadIntent, TypeOK, RowsTyped, IndexesTyped, LocksTyped
<1>2. CASE Refuse(t)
  BY <1>a, <1>2, ReturnTyped DEF Refuse, TypeOK, RowsTyped, IndexesTyped, LocksTyped
<1>3. CASE CreateDomain(t)
  <2>1. [name |-> req[t].name, status |-> req[t].status] \in DomainRow
    BY <1>b, <1>3 DEF CreateDomain, Request, WellFormed, DomainRow
  <2>2. RowsTyped'
    BY <1>a, <1>3, <2>1 DEF CreateDomain, RowsTyped, FreshDomains
  <2> QED BY <1>a, <1>3, <2>2, ReturnTyped DEF CreateDomain, TypeOK, IndexesTyped, LocksTyped
<1>4. CASE UpdateDomain(t)
  <2>1. domains[req[t].dom] \in DomainRow
    BY <1>a, <1>b, <1>4 DEF UpdateDomain, Enter, Accepts, Exists, RowsTyped, Request, WellFormed
  <2>2. RowsTyped'
    BY <1>a, <1>b, <1>4, <2>1 DEF UpdateDomain, RowsTyped, DomainRow, Request
  <2>3. ThreadsTyped'
    BY <1>a, <1>4, GoToTyped, <1>d, <1>e DEF UpdateDomain, Enter, Labels
  <2> QED BY <1>a, <1>4, <2>2, <2>3 DEF UpdateDomain, Enter, TypeOK, IndexesTyped, LocksTyped
<1>5. CASE RenameDomain(t)
  <2>1. domains[req[t].dom] \in DomainRow
    BY <1>a, <1>b, <1>5 DEF RenameDomain, Accepts, Exists, RowsTyped, Request, WellFormed
  <2>2. RowsTyped'
    BY <1>a, <1>b, <1>5, <2>1 DEF RenameDomain, RowsTyped, DomainRow, Request
  <2> QED BY <1>a, <1>5, <2>2, ReturnTyped DEF RenameDomain, TypeOK, IndexesTyped, LocksTyped
<1>6. CASE DeleteDomainExamples(t)
  <2>1. ThreadsTyped'
    BY <1>a, <1>6, GoToTyped, <1>d, <1>e DEF DeleteDomainExamples, Enter, Labels
  <2>2. RowsTyped'
    BY <1>a, <1>6, WithoutTyped DEF DeleteDomainExamples, RowsTyped
  <2> QED BY <1>a, <1>6, <2>1, <2>2 DEF DeleteDomainExamples, Enter, TypeOK, IndexesTyped, LocksTyped
<1>7. CASE DeleteDomainIntents(t)
  <2>1. ThreadsTyped'
    BY <1>a, <1>7, GoToTyped, <1>d, <1>e DEF DeleteDomainIntents, Labels
  <2>2. RowsTyped'
    BY <1>a, <1>7, WithoutTyped DEF DeleteDomainIntents, RowsTyped
  <2> QED BY <1>a, <1>7, <2>1, <2>2 DEF DeleteDomainIntents, TypeOK, IndexesTyped, LocksTyped
<1>8. CASE DeleteDomainRow(t)
  <2>1. ThreadsTyped'
    BY <1>a, <1>8, GoToTyped, <1>d, <1>e DEF DeleteDomainRow, Labels
  <2>2. RowsTyped'
    BY <1>a, <1>8, WithoutTyped DEF DeleteDomainRow, RowsTyped
  <2> QED BY <1>a, <1>8, <2>1, <2>2 DEF DeleteDomainRow, TypeOK, IndexesTyped, LocksTyped
<1>9. CASE DropIndex(t)
  <2>1. IndexesTyped' /\ LocksTyped'
    BY <1>a, <1>9 DEF DropIndex, IndexesTyped, LocksTyped, ReleaseStore
  <2> QED BY <1>a, <1>9, <2>1, ReturnTyped DEF DropIndex, TypeOK, RowsTyped
<1>10. CASE CreateIntent(t)
  <2>1. [dom |-> req[t].dom, name |-> req[t].name, status |-> req[t].status] \in IntentRow
    BY <1>b, <1>10 DEF CreateIntent, Enter, Request, WellFormed, IntentRow
  <2>2. RowsTyped'
    BY <1>a, <1>10, <2>1 DEF CreateIntent, RowsTyped, FreshIntents, IntentRow
  <2>3. ThreadsTyped'
    BY <1>a, <1>10, GoToTyped, <1>d, <1>e DEF CreateIntent, Enter, Labels
  <2> QED BY <1>a, <1>10, <2>2, <2>3 DEF CreateIntent, Enter, TypeOK, IndexesTyped, LocksTyped
<1>11. CASE UpdateIntent(t)
  <2>1. intents[req[t].intent] \in IntentRow
    BY <1>a, <1>b, <1>11
       DEF UpdateIntent, Enter, Accepts, OwnsIntent, Exists, RowsTyped, Request, WellFormed
  <2>2. RowsTyped'
    BY <1>a, <1>b, <1>11, <2>1 DEF UpdateIntent, RowsTyped, IntentRow, Request
  <2>3. ThreadsTyped'
    <3>1. CASE req[t].name \notin {Nil, intents[req[t].intent].name}
      BY <1>a, <1>b, <1>11, <3>1, GoToTyped, <1>d, <1>e DEF UpdateIntent, Enter, Labels, Request
    <3>2. CASE ~(req[t].name \notin {Nil, intents[req[t].intent].name})
      BY <1>a, <1>11, <3>2, GoToTyped, <1>d, <1>e DEF UpdateIntent, Enter, Labels
    <3> QED BY <3>1, <3>2
  <2> QED BY <1>a, <1>11, <2>2, <2>3 DEF UpdateIntent, Enter, TypeOK, IndexesTyped, LocksTyped
<1>12. CASE RenameExamples(t)
  <2>1. \A e \in ExampleIds : Exists(examples, e) =>
            [examples[e] EXCEPT !.name = req[t].name] \in ExampleRow
    BY <1>a, <1>12 DEF RenameExamples, RowsTyped, ThreadsTyped, Exists, ExampleRow
  <2>2. RowsTyped'
    BY <1>a, <1>12, <2>1 DEF RenameExamples, RowsTyped
  <2>3. ThreadsTyped'
    BY <1>a, <1>12, GoToTyped, <1>d, <1>e DEF RenameExamples, Labels
  <2> QED BY <1>a, <1>12, <2>2, <2>3 DEF RenameExamples, TypeOK, IndexesTyped, LocksTyped
<1>13. CASE DeleteIntentExamples(t)
  <2>1. ThreadsTyped'
    BY <1>a, <1>13, GoToTyped, <1>d, <1>e DEF DeleteIntentExamples, Enter, Labels
  <2>2. RowsTyped'
    BY <1>a, <1>13, WithoutTyped DEF DeleteIntentExamples, RowsTyped
  <2> QED BY <1>a, <1>13, <2>1, <2>2 DEF DeleteIntentExamples, Enter, TypeOK, IndexesTyped, LocksTyped
<1>14. CASE DeleteIntentRow(t)
  <2>1. ThreadsTyped'
    BY <1>a, <1>14, GoToTyped, <1>d, <1>e DEF DeleteIntentRow, Labels
  <2>2. RowsTyped'
    BY <1>a, <1>14, WithoutTyped DEF DeleteIntentRow, RowsTyped
  <2> QED BY <1>a, <1>14, <2>1, <2>2 DEF DeleteIntentRow, TypeOK, IndexesTyped, LocksTyped
<1>15. CASE AddExamples(t)
  <2>1. req[t].batch \in Seq(Texts)
    BY <1>b DEF Request
  <2>2. /\ req[t].dom \in DomainIds /\ req[t].intent \in IntentIds
        /\ req[t].name \in Names
    BY <1>a, <1>b, <1>15 DEF AddExamples, Request, WellFormed, ThreadsTyped
  <2>3. \A a \in DOMAIN req[t].batch : req[t].batch[a] \in Texts
    BY <2>1
  <2>4. PICK ids \in [DOMAIN req[t].batch -> FreshExamples] :
          /\ examples' = [e \in ExampleIds |->
                IF \E a \in DOMAIN ids : ids[a] = e
                THEN [dom |-> req[t].dom, intent |-> req[t].intent, name |-> req[t].name,
                      text |-> req[t].batch[CHOOSE a \in DOMAIN ids : ids[a] = e]]
                ELSE examples[e]]
          /\ spent' = spent \cup {ids[a] : a \in DOMAIN ids}
    BY <1>15 DEF AddExamples
  <2>5. \A e \in ExampleIds : examples'[e] \in ExampleRow \cup {Nil}
    <3> SUFFICES ASSUME NEW e \in ExampleIds PROVE examples'[e] \in ExampleRow \cup {Nil}
      OBVIOUS
    <3>1. CASE \E a \in DOMAIN ids : ids[a] = e
      BY <2>2, <2>3, <2>4, <3>1 DEF ExampleRow
    <3>2. CASE ~ \E a \in DOMAIN ids : ids[a] = e
      BY <1>a, <2>4, <3>2 DEF RowsTyped
    <3> QED BY <3>1, <3>2
  <2>6. RowsTyped'
    <3>1. examples' \in [ExampleIds -> ExampleRow \cup {Nil}]
      BY <2>4, <2>5
    <3>2. spent' \subseteq DomainIds \cup ExampleIds
      BY <1>a, <2>4 DEF RowsTyped, FreshExamples
    <3> QED BY <1>a, <1>15, <3>1, <3>2 DEF AddExamples, RowsTyped
  <2>7. ThreadsTyped'
    BY <1>a, <1>15, GoToTyped, <1>d, <1>e DEF AddExamples, Labels
  <2> QED BY <1>a, <1>15, <2>6, <2>7 DEF AddExamples, TypeOK, IndexesTyped, LocksTyped
<1>16. CASE DeleteExample(t)
  <2>1. ThreadsTyped'
    BY <1>a, <1>16, GoToTyped, <1>d, <1>e DEF DeleteExample, Labels
  <2>2. RowsTyped'
    BY <1>a, <1>16, WithoutTyped DEF DeleteExample, RowsTyped
  <2> QED BY <1>a, <1>16, <2>1, <2>2 DEF DeleteExample, TypeOK, IndexesTyped, LocksTyped
<1> QED BY <1>1, <1>2, <1>3, <1>4, <1>5, <1>6, <1>7, <1>8, <1>9, <1>10, <1>11, <1>12,
           <1>13, <1>14, <1>15, <1>16 DEF Mutate

\* No step of the index manager or the classifier does either.
LEMMA ServeTyped ==
  ASSUME TypeOK, NEW t \in Threads, Serve(t)
  PROVE  TypeOK'
<1> USE DEF rows, indexes, locks, counters
<1>a. RowsTyped /\ IndexesTyped /\ LocksTyped /\ ThreadsTyped
  BY DEF TypeOK
<1>b. req[t] \in Request
  BY <1>a DEF ThreadsTyped
<1>d. pc[t] # "idle" /\ req[t].kind \notin {"none", "create_domain"} => req[t].dom \in DomainIds
  BY <1>b DEF Request, WellFormed
<1>e. pc[t] \notin {"idle", "admitted"} => req[t].dom \in DomainIds
  BY <1>a DEF ThreadsTyped
<1>1. CASE MarkDirty(t)
  <2>1. ThreadsTyped'
    BY <1>a, <1>b, <1>1, GoToTyped, <1>d, <1>e DEF MarkDirty, Labels
  <2>2. IndexesTyped'
    BY <1>a, <1>1, <1>d, <1>e DEF MarkDirty, IndexesTyped
  <2> QED BY <1>a, <1>1, <2>1, <2>2 DEF MarkDirty, TypeOK, RowsTyped, LocksTyped
<1>2. CASE Build(t)
  <2>1. ThreadsTyped'
    BY <1>a, <1>2, GoToTyped, <1>d, <1>e DEF Build, Labels
  <2> QED BY <1>a, <1>2, <2>1 DEF Build, TypeOK, RowsTyped, IndexesTyped, LocksTyped
<1>3. CASE ListActive(t)
  <2>1. ActiveNames(req[t].dom) \in ActiveMap
    BY ActiveNamesTyped
  <2>2. ThreadsTyped'
    BY <1>a, <1>3, <2>1 DEF ListActive, ThreadsTyped, Labels
  <2> QED BY <1>a, <1>3, <2>2 DEF ListActive, TypeOK, RowsTyped, IndexesTyped, LocksTyped
<1>4. CASE Collect(t)
  <2> DEFINE d == req[t].dom
             docs == DocsOf(d, actives[t])
  <2>1. docs \subseteq Doc
    <3>1. actives[t] \in ActiveMap
      BY <1>a DEF ThreadsTyped
    <3> QED BY <3>1, DocsTyped
  <2>2. IndexesTyped'
    <3>1. d \in DomainIds /\ versions[d] \in Nat
      BY <1>a, <1>4, <1>e DEF Collect, IndexesTyped
    <3>2. [version |-> versions[d] + 1, docs |-> docs] \in Bm25Index
      BY <2>1, <3>1 DEF Bm25Index
    <3>3. /\ index' = [index EXCEPT ![d] = [version |-> versions[d] + 1, docs |-> docs]]
          /\ versions' = [versions EXCEPT ![d] = @ + 1]
          /\ dirty' = dirty \ {d}
      BY <1>4 DEF Collect
    <3> HIDE DEF d, docs
    <3> QED BY <1>a, <3>1, <3>2, <3>3 DEF IndexesTyped
  <2>3. LocksTyped'
    BY <1>a, <1>4 DEF Collect, LocksTyped, ReleaseStore, ReleaseIndex
  <2>4. ThreadsTyped'
    <3>1. CASE Return(t)
      BY <1>a, <3>1, ReturnTyped
    <3>2. CASE /\ pc' = [pc EXCEPT ![t] = IF req[t].kind = "reindex" THEN "rebuilt" ELSE "fetched"]
               /\ actives' = [actives EXCEPT ![t] = NoActives]
               /\ held' = [held EXCEPT ![t] = IF req[t].kind = "reindex" THEN {} ELSE docs]
               /\ UNCHANGED req
      <4>1. req[t].dom \in DomainIds
        BY <1>4, <1>e DEF Collect
      <4>2. pc' \in [Threads -> Labels] /\ req' \in [Threads -> Request]
        BY <1>a, <3>2 DEF ThreadsTyped, Labels
      <4>3. actives' \in [Threads -> ActiveMap] /\ held' \in [Threads -> SUBSET Doc]
        BY <1>a, <2>1, <3>2, EmptyTyped DEF ThreadsTyped
      <4> QED BY <1>a, <3>2, <4>1, <4>2, <4>3 DEF ThreadsTyped
    <3> QED BY <1>4, <3>1, <3>2 DEF Collect
  <2> QED BY <1>a, <1>4, <2>2, <2>3, <2>4 DEF Collect, TypeOK, RowsTyped
<1>5. CASE OpenStatus(t)
  <2>1. ThreadsTyped'
    BY <1>a, <1>5, GoToTyped, <1>d, <1>e DEF OpenStatus, Labels
  <2> QED BY <1>a, <1>5, <2>1 DEF OpenStatus, TypeOK, RowsTyped, IndexesTyped, LocksTyped
<1>6. CASE CountExamples(t)
  BY <1>a, <1>6, ReturnTyped
     DEF CountExamples, ReleaseIndex, TypeOK, RowsTyped, IndexesTyped, LocksTyped
<1>7. CASE ListIntents(t)
  <2>1. ThreadsTyped'
    BY <1>a, <1>7, GoToTyped, <1>d, <1>e DEF ListIntents, Labels
  <2> QED BY <1>a, <1>7, <2>1 DEF ListIntents, TypeOK, RowsTyped, IndexesTyped, LocksTyped
<1>8. CASE GetReady(t)
  <2>1. index[req[t].dom] \in Bm25Index
    BY <1>a, <1>8, <1>e DEF GetReady, IsReady, IndexesTyped
  <2>2. ThreadsTyped'
    BY <1>a, <1>8, <2>1 DEF GetReady, ThreadsTyped, Labels, Bm25Index
  <2> QED BY <1>a, <1>8, <2>2 DEF GetReady, TypeOK, RowsTyped, IndexesTyped, LocksTyped
<1>9. CASE GetStale(t)
  <2>1. ThreadsTyped'
    BY <1>a, <1>9, GoToTyped, <1>d, <1>e DEF GetStale, Labels
  <2> QED BY <1>a, <1>9, <2>1 DEF GetStale, TypeOK, RowsTyped, IndexesTyped, LocksTyped
<1>10. CASE Respond(t)
  BY <1>a, <1>10, ReturnTyped DEF Respond, TypeOK, RowsTyped, IndexesTyped, LocksTyped
<1> QED BY <1>1, <1>2, <1>3, <1>4, <1>5, <1>6, <1>7, <1>8, <1>9, <1>10 DEF Serve

\* TypeOK is inductive.
LEMMA NextTyped == TypeOK /\ [Next]_vars => TypeOK'
<1> SUFFICES ASSUME TypeOK, [Next]_vars PROVE TypeOK'
  OBVIOUS
<1>a. RowsTyped /\ IndexesTyped /\ LocksTyped /\ ThreadsTyped
  BY DEF TypeOK
<1>1. ASSUME NEW t \in Threads, NEW r \in Requests, Admit(t, r)
      PROVE  TypeOK'
  <2>1. ThreadsTyped'
    BY <1>a, <1>1, RequestsTyped DEF Admit, ThreadsTyped, Labels
  <2> QED BY <1>a, <1>1, <2>1
          DEF Admit, TypeOK, RowsTyped, IndexesTyped, LocksTyped, rows, indexes, locks, counters
<1>2. ASSUME NEW t \in Threads, Fail(t)
      PROVE  TypeOK'
  BY <1>a, <1>2, ReturnTyped
     DEF Fail, ReleaseStore, ReleaseIndex, TypeOK, RowsTyped, IndexesTyped, LocksTyped, rows, indexes
<1>3. CASE Restart
  <2>1. ThreadsTyped'
    BY <1>3, EmptyTyped, NoRequestTyped DEF Restart, ThreadsTyped, Labels
  <2>2. \A d \in DomainIds : Corpus(d) \subseteq Doc
    BY ActiveNamesTyped, DocsTyped DEF Corpus
  <2>3. IndexesTyped'
    BY <1>3, <2>2 DEF Restart, IndexesTyped, Bm25Index
  <2> QED BY <1>a, <1>3, <2>1, <2>3 DEF Restart, TypeOK, RowsTyped, LocksTyped, rows
<1>4. CASE UNCHANGED vars
  BY <1>a, <1>4 DEF vars, rows, indexes, locks, threads, counters,
                    TypeOK, RowsTyped, IndexesTyped, LocksTyped, ThreadsTyped
<1> QED BY <1>1, <1>2, <1>3, <1>4, MutateTyped, ServeTyped DEF Next

\* Rows, indexes, locks and requests keep their types: in particular no update
\* writes a field its payload left unset, and every index holds documents.
THEOREM TypeCorrect == Spec => []TypeOK
BY InitTyped, NextTyped, PTL DEF Spec

(***************************** the two locks *******************************)

LockInv == KindsAgree /\ LockDiscipline

\* At a first start nobody holds a lock or is inside a section.
LEMMA InitLocked == Init => LockInv
BY NilAssumption DEF Init, LockInv, KindsAgree, LockDiscipline, InStore, InIndex, NoRequest

\* A service step takes or gives up a lock exactly as it enters or leaves.
LEMMA MutateLocked ==
  ASSUME TypeOK, LockInv, NEW t \in Threads, Mutate(t)
  PROVE  LockInv'
<1> USE NilAssumption DEF LockInv, KindsAgree, LockDiscipline, InStore, InIndex, TypeOK, LocksTyped,
        ThreadsTyped, StoreFree, IndexFree, Return, GoTo, ReleaseStore, ReleaseIndex, NoRequest,
        Mutations, locks
<1>1. CASE ReadIntent(t)
  BY <1>1 DEF ReadIntent
<1>2. CASE Refuse(t)
  BY <1>2 DEF Refuse
<1>3. CASE CreateDomain(t)
  BY <1>3 DEF CreateDomain
<1>4. CASE UpdateDomain(t)
  BY <1>4 DEF UpdateDomain, Enter
<1>5. CASE RenameDomain(t)
  BY <1>5 DEF RenameDomain
<1>6. CASE DeleteDomainExamples(t)
  BY <1>6 DEF DeleteDomainExamples, Enter
<1>7. CASE DeleteDomainIntents(t)
  BY <1>7 DEF DeleteDomainIntents
<1>8. CASE DeleteDomainRow(t)
  BY <1>8 DEF DeleteDomainRow
<1>9. CASE DropIndex(t)
  BY <1>9 DEF DropIndex
<1>10. CASE CreateIntent(t)
  BY <1>10 DEF CreateIntent, Enter
<1>11. CASE UpdateIntent(t)
  BY <1>11 DEF UpdateIntent, Enter
<1>12. CASE RenameExamples(t)
  BY <1>12 DEF RenameExamples
<1>13. CASE DeleteIntentExamples(t)
  BY <1>13 DEF DeleteIntentExamples, Enter
<1>14. CASE DeleteIntentRow(t)
  BY <1>14 DEF DeleteIntentRow
<1>15. CASE AddExamples(t)
  BY <1>15 DEF AddExamples
<1>16. CASE DeleteExample(t)
  BY <1>16 DEF DeleteExample
<1> QED BY <1>1, <1>2, <1>3, <1>4, <1>5, <1>6, <1>7, <1>8, <1>9, <1>10, <1>11, <1>12, <1>13, <1>14, <1>15, <1>16 DEF Mutate

\* So does a step of the index manager, rebuild's gap included.
LEMMA ServeLocked ==
  ASSUME TypeOK, LockInv, NEW t \in Threads, Serve(t)
  PROVE  LockInv'
<1> USE NilAssumption DEF LockInv, KindsAgree, LockDiscipline, InStore, InIndex, TypeOK, LocksTyped,
        ThreadsTyped, StoreFree, IndexFree, Return, GoTo, ReleaseStore, ReleaseIndex, NoRequest,
        Mutations, locks
<1>1. CASE MarkDirty(t)
  BY <1>1 DEF MarkDirty
<1>2. CASE Build(t)
  BY <1>2 DEF Build
<1>3. CASE ListActive(t)
  BY <1>3 DEF ListActive
<1>4. CASE Collect(t)
  BY <1>4 DEF Collect
<1>5. CASE OpenStatus(t)
  BY <1>5 DEF OpenStatus
<1>6. CASE CountExamples(t)
  BY <1>6 DEF CountExamples
<1>7. CASE ListIntents(t)
  BY <1>7 DEF ListIntents
<1>8. CASE GetReady(t)
  BY <1>8 DEF GetReady
<1>9. CASE GetStale(t)
  BY <1>9 DEF GetStale
<1>10. CASE Respond(t)
  BY <1>10 DEF Respond
<1> QED BY <1>1, <1>2, <1>3, <1>4, <1>5, <1>6, <1>7, <1>8, <1>9, <1>10 DEF Serve

\* LockInv is inductive.
LEMMA NextLocked == TypeOK /\ LockInv /\ [Next]_vars => LockInv'
<1> SUFFICES ASSUME TypeOK, LockInv, [Next]_vars PROVE LockInv'
  OBVIOUS
<1> USE NilAssumption DEF LockInv, KindsAgree, LockDiscipline, InStore, InIndex
<1>1. ASSUME NEW t \in Threads, NEW r \in Requests, Admit(t, r)
      PROVE  LockInv'
  BY <1>1 DEF Admit, TypeOK, ThreadsTyped, locks
<1>2. ASSUME NEW t \in Threads, Fail(t)
      PROVE  LockInv'
  BY <1>2 DEF Fail, Return, ReleaseStore, ReleaseIndex, TypeOK, ThreadsTyped, LocksTyped
<1>3. CASE Restart
  BY <1>3 DEF Restart, NoRequest
<1>4. CASE UNCHANGED vars
  BY <1>4 DEF vars, locks, threads
<1> QED BY <1>1, <1>2, <1>3, <1>4, MutateLocked, ServeLocked DEF Next

\* Each lock is owned by exactly the thread inside its critical section, so at
\* most one service writes and at most one build runs at any time.
THEOREM LocksExclude == Spec => []LockDiscipline
<1>1. LockInv => LockDiscipline
  BY DEF LockInv
<1> QED BY <1>1, InitLocked, NextLocked, TypeCorrect, PTL DEF Spec

(************************ uuids and their homes ****************************)

\* At a first start no uuid has been minted.
LEMMA InitHomes == Init => Homes
BY DEF Init, Homes, Exists

\* A service mints a uuid at most once and never moves an intent.
LEMMA MutateHomes ==
  ASSUME TypeOK, Homes, NEW t \in Threads, Mutate(t)
  PROVE  Homes'
<1> USE NilAssumption DEF Homes, Exists, OwnsIntent, Without, Return, GoTo, NoRequest,
        TypeOK, RowsTyped, ThreadsTyped, rows
<1>a. req[t] \in Request
  OBVIOUS
<1>1. CASE ReadIntent(t)
  BY <1>a, <1>1 DEF ReadIntent, Request, WellFormed
<1>2. CASE Refuse(t)
  BY <1>a, <1>2 DEF Refuse
<1>3. CASE CreateDomain(t)
  BY <1>a, <1>3 DEF CreateDomain
<1>4. CASE UpdateDomain(t)
  BY <1>a, <1>4 DEF UpdateDomain, Enter
<1>5. CASE RenameDomain(t)
  BY <1>a, <1>5 DEF RenameDomain
<1>6. CASE DeleteDomainExamples(t)
  BY <1>a, <1>6 DEF DeleteDomainExamples, Enter
<1>7. CASE DeleteDomainIntents(t)
  BY <1>a, <1>7 DEF DeleteDomainIntents
<1>8. CASE DeleteDomainRow(t)
  BY <1>a, <1>8 DEF DeleteDomainRow
<1>9. CASE DropIndex(t)
  BY <1>a, <1>9 DEF DropIndex
<1>10. CASE CreateIntent(t)
  BY <1>a, <1>10 DEF CreateIntent, Enter, Accepts, FreshIntents
<1>11. CASE UpdateIntent(t)
  BY <1>a, <1>11 DEF UpdateIntent, Enter, Accepts, IntentRow
<1>12. CASE RenameExamples(t)
  BY <1>a, <1>12 DEF RenameExamples, ExampleRow
<1>13. CASE DeleteIntentExamples(t)
  BY <1>a, <1>13 DEF DeleteIntentExamples, Enter, Accepts, Request, WellFormed
<1>14. CASE DeleteIntentRow(t)
  BY <1>a, <1>14 DEF DeleteIntentRow
<1>15. CASE AddExamples(t)
  <2>1. PICK ids \in [DOMAIN req[t].batch -> FreshExamples] :
          /\ \A e \in ExampleIds : (~ \E a \in DOMAIN ids : ids[a] = e) =>
                                       examples'[e] = examples[e]
          /\ spent' = spent \cup {ids[a] : a \in DOMAIN ids}
    BY <1>15 DEF AddExamples
  <2>2. \A e \in ExampleIds : examples'[e] # Nil => e \in spent'
    BY <2>1
  <2> QED BY <1>15, <2>2 DEF AddExamples
<1>16. CASE DeleteExample(t)
  BY <1>a, <1>16 DEF DeleteExample
<1> QED BY <1>1, <1>2, <1>3, <1>4, <1>5, <1>6, <1>7, <1>8, <1>9, <1>10, <1>11, <1>12, <1>13, <1>14, <1>15, <1>16 DEF Mutate

\* Reads and builds write no row.
LEMMA ServeHomes ==
  ASSUME TypeOK, Homes, NEW t \in Threads, Serve(t)
  PROVE  Homes'
<1> USE DEF Homes, Return, GoTo, NoRequest, TypeOK, ThreadsTyped, rows
<1>1. CASE MarkDirty(t)
  BY <1>1 DEF MarkDirty
<1>2. CASE Build(t)
  BY <1>2 DEF Build
<1>3. CASE ListActive(t)
  BY <1>3 DEF ListActive
<1>4. CASE Collect(t)
  BY <1>4 DEF Collect
<1>5. CASE OpenStatus(t)
  BY <1>5 DEF OpenStatus
<1>6. CASE CountExamples(t)
  BY <1>6 DEF CountExamples
<1>7. CASE ListIntents(t)
  BY <1>7 DEF ListIntents
<1>8. CASE GetReady(t)
  BY <1>8 DEF GetReady
<1>9. CASE GetStale(t)
  BY <1>9 DEF GetStale
<1>10. CASE Respond(t)
  BY <1>10 DEF Respond
<1> QED BY <1>1, <1>2, <1>3, <1>4, <1>5, <1>6, <1>7, <1>8, <1>9, <1>10 DEF Serve

\* Homes is inductive.
LEMMA NextHomes == TypeOK /\ Homes /\ [Next]_vars => Homes'
<1> SUFFICES ASSUME TypeOK, Homes, [Next]_vars PROVE Homes'
  OBVIOUS
<1>1. ASSUME NEW t \in Threads, NEW r \in Requests, Admit(t, r)
      PROVE  Homes'
  BY <1>1 DEF Admit, Homes, TypeOK, ThreadsTyped, rows
<1>2. ASSUME NEW t \in Threads, Fail(t)
      PROVE  Homes'
  BY <1>2 DEF Fail, Return, Homes, TypeOK, ThreadsTyped, rows
<1>3. CASE Restart
  BY <1>3 DEF Restart, Homes, rows
<1>4. CASE UNCHANGED vars
  BY <1>4 DEF vars, Homes, rows, threads
<1> QED BY <1>1, <1>2, <1>3, <1>4, MutateHomes, ServeHomes DEF Next

(************************** freshness: frames ******************************)

IsActive(i, d) == /\ Exists(intents, i)
                  /\ intents[i].dom = d
                  /\ intents[i].status = "active"
Indexed(e, d) == /\ Exists(examples, e)
                 /\ examples[e].dom = d
                 /\ examples[e].intent \in DOMAIN ActiveNames(d)

\* An intent is indexed under exactly the condition build() filters on.
LEMMA ActiveDomain ==
  ASSUME NEW d
  PROVE  DOMAIN ActiveNames(d) = {i \in IntentIds : IsActive(i, d)}
BY DEF ActiveNames, IsActive

\* A step that leaves a domain's active intents alone leaves their map alone.
LEMMA ActiveSame ==
  ASSUME NEW d,
         \A i \in IntentIds : IsActive(i, d)' <=> IsActive(i, d),
         \A i \in IntentIds : IsActive(i, d) => intents'[i].name = intents[i].name
  PROVE  ActiveNames(d)' = ActiveNames(d)
<1> DEFINE S == {i \in IntentIds : IsActive(i, d)}
<1>1. ActiveNames(d) = [i \in S |-> intents[i].name]
  BY DEF ActiveNames, IsActive
<1>2. ActiveNames(d)' = [i \in S' |-> intents'[i].name]
  BY DEF ActiveNames, IsActive
<1>3. S' = S
  OBVIOUS
<1>4. \A i \in S : intents'[i].name = intents[i].name
  OBVIOUS
<1> HIDE DEF S
<1> QED BY <1>1, <1>2, <1>3, <1>4

\* And its corpus, when the examples of those intents stay too.
LEMMA CorpusSame ==
  ASSUME NEW d,
         ActiveNames(d)' = ActiveNames(d),
         \A e \in ExampleIds : Indexed(e, d)' <=> Indexed(e, d),
         \A e \in ExampleIds : Indexed(e, d) => examples'[e].intent = examples[e].intent
  PROVE  Corpus(d)' = Corpus(d)
<1> DEFINE S == {e \in ExampleIds : Indexed(e, d)}
<1>1. Corpus(d) = {[example |-> e, intent |-> examples[e].intent,
                    name |-> ActiveNames(d)[examples[e].intent]] : e \in S}
  BY DEF Corpus, DocsOf, Indexed
<1>2. Corpus(d)' = {[example |-> e, intent |-> examples'[e].intent,
                     name |-> ActiveNames(d)'[examples'[e].intent]] : e \in S'}
  BY DEF Corpus, DocsOf, Indexed
<1>3. S' = S
  OBVIOUS
<1>4. \A e \in S : examples'[e].intent = examples[e].intent
  OBVIOUS
<1> HIDE DEF S
<1> QED BY <1>1, <1>2, <1>3, <1>4

\* A step that writes no row changes no corpus.
LEMMA RowsSame ==
  ASSUME UNCHANGED <<intents, examples>>, NEW d
  PROVE  ActiveNames(d)' = ActiveNames(d) /\ Corpus(d)' = Corpus(d)
<1>1. ActiveNames(d)' = ActiveNames(d)
  BY ActiveSame DEF IsActive, Exists
<1> QED BY <1>1, CorpusSame DEF Indexed, Exists

(************************* freshness: the steps ****************************)

\* A step that writes no row and hands out nothing new.
LEMMA QuietFresh ==
  ASSUME TypeOK, IndexFresh, OthersFresh,
         UNCHANGED <<intents, examples, storeLock, faults>>,
         \A d \in DomainIds : IsReady(d)' => IsReady(d) /\ index'[d] = index[d],
         storeLock # Nil => req'[storeLock].dom = req[storeLock].dom
  PROVE  IndexFresh' /\ OthersFresh'
<1>1. \A d \in DomainIds : Corpus(d)' = Corpus(d)
  BY RowsSame
<1> QED BY <1>1 DEF IndexFresh, OthersFresh

\* A step that writes no row keeps a build's list of intents current.
LEMMA QuietBuilds ==
  ASSUME BuildsCurrent, UNCHANGED <<intents, examples, storeLock, faults>>,
         storeLock # Nil => req'[storeLock].dom = req[storeLock].dom,
         \A u \in Threads : pc'[u] = "listed" =>
             /\ pc[u] = "listed"
             /\ actives'[u] = actives[u]
             /\ req'[u].dom = req[u].dom
  PROVE  BuildsCurrent'
<1>1. ASSUME NEW u \in Threads, pc'[u] = "listed", faults' = 0,
             StoreFree(u)' \/ req'[storeLock'].dom # req'[u].dom
      PROVE  actives'[u] = ActiveNames(req[u].dom)'
  <2>1. PICK d : d = req[u].dom
    OBVIOUS
  <2>2. StoreFree(u) \/ req[storeLock].dom # req[u].dom
    BY <1>1 DEF StoreFree
  <2>3. actives[u] = ActiveNames(d)
    BY <1>1, <2>1, <2>2 DEF BuildsCurrent
  <2>4. ActiveNames(d)' = ActiveNames(d)
    BY RowsSame
  <2>5. req'[u].dom = d
    BY <1>1, <2>1
  <2> QED BY <1>1, <2>3, <2>4, <2>5 DEF ActiveNames
<1> QED BY <1>1 DEF BuildsCurrent

\* A write under the store lock that touches one domain's corpus at most.
LEMMA WriteFresh ==
  ASSUME TypeOK, IndexFresh, OthersFresh, NEW t \in Threads,
         StoreFree(t), storeLock' = t,
         UNCHANGED <<indexes, faults>>,
         req'[t].dom = req[t].dom,
         \A d \in DomainIds \ {req[t].dom} : Corpus(d)' = Corpus(d)
  PROVE  IndexFresh' /\ OthersFresh'
BY NilAssumption DEF IndexFresh, OthersFresh, StoreFree, IsReady, indexes

\* No other build may trust its list of the domain a writer writes, and the
\* lists of the other domains are left as they were.
LEMMA WriteBuilds ==
  ASSUME ThreadsTyped, BuildsCurrent, NEW t \in Threads,
         StoreFree(t), storeLock' = t, UNCHANGED faults,
         req'[t].dom = req[t].dom, pc'[t] # "listed",
         \A u \in Threads \ {t} : /\ pc'[u] = pc[u] /\ req'[u] = req[u]
                                  /\ actives'[u] = actives[u],
         \A d \in DomainIds \ {req[t].dom} : ActiveNames(d)' = ActiveNames(d)
  PROVE  BuildsCurrent'
<1>1. ASSUME NEW u \in Threads, pc'[u] = "listed", faults' = 0,
             StoreFree(u)' \/ req'[storeLock'].dom # req'[u].dom
      PROVE  actives'[u] = ActiveNames(req[u].dom)' /\ req'[u] = req[u]
  <2>1. u # t
    BY <1>1
  <2>2. PICK d : d = req[u].dom
    OBVIOUS
  <2>3. d \in DomainIds \ {req[t].dom}
    BY <1>1, <2>1, <2>2, NilAssumption DEF ThreadsTyped, StoreFree
  <2>4. StoreFree(u) \/ req[storeLock].dom # req[u].dom
    BY <2>2, <2>3 DEF StoreFree
  <2>5. actives[u] = ActiveNames(d)
    BY <1>1, <2>1, <2>2, <2>4 DEF BuildsCurrent
  <2>6. ActiveNames(d)' = ActiveNames(d)
    BY <2>3
  <2> QED BY <2>1, <2>2, <2>5, <2>6 DEF ActiveNames
<1> QED BY <1>1 DEF BuildsCurrent, ActiveNames

\* No step of a service leaves a servable index behind the store's back.
LEMMA MutateFresh ==
  ASSUME FreshInv, NEW t \in Threads, Mutate(t)
  PROVE  IndexFresh' /\ OthersFresh' /\ BuildsCurrent'
<1> USE DEF rows, indexes, locks, counters
<1>a. /\ TypeOK /\ LockDiscipline /\ Homes /\ KindsAgree
      /\ IndexFresh /\ OthersFresh /\ BuildsCurrent
  BY DEF FreshInv
<1>b. /\ RowsTyped /\ ThreadsTyped /\ req[t] \in Request
      /\ storeLock \in Threads \cup {Nil} /\ indexLock \in Threads \cup {Nil}
  BY <1>a DEF TypeOK, ThreadsTyped, LocksTyped
<1>c. pc[t] \in {"admitted", "resolved"} => storeLock # t
  BY <1>a DEF LockDiscipline, InStore
<1>d. pc[t] \in {"examplesGone", "intentsGone", "rowGone", "examplesCut", "saved", "stored"}
        => storeLock = t
  BY <1>a DEF LockDiscipline, InStore
<1> DEFINE D == req[t].dom
           Frame == \A d \in DomainIds \ {D} : /\ Corpus(d)' = Corpus(d)
                                               /\ ActiveNames(d)' = ActiveNames(d)
\* What a row-writing step owes once the other domains' corpora are framed.
<1>w. ASSUME StoreFree(t), storeLock' = t, UNCHANGED <<indexes, faults>>,
             req'[t].dom = D, pc'[t] # "listed", Frame,
             \A u \in Threads \ {t} : /\ pc'[u] = pc[u] /\ req'[u] = req[u]
                                      /\ actives'[u] = actives[u]
      PROVE  IndexFresh' /\ OthersFresh' /\ BuildsCurrent'
  BY <1>w, <1>a, <1>b, WriteFresh, WriteBuilds
\* What a step that writes no corpus row owes.
<1>q. ASSUME UNCHANGED <<intents, examples, indexes, storeLock, faults>>,
             storeLock # t, pc'[t] # "listed",
             \A u \in Threads \ {t} : /\ pc'[u] = pc[u] /\ req'[u] = req[u]
                                      /\ actives'[u] = actives[u]
      PROVE  IndexFresh' /\ OthersFresh' /\ BuildsCurrent'
  <2>1. storeLock # Nil => req'[storeLock].dom = req[storeLock].dom
    BY <1>q, <1>b
  <2>2. IndexFresh' /\ OthersFresh'
    BY <1>a, <1>q, <2>1, QuietFresh DEF IsReady
  <2> QED BY <1>a, <1>q, <2>1, <2>2, QuietBuilds
<1> HIDE DEF Frame, D
<1>1. CASE ReadIntent(t)
  BY <1>1, <1>q, <1>b, <1>c DEF ReadIntent, ThreadsTyped
<1>2. CASE Refuse(t)
  BY <1>2, <1>q, <1>b, <1>c DEF Refuse, Return, ThreadsTyped
<1>3. CASE CreateDomain(t)
  BY <1>3, <1>q, <1>b, <1>c DEF CreateDomain, Return, ThreadsTyped
<1>4. CASE UpdateDomain(t)
  <2>1. Frame
    BY <1>4, RowsSame DEF Frame, UpdateDomain
  <2> QED BY <1>4, <1>w, <1>b, <2>1 DEF UpdateDomain, Enter, GoTo, ThreadsTyped, D
<1>5. CASE RenameDomain(t)
  BY <1>5, <1>q, <1>b, <1>c DEF RenameDomain, Return, ThreadsTyped
<1>6. CASE DeleteDomainExamples(t)
  <2>1. ASSUME NEW d \in DomainIds \ {D}
        PROVE  Corpus(d)' = Corpus(d) /\ ActiveNames(d)' = ActiveNames(d)
    <3>1. ActiveNames(d)' = ActiveNames(d)
      BY <1>6, ActiveSame DEF DeleteDomainExamples, IsActive, Exists
    <3>2. \A e \in ExampleIds : examples'[e] =
            IF Exists(examples, e) /\ examples[e].dom = D THEN Nil ELSE examples[e]
      BY <1>6, <1>b DEF DeleteDomainExamples, Without, RowsTyped, D
    <3> QED BY <2>1, <3>1, <3>2, CorpusSame DEF Indexed, Exists
  <2>2. Frame
    BY <2>1 DEF Frame
  <2> QED BY <1>6, <1>w, <1>b, <2>2 DEF DeleteDomainExamples, Enter, GoTo, ThreadsTyped, D
<1>7. CASE DeleteDomainIntents(t)
  <2>1. ASSUME NEW d \in DomainIds \ {D}
        PROVE  Corpus(d)' = Corpus(d) /\ ActiveNames(d)' = ActiveNames(d)
    <3>1. \A i \in IntentIds : intents'[i] =
            IF OwnsIntent(D, i) THEN Nil ELSE intents[i]
      BY <1>7, <1>b DEF DeleteDomainIntents, Without, RowsTyped, D
    <3>2. ActiveNames(d)' = ActiveNames(d)
      BY <2>1, <3>1, ActiveSame DEF IsActive, Exists, OwnsIntent
    <3> QED BY <1>7, <3>2, CorpusSame DEF DeleteDomainIntents, Indexed, Exists
  <2>2. Frame
    BY <2>1 DEF Frame
  <2> QED BY <1>7, <1>w, <1>b, <1>d, <2>2
          DEF DeleteDomainIntents, GoTo, ThreadsTyped, StoreFree, D
<1>8. CASE DeleteDomainRow(t)
  <2>1. Frame
    BY <1>8, RowsSame DEF Frame, DeleteDomainRow
  <2> QED BY <1>8, <1>w, <1>b, <1>d, <2>1
          DEF DeleteDomainRow, GoTo, ThreadsTyped, StoreFree, D
<1>9. CASE DropIndex(t)
  <2>1. storeLock = t /\ storeLock' = Nil /\ UNCHANGED <<intents, examples, faults>>
    BY <1>9, <1>d DEF DropIndex, ReleaseStore
  <2>2. \A d \in DomainIds : Corpus(d)' = Corpus(d)
    BY <2>1, RowsSame
  <2>3. \A d \in DomainIds : IsReady(d)' => d # D /\ IsReady(d) /\ index'[d] = index[d]
    BY <1>9, <1>a DEF DropIndex, IsReady, D, TypeOK, IndexesTyped
  <2>4. IndexFresh' /\ OthersFresh'
    BY <2>1, <2>2, <2>3, <1>a, NilAssumption DEF IndexFresh, OthersFresh, D
  <2>5. \A u \in Threads : pc'[u] = "listed" => u # t /\ pc[u] = "listed"
    BY <1>9, <1>b DEF DropIndex, Return, ThreadsTyped
  <2>6. \A u \in Threads : pc[u] # "listed" \/ u = t
    BY <1>9, <1>a, NilAssumption DEF DropIndex, IndexFree, LockDiscipline, InIndex
  <2> QED BY <2>4, <2>5, <2>6 DEF BuildsCurrent
<1>10. CASE CreateIntent(t)
  <2>1. ASSUME NEW d \in DomainIds \ {D}
        PROVE  Corpus(d)' = Corpus(d) /\ ActiveNames(d)' = ActiveNames(d)
    <3>1. PICK i \in FreshIntents : intents' = [intents EXCEPT ![i] =
             [dom |-> D, name |-> req[t].name, status |-> req[t].status]]
      BY <1>10 DEF CreateIntent, D
    <3>2. intents[i] = Nil
      BY <1>a, <1>b, <3>1, NilAssumption DEF Homes, FreshIntents, Exists, RowsTyped, IntentRow
    <3>3. ActiveNames(d)' = ActiveNames(d)
      BY <2>1, <3>1, <3>2, <1>b, ActiveSame DEF IsActive, Exists, RowsTyped, FreshIntents
    <3> QED BY <1>10, <3>3, CorpusSame DEF CreateIntent, Indexed, Exists
  <2>2. Frame
    BY <2>1 DEF Frame
  <2> QED BY <1>10, <1>w, <1>b, <2>2 DEF CreateIntent, Enter, GoTo, ThreadsTyped, D
<1>11. CASE UpdateIntent(t)
  <2>0. /\ intents[req[t].intent].dom = D /\ Exists(intents, req[t].intent)
        /\ StoreFree(t) /\ storeLock' = t
    BY <1>11 DEF UpdateIntent, Enter, Accepts, OwnsIntent, D
  <2>1. ASSUME NEW d \in DomainIds \ {D}
        PROVE  Corpus(d)' = Corpus(d) /\ ActiveNames(d)' = ActiveNames(d)
    <3>1. /\ \A i \in IntentIds \ {req[t].intent} : intents'[i] = intents[i]
          /\ req[t].intent \in IntentIds => intents'[req[t].intent].dom = D
      BY <1>11, <1>b, <2>0 DEF UpdateIntent, RowsTyped
    <3>2. ActiveNames(d)' = ActiveNames(d)
      BY <2>0, <2>1, <3>1, ActiveSame DEF IsActive, Exists
    <3> QED BY <1>11, <3>2, CorpusSame DEF UpdateIntent, Indexed, Exists
  <2>2. Frame
    BY <2>1 DEF Frame
  <2>3. /\ req' = req /\ actives' = actives
        /\ pc'[t] \in {"saved", "stored"} /\ \A u \in Threads \ {t} : pc'[u] = pc[u]
        /\ UNCHANGED <<indexes, faults>>
    BY <1>11, <1>b DEF UpdateIntent, GoTo, ThreadsTyped
  <2> QED BY <1>w, <2>0, <2>2, <2>3 DEF D
<1>12. CASE RenameExamples(t)
  <2>1. ASSUME NEW d \in DomainIds
        PROVE  Corpus(d)' = Corpus(d) /\ ActiveNames(d)' = ActiveNames(d)
    <3>1. ActiveNames(d)' = ActiveNames(d)
      BY <1>12, ActiveSame DEF RenameExamples, IsActive, Exists
    <3>2. \A e \in ExampleIds :
            /\ Exists(examples, e)' <=> Exists(examples, e)
            /\ Exists(examples, e) => /\ examples'[e].dom = examples[e].dom
                                      /\ examples'[e].intent = examples[e].intent
      <4> SUFFICES ASSUME NEW e \in ExampleIds
                   PROVE  /\ Exists(examples, e)' <=> Exists(examples, e)
                          /\ Exists(examples, e) => /\ examples'[e].dom = examples[e].dom
                                                    /\ examples'[e].intent = examples[e].intent
        OBVIOUS
      <4>1. CASE Exists(examples, e) /\ examples[e].intent = req[t].intent
        <5>1. /\ examples[e] \in ExampleRow
              /\ examples'[e] = [examples[e] EXCEPT !.name = req[t].name]
          BY <1>12, <1>b, <4>1 DEF RenameExamples, RowsTyped, Exists
        <5>2. examples'[e] \in ExampleRow
          BY <1>12, <1>b, <5>1 DEF RenameExamples, ThreadsTyped, ExampleRow
        <5>3. examples'[e] # Nil
          BY <5>2, NilAssumption
        <5> QED BY <4>1, <5>1, <5>3 DEF Exists, ExampleRow
      <4>2. CASE ~(Exists(examples, e) /\ examples[e].intent = req[t].intent)
        BY <1>12, <4>2 DEF RenameExamples, Exists
      <4> QED BY <4>1, <4>2
    <3> QED BY <3>1, <3>2, CorpusSame DEF Indexed
  <2>2. Frame
    BY <2>1 DEF Frame
  <2> QED BY <1>12, <1>w, <1>b, <1>d, <2>2
          DEF RenameExamples, GoTo, ThreadsTyped, StoreFree, D
<1>13. CASE DeleteIntentExamples(t)
  <2>0. OwnsIntent(D, req[t].intent)
    BY <1>13 DEF DeleteIntentExamples, Enter, Accepts, D
  <2>1. ASSUME NEW d \in DomainIds \ {D}
        PROVE  Corpus(d)' = Corpus(d) /\ ActiveNames(d)' = ActiveNames(d)
    <3>1. ActiveNames(d)' = ActiveNames(d)
      BY <1>13, ActiveSame DEF DeleteIntentExamples, IsActive, Exists
    <3>2. \A e \in ExampleIds : examples'[e] =
            IF Exists(examples, e) /\ examples[e].intent = req[t].intent
            THEN Nil ELSE examples[e]
      BY <1>13, <1>b DEF DeleteIntentExamples, Without, RowsTyped
    <3>3. req[t].intent \notin DOMAIN ActiveNames(d)
      BY <2>0, <2>1, ActiveDomain DEF IsActive, OwnsIntent
    <3> QED BY <3>1, <3>2, <3>3, CorpusSame DEF Indexed, Exists
  <2>2. Frame
    BY <2>1 DEF Frame
  <2> QED BY <1>13, <1>w, <1>b, <2>2 DEF DeleteIntentExamples, Enter, GoTo, ThreadsTyped, D
<1>14. CASE DeleteIntentRow(t)
  <2>0. home[req[t].intent] = D
    BY <1>14, <1>a DEF DeleteIntentRow, Homes, D
  <2>1. ASSUME NEW d \in DomainIds \ {D}
        PROVE  Corpus(d)' = Corpus(d) /\ ActiveNames(d)' = ActiveNames(d)
    <3>1. \A i \in IntentIds : intents'[i] =
            IF i = req[t].intent THEN Nil ELSE intents[i]
      BY <1>14, <1>b DEF DeleteIntentRow, Without, RowsTyped
    <3>2. ActiveNames(d)' = ActiveNames(d)
      BY <2>0, <2>1, <3>1, <1>a, ActiveSame DEF IsActive, Exists, Homes
    <3> QED BY <1>14, <3>2, CorpusSame DEF DeleteIntentRow, Indexed, Exists
  <2>2. Frame
    BY <2>1 DEF Frame
  <2> QED BY <1>14, <1>w, <1>b, <1>d, <2>2
          DEF DeleteIntentRow, GoTo, ThreadsTyped, StoreFree, D
<1>15. CASE AddExamples(t)
  <2>1. PICK ids \in [DOMAIN req[t].batch -> FreshExamples] :
          examples' = [e \in ExampleIds |->
                IF \E a \in DOMAIN ids : ids[a] = e
                THEN [dom |-> req[t].dom, intent |-> req[t].intent, name |-> req[t].name,
                      text |-> req[t].batch[CHOOSE a \in DOMAIN ids : ids[a] = e]]
                ELSE examples[e]]
    BY <1>15 DEF AddExamples
  <2>2. ASSUME NEW e \in ExampleIds
        PROVE  \/ examples'[e] = examples[e]
               \/ examples[e] = Nil /\ examples'[e].dom = D
    BY <2>1, <1>a DEF FreshExamples, Homes, Exists, D
  <2>3. ASSUME NEW d \in DomainIds \ {D}
        PROVE  Corpus(d)' = Corpus(d) /\ ActiveNames(d)' = ActiveNames(d)
    <3>1. ActiveNames(d)' = ActiveNames(d)
      BY <1>15, ActiveSame DEF AddExamples, IsActive, Exists
    <3> QED BY <2>2, <2>3, <3>1, CorpusSame DEF Indexed, Exists
  <2>4. Frame
    BY <2>3 DEF Frame
  <2>5. /\ StoreFree(t) /\ storeLock' = t /\ req' = req /\ pc'[t] = "stored"
        /\ actives' = actives /\ \A u \in Threads \ {t} : pc'[u] = pc[u]
        /\ UNCHANGED <<indexes, faults>>
    BY <1>15, <1>b DEF AddExamples, GoTo, ThreadsTyped
  <2> QED BY <1>w, <2>4, <2>5 DEF D
<1>16. CASE DeleteExample(t)
  <2>0. /\ home[req[t].intent] = D /\ examples[req[t].example].intent = req[t].intent
    BY <1>16, <1>a DEF DeleteExample, AcceptsExample, Homes, D
  <2>1. ASSUME NEW d \in DomainIds \ {D}
        PROVE  Corpus(d)' = Corpus(d) /\ ActiveNames(d)' = ActiveNames(d)
    <3>1. ActiveNames(d)' = ActiveNames(d)
      BY <1>16, ActiveSame DEF DeleteExample, IsActive, Exists
    <3>2. \A e \in ExampleIds : examples'[e] =
            IF e = req[t].example THEN Nil ELSE examples[e]
      BY <1>16, <1>b DEF DeleteExample, Without, RowsTyped
    <3>3. req[t].intent \notin DOMAIN ActiveNames(d)
      <4>1. ASSUME req[t].intent \in DOMAIN ActiveNames(d) PROVE FALSE
        <5>1. req[t].intent \in IntentIds /\ IsActive(req[t].intent, d)
          BY <4>1, ActiveDomain
        <5>2. intents[req[t].intent].dom = home[req[t].intent]
          BY <5>1, <1>a DEF IsActive, Homes
        <5> QED BY <5>1, <5>2, <2>0, <2>1 DEF IsActive
      <4> QED BY <4>1
    <3> QED BY <2>0, <3>1, <3>2, <3>3, CorpusSame DEF Indexed, Exists
  <2>2. Frame
    BY <2>1 DEF Frame
  <2> QED BY <1>16, <1>w, <1>b, <2>2 DEF DeleteExample, GoTo, ThreadsTyped, D
<1> QED BY <1>1, <1>2, <1>3, <1>4, <1>5, <1>6, <1>7, <1>8, <1>9, <1>10, <1>11, <1>12,
           <1>13, <1>14, <1>15, <1>16 DEF Mutate

\* A build installs the corpus as it is at its second read.
LEMMA ServeFresh ==
  ASSUME FreshInv, NEW t \in Threads, Serve(t)
  PROVE  IndexFresh' /\ OthersFresh' /\ BuildsCurrent'
<1> USE DEF rows, indexes, locks, counters
<1>a. /\ TypeOK /\ LockDiscipline /\ Homes /\ KindsAgree
      /\ IndexFresh /\ OthersFresh /\ BuildsCurrent
  BY DEF FreshInv
<1>b. /\ IndexesTyped /\ ThreadsTyped
      /\ storeLock \in Threads \cup {Nil} /\ indexLock \in Threads \cup {Nil}
  BY <1>a DEF TypeOK, LocksTyped
\* What a step owes that writes no row and hands out no new index.
<1>q. ASSUME UNCHANGED <<intents, examples, storeLock, faults, index>>,
             dirty \subseteq dirty',
             storeLock = t => req'[t].dom = req[t].dom,
             pc'[t] # "listed",
             \A u \in Threads \ {t} : /\ pc'[u] = pc[u] /\ req'[u] = req[u]
                                      /\ actives'[u] = actives[u]
      PROVE  IndexFresh' /\ OthersFresh' /\ BuildsCurrent'
  <2>1. storeLock # Nil => req'[storeLock].dom = req[storeLock].dom
    BY <1>q, <1>b
  <2>2. \A d \in DomainIds : IsReady(d)' => IsReady(d) /\ index'[d] = index[d]
    BY <1>q DEF IsReady
  <2>3. IndexFresh' /\ OthersFresh'
    BY <1>a, <1>q, <2>1, <2>2, QuietFresh
  <2> QED BY <1>a, <1>q, <2>1, <2>3, QuietBuilds
<1>1. CASE MarkDirty(t)
  BY <1>1, <1>q, <1>b DEF MarkDirty, GoTo, ThreadsTyped
<1>2. CASE Build(t)
  BY <1>2, <1>q, <1>b DEF Build, GoTo, ThreadsTyped
<1>3. CASE ListActive(t)
  <2>1. IndexFresh' /\ OthersFresh'
    BY <1>3, <1>a, QuietFresh DEF ListActive, IsReady
  <2>2. \A u \in Threads \ {t} : pc'[u] # "listed"
    BY <1>3, <1>a, <1>b DEF ListActive, LockDiscipline, InIndex, ThreadsTyped
  <2>3. PICK d : d = req[t].dom
    OBVIOUS
  <2>4. actives'[t] = ActiveNames(d) /\ req'[t].dom = d
    BY <1>3, <1>b, <2>3 DEF ListActive, ThreadsTyped
  <2>5. ActiveNames(d)' = ActiveNames(d)
    BY <1>3, RowsSame DEF ListActive
  <2>6. actives'[t] = ActiveNames(req[t].dom)'
    BY <2>4, <2>5 DEF ActiveNames
  <2> QED BY <2>1, <2>2, <2>6 DEF BuildsCurrent
<1>4. CASE Collect(t)
  <2> DEFINE D == req[t].dom
  <2>1. /\ D \in DomainIds
        /\ indexLock = t
        /\ UNCHANGED <<intents, examples, faults>>
    BY <1>4, <1>a, <1>b DEF Collect, LockDiscipline, InIndex, ThreadsTyped
  <2>2. \A d \in DomainIds : Corpus(d)' = Corpus(d)
    BY <2>1, RowsSame
  <2>3. /\ index'[D].docs = DocsOf(D, actives[t])
        /\ \A d \in DomainIds \ {D} : index'[d] = index[d] /\ (IsReady(d)' => IsReady(d))
    BY <1>4, <1>b, <2>1 DEF Collect, IndexesTyped, IsReady
  <2>4. faults = 0 /\ (StoreFree(t) \/ req[storeLock].dom # D) => index'[D].docs = Corpus(D)
    BY <1>4, <1>a, <2>3 DEF Collect, BuildsCurrent, Corpus
  <2>b. BuildsCurrent'
    <3>1. \A u \in Threads : pc'[u] # "listed"
      BY <1>4, <1>a, <1>b, <2>1 DEF Collect, Return, LockDiscipline, InIndex, ThreadsTyped
    <3> QED BY <3>1 DEF BuildsCurrent
  <2>5. CASE StoreFree(t)
    <3>1. storeLock' = Nil
      BY <1>4, <2>5 DEF Collect, StoreFree, ReleaseStore
    <3>2. faults = 0 => \A d \in DomainIds \ {D} : IsReady(d) => index[d].docs = Corpus(d)
      BY <1>a, <2>5 DEF IndexFresh, OthersFresh, StoreFree
    <3>3. faults' = 0 => \A d \in DomainIds : IsReady(d)' => index'[d].docs = Corpus(d)'
      BY <2>1, <2>2, <2>3, <2>4, <2>5, <3>2
    <3> QED BY <2>b, <3>1, <3>3 DEF IndexFresh, OthersFresh
  \* No intent was active, and another thread owns the store.
  <2>6. CASE ~StoreFree(t)
    <3>1. storeLock' = storeLock /\ storeLock # Nil /\ req'[storeLock] = req[storeLock]
      BY <1>4, <1>b, <2>6 DEF Collect, StoreFree, ReleaseStore, Return, ThreadsTyped
    <3>2. faults = 0 => \A d \in DomainIds \ {req[storeLock].dom} :
                           IsReady(d) => index[d].docs = Corpus(d)
      BY <1>a, <3>1 DEF OthersFresh
    <3>3. faults' = 0 => \A d \in DomainIds \ {req[storeLock].dom} :
                            IsReady(d)' => index'[d].docs = Corpus(d)'
      BY <2>1, <2>2, <2>3, <2>4, <3>2
    <3> QED BY <2>b, <3>1, <3>3 DEF IndexFresh, OthersFresh
  <2> QED BY <2>5, <2>6
<1>5. CASE OpenStatus(t)
  BY <1>5, <1>q, <1>b DEF OpenStatus, GoTo, ThreadsTyped
<1>6. CASE CountExamples(t)
  BY <1>6, <1>q, <1>a, <1>b DEF CountExamples, Return, LockDiscipline, InStore, ThreadsTyped
<1>7. CASE ListIntents(t)
  BY <1>7, <1>q, <1>b DEF ListIntents, GoTo, ThreadsTyped
<1>8. CASE GetReady(t)
  BY <1>8, <1>q, <1>b DEF GetReady, ThreadsTyped
<1>9. CASE GetStale(t)
  BY <1>9, <1>q, <1>b DEF GetStale, GoTo, ThreadsTyped
<1>10. CASE Respond(t)
  BY <1>10, <1>q, <1>a, <1>b DEF Respond, Return, LockDiscipline, InStore, ThreadsTyped
<1> QED BY <1>1, <1>2, <1>3, <1>4, <1>5, <1>6, <1>7, <1>8, <1>9, <1>10 DEF Serve

\* A first start satisfies the strengthened invariant.
LEMMA InitFresh == Init => FreshInv
<1> SUFFICES ASSUME Init PROVE FreshInv
  OBVIOUS
<1>1. TypeOK /\ Homes /\ LockDiscipline /\ KindsAgree
  BY InitTyped, InitHomes, InitLocked DEF LockInv
<1>2. IndexFresh /\ OthersFresh /\ BuildsCurrent
  BY DEF Init, IndexFresh, OthersFresh, BuildsCurrent, IsReady
<1> QED BY <1>1, <1>2 DEF FreshInv

\* The strengthened invariant is inductive.
LEMMA NextFresh == FreshInv /\ [Next]_vars => FreshInv'
<1> SUFFICES ASSUME FreshInv, [Next]_vars PROVE FreshInv'
  OBVIOUS
<1>a. /\ TypeOK /\ LockDiscipline /\ Homes /\ KindsAgree
      /\ IndexFresh /\ OthersFresh /\ BuildsCurrent
  BY DEF FreshInv
<1>b. TypeOK' /\ Homes' /\ LockDiscipline' /\ KindsAgree'
  BY <1>a, NextTyped, NextHomes, NextLocked DEF LockInv
<1>c. /\ ThreadsTyped /\ storeLock \in Threads \cup {Nil} /\ faults \in Nat
  BY <1>a DEF TypeOK, LocksTyped
<1>1. ASSUME NEW t \in Threads, NEW r \in Requests, Admit(t, r)
      PROVE  IndexFresh' /\ OthersFresh' /\ BuildsCurrent'
  <2>1. storeLock # t
    BY <1>1, <1>a DEF Admit, LockDiscipline, InStore
  <2>2. storeLock # Nil => req'[storeLock].dom = req[storeLock].dom
    BY <1>1, <1>c, <2>1 DEF Admit, ThreadsTyped
  <2>3. IndexFresh' /\ OthersFresh'
    BY <1>1, <1>a, <2>2, QuietFresh DEF Admit, IsReady, rows, indexes, locks, counters
  <2>4. BuildsCurrent'
    BY <1>1, <1>a, <1>c, <2>2, QuietBuilds DEF Admit, ThreadsTyped, rows, locks, counters
  <2> QED BY <2>3, <2>4
<1>2. ASSUME NEW t \in Threads, Fail(t)
      PROVE  IndexFresh' /\ OthersFresh' /\ BuildsCurrent'
  BY <1>2, <1>c DEF Fail, IndexFresh, OthersFresh, BuildsCurrent
<1>3. ASSUME Restart
      PROVE  IndexFresh' /\ OthersFresh' /\ BuildsCurrent'
  <2>1. \A d \in DomainIds : Corpus(d)' = Corpus(d)
    BY <1>3, RowsSame DEF Restart, rows
  <2>2. \A d \in DomainIds : IsReady(d)' => index'[d].docs = Corpus(d)
    BY <1>3 DEF Restart, IsReady
  <2>3. storeLock' = Nil /\ \A t \in Threads : pc'[t] = "idle"
    BY <1>3 DEF Restart
  <2>4. IndexFresh'
    BY <2>1, <2>2 DEF IndexFresh
  <2>5. OthersFresh'
    BY <2>3 DEF OthersFresh
  <2>6. BuildsCurrent'
    BY <2>3 DEF BuildsCurrent
  <2> QED BY <2>4, <2>5, <2>6
<1>4. ASSUME UNCHANGED vars
      PROVE  IndexFresh' /\ OthersFresh' /\ BuildsCurrent'
  <2>1. IndexFresh' /\ OthersFresh'
    BY <1>4, <1>a, QuietFresh
       DEF IsReady, vars, rows, indexes, locks, counters, threads
  <2>2. UNCHANGED <<intents, examples, storeLock, faults, pc, actives, req>>
    BY <1>4 DEF vars, rows, locks, counters, threads
  <2>3. BuildsCurrent'
    BY <1>a, <2>2, QuietBuilds
  <2> QED BY <2>1, <2>3
<1>5. IndexFresh' /\ OthersFresh' /\ BuildsCurrent'
  BY <1>1, <1>2, <1>3, <1>4, MutateFresh, ServeFresh DEF Next
<1> QED BY <1>b, <1>5 DEF FreshInv

\* The freshness theorem: until a Chroma call fails, and whenever no mutation
\* is in progress, every index get() would hand out unbuilt is exactly the
\* corpus of its domain.  Builds take two reads and no store lock across them;
\* that no mutation slips in between follows from the order of the two locks.
THEOREM IndexesStayFresh == Spec => []IndexFresh
<1>1. FreshInv => IndexFresh
  BY DEF FreshInv
<1> QED BY <1>1, InitFresh, NextFresh, PTL DEF Spec

=============================================================================
