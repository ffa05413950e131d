------------------------------ MODULE RowsProof ------------------------------
(***************************************************************************)
(* Proofs about the rows of Catalogue, whatever requests overlap, fail or  *)
(* are cut short.  Chroma has no constraints: it is the services that look *)
(* for a name, a text or a parent and then write, and only part of that is *)
(* inside one section of ChromaStore.lock.                                 *)
(*                                                                         *)
(* Names and texts stay unique: the rows move by few kinds of change, and  *)
(* the only two that could repeat a value, a row named and a batch stored, *)
(* carry the service's check with them.                                    *)
(*                                                                         *)
(* Children keep their parents, and examples their intent's name, if one   *)
(* request runs at a time, or if the requests that take a parent or a name *)
(* away are never made: the checks behind both are made before the lock.   *)
(***************************************************************************)
EXTENDS CatalogueProof

(*********************** unique names and texts ****************************)

DomainNames ==
    \A c, d \in DomainIds :
        Exists(domains, c) /\ Exists(domains, d) /\ domains[c].name = domains[d].name => c = d

IntentNames ==
    \A i, j \in IntentIds :
        /\ Exists(intents, i) /\ Exists(intents, j)
        /\ intents[i].dom = intents[j].dom
        /\ intents[i].name = intents[j].name
        => i = j

\* Every row of table' is a row of table: as it was, or gone.
Thins(table, next) == \A id \in DOMAIN table : next[id] \in {Nil, table[id]}

(**************************** domains **************************************)

\* A domain row is written under a name that no other domain has.
DomainNamed ==
    \E d \in DomainIds, row \in DomainRow :
        /\ domains' = [domains EXCEPT ![d] = row]
        /\ \A c \in DomainIds \ {d} : Exists(domains, c) => domains[c].name # row.name

LEMMA CreateDomainNames ==
  ASSUME TypeOK, NEW t \in Threads, CreateDomain(t)
  PROVE  DomainNamed
<1> DEFINE row == [name |-> req[t].name, status |-> req[t].status]
<1>1. req[t] \in Request /\ req[t].kind = "create_domain"
  BY DEF TypeOK, ThreadsTyped, CreateDomain
<1>2. row \in DomainRow /\ row.name = req[t].name
  BY <1>1 DEF Request, WellFormed, DomainRow
<1>3. PICK d \in FreshDomains :
          domains' = [domains EXCEPT ![d] = row]
  BY DEF CreateDomain
<1>4. \A c \in DomainIds : Exists(domains, c) => domains[c].name # req[t].name
  BY <1>1, NilAssumption DEF CreateDomain, Accepts, DomainNameTaken
<1>5. d \in DomainIds
  BY DEF FreshDomains
<1>6. \A c \in DomainIds \ {d} : Exists(domains, c) => domains[c].name # row.name
  BY <1>2, <1>4
<1> HIDE DEF row
<1> QED BY <1>2, <1>3, <1>5, <1>6 DEF DomainNamed

LEMMA UpdateDomainNames ==
  ASSUME TypeOK, DomainNames, NEW t \in Threads, UpdateDomain(t) \/ RenameDomain(t)
  PROVE  DomainNamed
<1> DEFINE d == req[t].dom
           row == [name |-> IF req[t].name = Nil THEN domains[d].name ELSE req[t].name,
                   status |-> IF req[t].status = Nil THEN domains[d].status
                              ELSE req[t].status]
<1>1. req[t] \in Request /\ req[t].kind = "update_domain"
  BY DEF TypeOK, ThreadsTyped, UpdateDomain, RenameDomain, Enter
<1>2. d \in DomainIds
  BY <1>1 DEF Request, WellFormed
<1>3. /\ Exists(domains, d)
      /\ req[t].name \notin {Nil, domains[d].name} => ~DomainNameTaken(req[t].name, d)
  BY <1>1 DEF UpdateDomain, RenameDomain, Enter, Accepts
<1>4. domains \in [DomainIds -> DomainRow \cup {Nil}] /\ domains[d] \in DomainRow
  BY <1>2, <1>3 DEF TypeOK, RowsTyped, Exists
<1>5. row \in DomainRow
  BY <1>1, <1>4 DEF Request, DomainRow
<1>6. domains' = [domains EXCEPT ![d] = row]
  <2>1. CASE UpdateDomain(t)
    BY <2>1 DEF UpdateDomain
  <2>2. CASE RenameDomain(t)
    <3>1. /\ req[t].status = Nil
          /\ domains' = [domains EXCEPT ![d] = [domains[d] EXCEPT !.name =
                            IF req[t].name = Nil THEN domains[d].name ELSE req[t].name]]
      BY <2>2 DEF RenameDomain
    <3>2. \A n : [domains[d] EXCEPT !.name = n] = [name |-> n, status |-> domains[d].status]
      BY <1>4 DEF DomainRow
    <3> QED BY <3>1, <3>2
  <2> QED BY <2>1, <2>2
<1>7. \A c \in DomainIds \ {d} : Exists(domains, c) => domains[c].name # row.name
  <2>1. CASE row.name = domains[d].name
    BY <1>2, <1>3, <2>1 DEF DomainNames
  <2>2. CASE row.name # domains[d].name
    BY <1>3, <2>2 DEF DomainNameTaken
  <2> QED BY <2>1, <2>2
<1> QED BY <1>2, <1>5, <1>6, <1>7 DEF DomainNamed

LEMMA DomainNamesKept ==
  ASSUME TypeOK, DomainNames, DomainNamed \/ Thins(domains, domains')
  PROVE  DomainNames'
<1>1. CASE DomainNamed
  BY <1>1 DEF DomainNamed, DomainNames, Exists, TypeOK, RowsTyped
<1>2. CASE Thins(domains, domains')
  BY <1>2 DEF Thins, DomainNames, Exists, TypeOK, RowsTyped
<1> QED BY <1>1, <1>2

(**************************** intents **************************************)

\* An intent row is written under a name that no other of its domain has.
IntentNamed ==
    \E i \in IntentIds, row \in IntentRow :
        /\ intents' = [intents EXCEPT ![i] = row]
        /\ \A j \in IntentIds \ {i} :
               Exists(intents, j) /\ intents[j].dom = row.dom => intents[j].name # row.name

LEMMA CreateIntentNames ==
  ASSUME TypeOK, NEW t \in Threads, CreateIntent(t)
  PROVE  IntentNamed
<1> DEFINE row == [dom |-> req[t].dom, name |-> req[t].name, status |-> req[t].status]
<1>1. req[t] \in Request /\ req[t].kind = "create_intent"
  BY DEF TypeOK, ThreadsTyped, CreateIntent, Enter
<1>2. row \in IntentRow /\ row.name = req[t].name /\ row.dom = req[t].dom
  BY <1>1 DEF Request, WellFormed, IntentRow
<1>3. PICK i \in FreshIntents : intents' = [intents EXCEPT ![i] = row]
  BY DEF CreateIntent
<1>4. \A j \in IntentIds :
          Exists(intents, j) /\ intents[j].dom = req[t].dom => intents[j].name # req[t].name
  BY <1>1, NilAssumption DEF CreateIntent, Enter, Accepts, IntentNameTaken
<1>5. i \in IntentIds
  BY DEF FreshIntents
<1>6. \A j \in IntentIds \ {i} :
          Exists(intents, j) /\ intents[j].dom = row.dom => intents[j].name # row.name
  BY <1>2, <1>4
<1> HIDE DEF row
<1> QED BY <1>2, <1>3, <1>5, <1>6 DEF IntentNamed

LEMMA UpdateIntentNames ==
  ASSUME TypeOK, IntentNames, NEW t \in Threads, UpdateIntent(t)
  PROVE  IntentNamed
<1> DEFINE i == req[t].intent
           renamed == req[t].name \notin {Nil, intents[i].name}
           row == [dom |-> intents[i].dom,
                   name |-> IF renamed THEN req[t].name ELSE intents[i].name,
                   status |-> IF req[t].status = Nil THEN intents[i].status
                              ELSE req[t].status]
<1>1. req[t] \in Request /\ req[t].kind = "update_intent"
  BY DEF TypeOK, ThreadsTyped, UpdateIntent, Enter
<1>2. i \in IntentIds
  BY <1>1 DEF Request, WellFormed
<1>3. /\ Exists(intents, i) /\ intents[i].dom = req[t].dom
      /\ renamed => ~IntentNameTaken(req[t].dom, req[t].name, i)
  BY <1>1 DEF UpdateIntent, Enter, Accepts, OwnsIntent
<1>4. intents \in [IntentIds -> IntentRow \cup {Nil}] /\ intents[i] \in IntentRow
  BY <1>2, <1>3 DEF TypeOK, RowsTyped, Exists
<1>5. row \in IntentRow
  BY <1>1, <1>4 DEF Request, IntentRow
<1>6. intents' = [intents EXCEPT ![i] = row]
  BY DEF UpdateIntent
<1>7. \A j \in IntentIds \ {i} :
          Exists(intents, j) /\ intents[j].dom = row.dom => intents[j].name # row.name
  <2>1. CASE renamed
    BY <1>3, <2>1 DEF IntentNameTaken
  <2>2. CASE ~renamed
    BY <1>2, <1>3, <2>2 DEF IntentNames
  <2> QED BY <2>1, <2>2
<1> QED BY <1>2, <1>5, <1>6, <1>7 DEF IntentNamed

LEMMA IntentNamesKept ==
  ASSUME TypeOK, IntentNames, IntentNamed \/ Thins(intents, intents')
  PROVE  IntentNames'
<1>1. CASE IntentNamed
  BY <1>1 DEF IntentNamed, IntentNames, Exists, TypeOK, RowsTyped
<1>2. CASE Thins(intents, intents')
  BY <1>2 DEF Thins, IntentNames, Exists, TypeOK, RowsTyped
<1> QED BY <1>1, <1>2

(**************************** examples *************************************)

\* A batch is stored: its texts differ from one another and from those the
\* intent has, and each gets a row of its own.
BatchStored ==
    \E i \in IntentIds, batch \in Seq(Texts) : \E ids \in [DOMAIN batch -> ExampleIds] :
        /\ \A a, b \in DOMAIN batch : batch[a] = batch[b] => a = b
        /\ \A a \in DOMAIN batch : ~TextTaken(i, batch[a])
        /\ \A a, b \in DOMAIN batch : ids[a] = ids[b] => a = b
        /\ \A a \in DOMAIN batch : /\ examples'[ids[a]].intent = i
                                   /\ examples'[ids[a]].text = batch[a]
        /\ \A e \in ExampleIds :
               (~ \E a \in DOMAIN batch : ids[a] = e) => examples'[e] = examples[e]

\* No row changes its intent or its text; some may go.
TextsKept ==
    \A e \in ExampleIds :
        examples'[e] # Nil => /\ examples[e] # Nil
                              /\ examples'[e].intent = examples[e].intent
                              /\ examples'[e].text = examples[e].text

LEMMA AddExamplesStores ==
  ASSUME TypeOK, NEW t \in Threads, AddExamples(t)
  PROVE  BatchStored
<1>1. req[t] \in Request /\ req[t].kind = "add_examples"
  BY DEF TypeOK, ThreadsTyped, AddExamples
<1>2. req[t].intent \in IntentIds /\ req[t].batch \in Seq(Texts)
  BY <1>1 DEF Request, WellFormed
<1>3. PICK ids \in [DOMAIN req[t].batch -> FreshExamples] :
          /\ \A a, b \in DOMAIN ids : ids[a] = ids[b] => a = b
          /\ examples' = [e \in ExampleIds |->
                 IF \E a \in DOMAIN ids : ids[a] = e
                 THEN [dom |-> req[t].dom, intent |-> req[t].intent, name |-> req[t].name,
                       text |-> req[t].batch[CHOOSE a \in DOMAIN ids : ids[a] = e]]
                 ELSE examples[e]]
  BY DEF AddExamples
<1>4. ids \in [DOMAIN req[t].batch -> ExampleIds] /\ DOMAIN ids = DOMAIN req[t].batch
  BY DEF FreshExamples
<1>5. ASSUME NEW a \in DOMAIN req[t].batch
      PROVE  /\ examples'[ids[a]].intent = req[t].intent
             /\ examples'[ids[a]].text = req[t].batch[a]
  <2>1. ids[a] \in ExampleIds /\ \E b \in DOMAIN ids : ids[b] = ids[a]
    BY <1>4
  <2>2. (CHOOSE b \in DOMAIN ids : ids[b] = ids[a]) = a
    BY <1>3, <1>4
  <2> QED BY <1>3, <2>1, <2>2
<1>6. /\ \A a, b \in DOMAIN req[t].batch : req[t].batch[a] = req[t].batch[b] => a = b
      /\ \A a \in DOMAIN req[t].batch : ~TextTaken(req[t].intent, req[t].batch[a])
  BY DEF AddExamples, AcceptsBatch
<1>7. \A e \in ExampleIds :
          (~ \E a \in DOMAIN req[t].batch : ids[a] = e) => examples'[e] = examples[e]
  BY <1>3, <1>4
<1>8. \A a, b \in DOMAIN req[t].batch : ids[a] = ids[b] => a = b
  BY <1>3, <1>4
<1> QED BY <1>2, <1>4, <1>5, <1>6, <1>7, <1>8 DEF BatchStored

LEMMA TextsStayUniqueStep ==
  ASSUME TypeOK, UniqueTexts, BatchStored \/ TextsKept
  PROVE  UniqueTexts'
<1>1. CASE TextsKept
  BY <1>1 DEF TextsKept, UniqueTexts, Exists
<1>2. CASE BatchStored
  <2>1. PICK i \in IntentIds, batch \in Seq(Texts) : \E ids \in [DOMAIN batch -> ExampleIds] :
            /\ \A a, b \in DOMAIN batch : batch[a] = batch[b] => a = b
            /\ \A a \in DOMAIN batch : ~TextTaken(i, batch[a])
            /\ \A a, b \in DOMAIN batch : ids[a] = ids[b] => a = b
            /\ \A a \in DOMAIN batch : /\ examples'[ids[a]].intent = i
                                       /\ examples'[ids[a]].text = batch[a]
            /\ \A e \in ExampleIds :
                   (~ \E a \in DOMAIN batch : ids[a] = e) => examples'[e] = examples[e]
    BY <1>2 DEF BatchStored
  <2>2. PICK ids \in [DOMAIN batch -> ExampleIds] :
            /\ \A a, b \in DOMAIN batch : batch[a] = batch[b] => a = b
            /\ \A a \in DOMAIN batch : ~TextTaken(i, batch[a])
            /\ \A a, b \in DOMAIN batch : ids[a] = ids[b] => a = b
            /\ \A a \in DOMAIN batch : /\ examples'[ids[a]].intent = i
                                       /\ examples'[ids[a]].text = batch[a]
            /\ \A e \in ExampleIds :
                   (~ \E a \in DOMAIN batch : ids[a] = e) => examples'[e] = examples[e]
    BY <2>1
  <2> DEFINE New(e) == \E a \in DOMAIN batch : ids[a] = e
  <2> SUFFICES ASSUME NEW e \in ExampleIds, NEW f \in ExampleIds,
                      examples'[e] # Nil, examples'[f] # Nil,
                      examples'[e].intent = examples'[f].intent,
                      examples'[e].text = examples'[f].text
               PROVE  e = f
    BY DEF UniqueTexts, Exists
  <2>3. CASE New(e) /\ New(f)
    BY <2>2, <2>3
  <2>4. CASE New(e) /\ ~New(f)
    BY <2>2, <2>4 DEF TextTaken, Exists
  <2>5. CASE ~New(e) /\ New(f)
    BY <2>2, <2>5 DEF TextTaken, Exists
  <2>6. CASE ~New(e) /\ ~New(f)
    BY <2>2, <2>6 DEF UniqueTexts, Exists
  <2> QED BY <2>3, <2>4, <2>5, <2>6
<1> QED BY <1>1, <1>2

(**************************** steps ****************************************)

Steady == UNCHANGED <<domains, intents, examples>>

LEMMA WithoutThins ==
  ASSUME NEW table, NEW gone
  PROVE  \A id \in DOMAIN table : Without(table, gone)[id] \in {Nil, table[id]}
BY DEF Without

\* What each service call does to the three tables.
LEMMA MutateKinds ==
  ASSUME TypeOK, DomainNames, IntentNames, NEW t \in Threads, Mutate(t)
  PROVE  \/ DomainNamed /\ UNCHANGED <<intents, examples>>
         \/ IntentNamed /\ UNCHANGED <<domains, examples>>
         \/ BatchStored /\ UNCHANGED <<domains, intents>>
         \/ /\ Thins(domains, domains') /\ Thins(intents, intents')
            /\ TextsKept
<1> DEFINE Thinned == Thins(domains, domains') /\ Thins(intents, intents') /\ TextsKept
<1>a. (domains' = domains => Thins(domains, domains')) /\ (intents' = intents => Thins(intents, intents'))
  BY DEF Thins
<1>b. examples' = examples => TextsKept
  BY DEF TextsKept
<1>c. ASSUME NEW gone, examples' = Without(examples, gone)
      PROVE  TextsKept
  BY <1>c DEF TextsKept, Without, TypeOK, RowsTyped
<1>d. ASSUME NEW gone, intents' = Without(intents, gone)
      PROVE  Thins(intents, intents')
  BY <1>d, WithoutThins DEF Thins
<1>1. CASE ReadIntent(t) \/ Refuse(t) \/ DropIndex(t)
  BY <1>a, <1>b, <1>1 DEF ReadIntent, Refuse, DropIndex, rows
<1>2. CASE CreateDomain(t)
  BY <1>2, CreateDomainNames DEF CreateDomain
<1>3. CASE UpdateDomain(t) \/ RenameDomain(t)
  BY <1>3, UpdateDomainNames DEF UpdateDomain, RenameDomain
<1>4. CASE DeleteDomainExamples(t)
  BY <1>a, <1>c, <1>4 DEF DeleteDomainExamples
<1>5. CASE DeleteDomainIntents(t)
  BY <1>a, <1>b, <1>d, <1>5 DEF DeleteDomainIntents
<1>6. CASE DeleteDomainRow(t)
  BY <1>a, <1>b, <1>6, WithoutThins DEF DeleteDomainRow, Thins
<1>7. CASE CreateIntent(t)
  BY <1>7, CreateIntentNames DEF CreateIntent
<1>8. CASE UpdateIntent(t)
  BY <1>8, UpdateIntentNames DEF UpdateIntent
<1>9. CASE RenameExamples(t)
  <2>1. TextsKept
    BY <1>9 DEF RenameExamples, TextsKept, Exists, TypeOK, RowsTyped, ExampleRow
  <2> QED BY <1>a, <1>9, <2>1 DEF RenameExamples
<1>10. CASE DeleteIntentExamples(t)
  BY <1>a, <1>c, <1>10 DEF DeleteIntentExamples
<1>11. CASE DeleteIntentRow(t)
  BY <1>a, <1>b, <1>d, <1>11 DEF DeleteIntentRow
<1>12. CASE AddExamples(t)
  BY <1>12, AddExamplesStores DEF AddExamples
<1>13. CASE DeleteExample(t)
  BY <1>a, <1>c, <1>13 DEF DeleteExample
<1> QED BY <1>1, <1>2, <1>3, <1>4, <1>5, <1>6, <1>7, <1>8, <1>9, <1>10, <1>11, <1>12, <1>13 DEF Mutate

LEMMA OthersSteady ==
  ASSUME NEW t \in Threads, (\E r \in Requests : Admit(t, r)) \/ Serve(t) \/ Fail(t)
  PROVE  Steady
<1> USE DEF Steady, rows
<1>1. CASE \E r \in Requests : Admit(t, r)
  BY <1>1 DEF Admit
<1>2. CASE Fail(t)
  BY <1>2 DEF Fail
<1>3. CASE Serve(t)
  BY <1>3 DEF Serve, MarkDirty, Build, ListActive, Collect, OpenStatus, CountExamples,
              ListIntents, GetReady, GetStale, Respond
<1> QED BY <1>1, <1>2, <1>3

UniqueInv == TypeOK /\ DomainNames /\ IntentNames /\ UniqueTexts

LEMMA InitUnique == Init => UniqueInv
BY InitTyped DEF Init, UniqueInv, DomainNames, IntentNames, UniqueTexts, Exists

LEMMA NextUnique == UniqueInv /\ [Next]_vars => UniqueInv'
<1> SUFFICES ASSUME UniqueInv, [Next]_vars PROVE UniqueInv'
  OBVIOUS
<1>a. TypeOK /\ DomainNames /\ IntentNames /\ UniqueTexts
  BY DEF UniqueInv
<1>b. TypeOK'
  BY <1>a, NextTyped
<1>c. domains' = domains => DomainNames'
  BY <1>a, DomainNamesKept DEF Thins
<1>d. intents' = intents => IntentNames'
  BY <1>a, IntentNamesKept DEF Thins
<1>e. examples' = examples => UniqueTexts'
  BY <1>a, TextsStayUniqueStep DEF TextsKept
<1>1. ASSUME NEW t \in Threads, Mutate(t)
      PROVE  DomainNames' /\ IntentNames' /\ UniqueTexts'
  BY <1>a, <1>c, <1>d, <1>e, <1>1, MutateKinds, DomainNamesKept, IntentNamesKept, TextsStayUniqueStep
<1>2. ASSUME Steady
      PROVE  DomainNames' /\ IntentNames' /\ UniqueTexts'
  BY <1>c, <1>d, <1>e, <1>2 DEF Steady
<1>3. Restart \/ UNCHANGED vars => Steady
  BY DEF Restart, vars, rows, Steady
<1>4. DomainNames' /\ IntentNames' /\ UniqueTexts'
  BY <1>1, <1>2, <1>3, OthersSteady DEF Next
<1> QED BY <1>b, <1>4 DEF UniqueInv

LEMMA AlwaysUnique == Spec => []UniqueInv
BY InitUnique, NextUnique, PTL DEF Spec

(****************** names and texts: the theorems **************************)

\* No two domains ever share a name, and no two intents of one domain: the
\* check of DomainService.create and update, and of IntentService's, holds
\* good for the write that follows it, since both are under one lock.
THEOREM NamesStayUnique == Spec => []UniqueNames
<1>1. UniqueInv => UniqueNames
  BY DEF UniqueInv, UniqueNames, DomainNames, IntentNames
<1> QED BY <1>1, AlwaysUnique, PTL

\* No intent ever stores a text twice, in one batch or in two that race
\* (ExampleService.add_many).
THEOREM TextsStayUnique == Spec => []UniqueTexts
<1>1. UniqueInv => UniqueTexts
  BY DEF UniqueInv
<1> QED BY <1>1, AlwaysUnique, PTL

(************************ children and parents *****************************)

\* One worker, so one request at a time.
Sequential == \A t, u \in Threads : t = u

\* No request may delete a domain or an intent.
Preserving == Kinds \cap {"delete_domain", "delete_intent"} = {}

\* A request is of a kind the instance exercises, and cascades belong to deletes.
KindsKept ==
    \A t \in Threads :
        /\ pc[t] # "idle" => req[t].kind \in Kinds
        /\ pc[t] \in {"examplesGone", "intentsGone", "rowGone"} => req[t].kind = "delete_domain"
        /\ pc[t] = "examplesCut" => req[t].kind = "delete_intent"
        /\ pc[t] = "saved" => req[t].kind = "update_intent"

\* What a thread has checked, or cleared, before its next write.
ParentsKnown ==
    \A t \in Threads :
        /\ pc[t] = "admitted" /\ req[t].dom # Nil => Exists(domains, req[t].dom)
        /\ pc[t] = "resolved" => OwnsIntent(req[t].dom, req[t].intent)
        /\ pc[t] \in {"examplesGone", "intentsGone"} =>
             \A e \in ExampleIds : Exists(examples, e) => examples[e].dom # req[t].dom
        /\ pc[t] = "intentsGone" => \A i \in IntentIds : ~OwnsIntent(req[t].dom, i)
        /\ pc[t] = "examplesCut" =>
             \A e \in ExampleIds : Exists(examples, e) => examples[e].intent # req[t].intent

RootedInv == TypeOK /\ Homes /\ KindsKept /\ ParentsKnown /\ NoOrphans

LEMMA MutateKindsKept ==
  ASSUME TypeOK, KindsKept, NEW t \in Threads, Mutate(t)
  PROVE  KindsKept'
<1> USE DEF TypeOK, ThreadsTyped, KindsKept, Return, GoTo, Enter
<1>1. CASE ReadIntent(t)
  BY <1>1 DEF ReadIntent, Request
<1>2. CASE Refuse(t) \/ CreateDomain(t) \/ RenameDomain(t) \/ DropIndex(t)
  BY <1>2 DEF Refuse, CreateDomain, RenameDomain, DropIndex
<1>3. CASE UpdateDomain(t) \/ CreateIntent(t) \/ RenameExamples(t) \/ DeleteIntentExamples(t)
           \/ DeleteIntentRow(t) \/ AddExamples(t) \/ DeleteExample(t)
  BY <1>3 DEF UpdateDomain, CreateIntent, RenameExamples, DeleteIntentExamples,
              DeleteIntentRow, AddExamples, DeleteExample
<1>4. CASE UpdateIntent(t)
  BY <1>4 DEF UpdateIntent
<1>5. CASE DeleteDomainExamples(t) \/ DeleteDomainIntents(t) \/ DeleteDomainRow(t)
  BY <1>5 DEF DeleteDomainExamples, DeleteDomainIntents, DeleteDomainRow
<1> QED BY <1>1, <1>2, <1>3, <1>4, <1>5 DEF Mutate

LEMMA NextKindsKept == TypeOK /\ KindsKept /\ [Next]_vars => KindsKept'
<1> SUFFICES ASSUME TypeOK, KindsKept, [Next]_vars PROVE KindsKept'
  OBVIOUS
<1> USE DEF TypeOK, ThreadsTyped, KindsKept, Return, GoTo
<1>1. ASSUME NEW t \in Threads, NEW r \in Requests, Admit(t, r)
      PROVE  KindsKept'
  BY <1>1 DEF Admit
<1>2. ASSUME NEW t \in Threads, Serve(t)
      PROVE  KindsKept'
  BY <1>2 DEF Serve, MarkDirty, Build, ListActive, Collect, OpenStatus, CountExamples,
              ListIntents, GetReady, GetStale, Respond
<1>3. ASSUME NEW t \in Threads, Fail(t)
      PROVE  KindsKept'
  BY <1>3 DEF Fail
<1>4. CASE Restart
  BY <1>4 DEF Restart
<1>5. CASE UNCHANGED vars
  BY <1>5 DEF vars, threads
<1> QED BY <1>1, <1>2, <1>3, <1>4, <1>5, MutateKindsKept DEF Next

\* A step that writes no row, and leaves threads that have checked one alone.
LEMMA RootedFrame ==
  ASSUME ParentsKnown, NoOrphans, UNCHANGED <<domains, intents, examples>>,
         \A u \in Threads :
             pc'[u] \in {"admitted", "resolved", "examplesGone", "intentsGone", "examplesCut"} =>
                 pc'[u] = pc[u] /\ req'[u] = req[u]
  PROVE  ParentsKnown' /\ NoOrphans'
<1>1. NoOrphans'
  BY DEF NoOrphans, Exists, OwnsIntent
<1>2. ASSUME NEW u \in Threads
      PROVE  /\ pc'[u] = "admitted" /\ req'[u].dom # Nil => Exists(domains, req'[u].dom)
             /\ pc'[u] = "resolved" => OwnsIntent(req'[u].dom, req'[u].intent)
             /\ pc'[u] \in {"examplesGone", "intentsGone"} =>
                  \A e \in ExampleIds : Exists(examples, e) => examples[e].dom # req'[u].dom
             /\ pc'[u] = "intentsGone" => \A i \in IntentIds : ~OwnsIntent(req'[u].dom, i)
             /\ pc'[u] = "examplesCut" =>
                  \A e \in ExampleIds : Exists(examples, e) => examples[e].intent # req'[u].intent
  BY DEF ParentsKnown
<1>3. ParentsKnown'
  BY <1>2 DEF ParentsKnown, Exists, OwnsIntent
<1> QED BY <1>1, <1>3

\* No step of a service orphans a row, nor outdates what another thread checked.
LEMMA MutateRooted ==
  ASSUME RootedInv, Sequential \/ Preserving, NEW t \in Threads, Mutate(t)
  PROVE  ParentsKnown' /\ NoOrphans'
<1> USE NilAssumption DEF ParentsKnown, NoOrphans, Exists, OwnsIntent, Return, GoTo
<1>a. /\ TypeOK /\ Homes /\ KindsKept /\ ParentsKnown /\ NoOrphans
      /\ RowsTyped /\ pc \in [Threads -> Labels] /\ req \in [Threads -> Request]
      /\ \A u \in Threads : /\ pc[u] \notin {"idle", "admitted"} => req[u].dom \in DomainIds
                            /\ pc[u] \in {"resolved", "saved"} => req[u].name \in Names
  BY DEF RootedInv, TypeOK, ThreadsTyped
<1>b. WellFormed(req[t]) /\ req[t] \in Request
  BY <1>a DEF Request
<1>1. CASE ReadIntent(t)
  <2>1. /\ req'[t].dom = req[t].dom /\ req'[t].intent = req[t].intent
        /\ \A u \in Threads \ {t} : req'[u] = req[u] /\ pc'[u] = pc[u]
        /\ pc'[t] = "resolved"
    BY <1>1, <1>a, <1>b DEF ReadIntent, Request
  <2> QED BY <1>1, <1>a, <2>1 DEF ReadIntent, rows
<1>2. CASE Refuse(t)
  BY <1>2, <1>a, RootedFrame DEF Refuse, rows
<1>3. CASE CreateDomain(t)
  <2>1. PICK d \in DomainIds : domains' = [domains EXCEPT ![d] =
                                             [name |-> req[t].name, status |-> req[t].status]]
    BY <1>3 DEF CreateDomain, FreshDomains
  <2>2. \A c \in DomainIds : domains[c] # Nil => domains'[c] # Nil
    <3>2. [name |-> req[t].name, status |-> req[t].status] \in DomainRow
      BY <1>3, <1>b DEF CreateDomain, WellFormed, DomainRow
    <3> QED BY <1>a, <2>1, <3>2 DEF RowsTyped
  <2> QED BY <1>3, <1>a, <2>2 DEF CreateDomain, RowsTyped
<1>4. CASE UpdateDomain(t) \/ RenameDomain(t)
  <2>1. domains[req[t].dom] \in DomainRow
    BY <1>4, <1>a, <1>b
       DEF UpdateDomain, RenameDomain, Enter, Accepts, RowsTyped, WellFormed
  <2>2. domains'[req[t].dom] \in DomainRow
    <3>1. CASE UpdateDomain(t)
      BY <3>1, <1>a, <1>b, <2>1 DEF UpdateDomain, Enter, RowsTyped, DomainRow, Request, WellFormed
    <3>2. CASE RenameDomain(t)
      BY <3>2, <1>a, <1>b, <2>1 DEF RenameDomain, RowsTyped, DomainRow, Request, WellFormed
    <3> QED BY <1>4, <3>1, <3>2
  <2>3. \A c \in DomainIds : domains[c] # Nil => domains'[c] # Nil
    BY <1>4, <1>a, <2>2 DEF UpdateDomain, RenameDomain, RowsTyped
  <2>4. /\ UNCHANGED <<intents, examples>>
        /\ \A u \in Threads : pc'[u] \in {pc[u], "idle", "stored"}
        /\ \A u \in Threads : pc'[u] # "idle" => req'[u] = req[u]
    BY <1>4, <1>a DEF UpdateDomain, RenameDomain
  <2>5. \A i \in IntentIds : intents[i] # Nil => intents[i].dom \in DomainIds
    BY <1>a DEF RowsTyped, IntentRow
  <2>6. \A u \in Threads : req[u].dom # Nil => req[u].dom \in DomainIds
    BY <1>a DEF Request
  <2> QED BY <1>a, <2>3, <2>4, <2>5, <2>6
<1>5. CASE DeleteDomainExamples(t)
  <2>1. Sequential
    BY <1>5, <1>a DEF DeleteDomainExamples, Enter, KindsKept, Preserving
  <2>2. \A e \in ExampleIds : examples'[e] =
          IF Exists(examples, e) /\ examples[e].dom = req[t].dom THEN Nil ELSE examples[e]
    BY <1>5, <1>a DEF DeleteDomainExamples, Without, RowsTyped
  <2>3. req' = req /\ intents' = intents /\ domains' = domains
        /\ \A u \in Threads : u = t /\ pc'[u] = "examplesGone"
    BY <1>5, <1>a, <2>1 DEF DeleteDomainExamples, Sequential
  <2> QED BY <1>a, <2>2, <2>3
<1>6. CASE DeleteDomainIntents(t)
  <2>1. Sequential
    BY <1>6, <1>a DEF DeleteDomainIntents, KindsKept, Preserving
  <2>2. \A i \in IntentIds : intents'[i] = IF OwnsIntent(req[t].dom, i) THEN Nil ELSE intents[i]
    BY <1>6, <1>a DEF DeleteDomainIntents, Without, RowsTyped
  <2>3. req' = req /\ examples' = examples /\ domains' = domains
        /\ \A u \in Threads : u = t /\ pc'[u] = "intentsGone"
        /\ pc[t] = "examplesGone"
    BY <1>6, <1>a, <2>1 DEF DeleteDomainIntents, Sequential
  <2>4. \A e \in ExampleIds : Exists(examples, e) => examples[e].intent \in IntentIds
    BY <1>a DEF RowsTyped, ExampleRow
  <2>5. \A e \in ExampleIds : Exists(examples, e) => examples[e].dom # req[t].dom
    BY <1>a, <2>3
  <2>6. NoOrphans'
    BY <1>a, <2>2, <2>3, <2>4, <2>5
  <2>7. ParentsKnown'
    BY <1>a, <2>2, <2>3, <2>5
  <2> QED BY <2>6, <2>7
<1>7. CASE DeleteDomainRow(t)
  <2>1. Sequential
    BY <1>7, <1>a DEF DeleteDomainRow, KindsKept, Preserving
  <2>2. \A d \in DomainIds : domains'[d] = IF d = req[t].dom THEN Nil ELSE domains[d]
    BY <1>7, <1>a DEF DeleteDomainRow, Without, RowsTyped
  <2>3. req' = req /\ examples' = examples /\ intents' = intents
        /\ \A u \in Threads : u = t /\ pc'[u] = "rowGone"
        /\ pc[t] = "intentsGone"
    BY <1>7, <1>a, <2>1 DEF DeleteDomainRow, Sequential
  <2>4. \A i \in IntentIds : Exists(intents, i) => intents[i].dom \in DomainIds
    BY <1>a DEF RowsTyped, IntentRow
  <2> QED BY <1>a, <2>2, <2>3, <2>4
<1>8. CASE DropIndex(t)
  BY <1>8, <1>a, RootedFrame DEF DropIndex, rows
<1>9. CASE CreateIntent(t)
  <2>1. PICK i \in IntentIds : /\ intents' = [intents EXCEPT ![i] = [dom |-> req[t].dom,
                                      name |-> req[t].name, status |-> req[t].status]]
                               /\ intents[i] = Nil
    <3>1. \A i \in IntentIds : home[i] = Nil => intents[i] = Nil
      BY <1>a DEF Homes, RowsTyped, IntentRow
    <3> QED BY <1>9, <3>1 DEF CreateIntent, FreshIntents
  <2>2. [dom |-> req[t].dom, name |-> req[t].name, status |-> req[t].status] \in IntentRow
    BY <1>9, <1>b DEF CreateIntent, Enter, WellFormed, IntentRow
  <2>3. Exists(domains, req[t].dom)
    BY <1>9, <1>a, <1>b DEF CreateIntent, Enter, WellFormed
  <2>4. \A u \in Threads : pc[u] = "intentsGone" => Sequential
    BY <1>a DEF KindsKept, Preserving
  <2> QED BY <1>9, <1>a, <2>1, <2>2, <2>3, <2>4 DEF CreateIntent, Enter, RowsTyped, Sequential
<1>10. CASE UpdateIntent(t)
  <2>1. PICK row \in IntentRow : /\ intents' = [intents EXCEPT ![req[t].intent] = row]
                                 /\ row.dom = intents[req[t].intent].dom
    <3>1. intents[req[t].intent] \in IntentRow
      BY <1>10, <1>a, <1>b DEF UpdateIntent, Enter, Accepts, RowsTyped, WellFormed
    <3> DEFINE row == [dom |-> intents[req[t].intent].dom,
                       name |-> IF req[t].name \notin {Nil, intents[req[t].intent].name}
                                THEN req[t].name ELSE intents[req[t].intent].name,
                       status |-> IF req[t].status = Nil
                                  THEN intents[req[t].intent].status ELSE req[t].status]
    <3>2. row \in IntentRow /\ row.dom = intents[req[t].intent].dom
      BY <1>b, <3>1 DEF IntentRow, Request
    <3>3. intents' = [intents EXCEPT ![req[t].intent] = row]
      BY <1>10, <3>1 DEF UpdateIntent
    <3> HIDE DEF row
    <3> QED BY <3>2, <3>3
  <2>2. OwnsIntent(req[t].dom, req[t].intent) /\ req[t].intent \in IntentIds
    BY <1>10, <1>b DEF UpdateIntent, Enter, Accepts, WellFormed
  <2>3. \A i \in IntentIds : /\ Exists(intents, i)' <=> Exists(intents, i)
                             /\ Exists(intents, i) => intents'[i].dom = intents[i].dom
    BY <1>a, <2>1, <2>2 DEF RowsTyped
  <2> QED BY <1>10, <1>a, <2>3 DEF UpdateIntent, Enter, RowsTyped
<1>11. CASE RenameExamples(t)
  <2>1. \A e \in ExampleIds :
          /\ Exists(examples, e)' <=> Exists(examples, e)
          /\ Exists(examples, e) => /\ examples'[e].dom = examples[e].dom
                                    /\ examples'[e].intent = examples[e].intent
    <3> SUFFICES ASSUME NEW e \in ExampleIds
                 PROVE  /\ Exists(examples, e)' <=> Exists(examples, e)
                        /\ Exists(examples, e) => /\ examples'[e].dom = examples[e].dom
                                                  /\ examples'[e].intent = examples[e].intent
      OBVIOUS
    <3>1. CASE examples'[e] = examples[e]
      BY <3>1
    <3>2. CASE examples'[e] # examples[e]
      <4>1. /\ examples[e] \in ExampleRow
            /\ examples'[e] = [examples[e] EXCEPT !.name = req[t].name]
        BY <1>11, <1>a, <3>2 DEF RenameExamples, RowsTyped
      <4>2. examples'[e] \in ExampleRow
        BY <1>11, <1>a, <4>1 DEF RenameExamples, ExampleRow
      <4> QED BY <4>1, <4>2 DEF ExampleRow
    <3> QED BY <3>1, <3>2
  <2> QED BY <1>11, <1>a, <2>1 DEF RenameExamples
<1>12. CASE DeleteIntentExamples(t)
  <2>1. Sequential
    BY <1>12, <1>a DEF DeleteIntentExamples, Enter, KindsKept, Preserving
  <2>2. \A e \in ExampleIds : examples'[e] =
          IF Exists(examples, e) /\ examples[e].intent = req[t].intent THEN Nil ELSE examples[e]
    BY <1>12, <1>a DEF DeleteIntentExamples, Without, RowsTyped
  <2>3. req' = req /\ intents' = intents /\ domains' = domains
        /\ \A u \in Threads : u = t /\ pc'[u] = "examplesCut"
    BY <1>12, <1>a, <2>1 DEF DeleteIntentExamples, Sequential
  <2> QED BY <1>a, <2>2, <2>3
<1>13. CASE DeleteIntentRow(t)
  <2>1. Sequential
    BY <1>13, <1>a DEF DeleteIntentRow, KindsKept, Preserving
  <2>2. \A i \in IntentIds : intents'[i] = IF i = req[t].intent THEN Nil ELSE intents[i]
    BY <1>13, <1>a DEF DeleteIntentRow, Without, RowsTyped
  <2>3. req' = req /\ examples' = examples /\ domains' = domains
        /\ \A u \in Threads : u = t /\ pc'[u] = "stored"
        /\ pc[t] = "examplesCut"
    BY <1>13, <1>a, <2>1 DEF DeleteIntentRow, Sequential
  <2>4. \A e \in ExampleIds : Exists(examples, e) => examples[e].intent \in IntentIds
    BY <1>a DEF RowsTyped, ExampleRow
  <2> QED BY <1>a, <2>2, <2>3, <2>4
<1>14. CASE AddExamples(t)
  <2>1. /\ pc[t] = "resolved" /\ OwnsIntent(req[t].dom, req[t].intent)
        /\ req' = req /\ intents' = intents /\ domains' = domains
        /\ pc' = [pc EXCEPT ![t] = "stored"]
    BY <1>14, <1>a DEF AddExamples
  <2>2. \A e \in ExampleIds :
          \/ examples'[e] = examples[e]
          \/ examples'[e].dom = req[t].dom /\ examples'[e].intent = req[t].intent
    <3>1. PICK ids \in [DOMAIN req[t].batch -> FreshExamples] :
            examples' = [e \in ExampleIds |->
                IF \E a \in DOMAIN ids : ids[a] = e
                THEN [dom |-> req[t].dom, intent |-> req[t].intent, name |-> req[t].name,
                      text |-> req[t].batch[CHOOSE a \in DOMAIN ids : ids[a] = e]]
                ELSE examples[e]]
      BY <1>14 DEF AddExamples
    <3> QED BY <3>1
  <2>3. \A u \in Threads :
          pc[u] \in {"examplesGone", "intentsGone", "examplesCut"} => Sequential
    BY <1>a DEF KindsKept, Preserving
  <2> QED BY <1>a, <2>1, <2>2, <2>3 DEF Sequential
<1>15. CASE DeleteExample(t)
  <2>1. \A e \in ExampleIds : examples'[e] \in {Nil, examples[e]}
    BY <1>15, <1>a DEF DeleteExample, Without, RowsTyped
  <2>2. /\ req' = req /\ intents' = intents /\ domains' = domains
        /\ pc' = [pc EXCEPT ![t] = "stored"]
    BY <1>15 DEF DeleteExample
  <2> QED BY <1>a, <2>1, <2>2
<1> QED BY <1>1, <1>2, <1>3, <1>4, <1>5, <1>6, <1>7, <1>8, <1>9, <1>10, <1>11, <1>12,
           <1>13, <1>14, <1>15 DEF Mutate

\* Nor does any other step.
LEMMA NextRooted ==
  ASSUME RootedInv, Sequential \/ Preserving, [Next]_vars
  PROVE  RootedInv'
<1>a. /\ TypeOK /\ Homes /\ KindsKept /\ ParentsKnown /\ NoOrphans
      /\ pc \in [Threads -> Labels] /\ req \in [Threads -> Request]
  BY DEF RootedInv, TypeOK, ThreadsTyped
<1>b. TypeOK' /\ Homes' /\ KindsKept'
  BY <1>a, NextTyped, NextHomes, NextKindsKept
<1>1. ASSUME NEW t \in Threads, NEW r \in Requests, Admit(t, r)
      PROVE  ParentsKnown' /\ NoOrphans'
  BY <1>1, <1>a DEF Admit, ParentsKnown, NoOrphans, Exists, OwnsIntent, rows
<1>2. ASSUME NEW t \in Threads, Mutate(t)
      PROVE  ParentsKnown' /\ NoOrphans'
  BY <1>2, MutateRooted
<1>3. ASSUME NEW t \in Threads, Serve(t)
      PROVE  ParentsKnown' /\ NoOrphans'
  <2>1. UNCHANGED <<domains, intents, examples>>
    BY <1>3 DEF Serve, MarkDirty, Build, ListActive, Collect, OpenStatus, CountExamples,
                ListIntents, GetReady, GetStale, Respond, rows
  <2>2. \A u \in Threads :
          pc'[u] \in {"admitted", "resolved", "examplesGone", "intentsGone", "examplesCut"} =>
              pc'[u] = pc[u] /\ req'[u] = req[u]
    BY <1>3, <1>a DEF Serve, MarkDirty, Build, ListActive, Collect, OpenStatus, CountExamples,
                      ListIntents, GetReady, GetStale, Respond, GoTo, Return
  <2> QED BY <1>a, <2>1, <2>2, RootedFrame
<1>4. ASSUME NEW t \in Threads, Fail(t)
      PROVE  ParentsKnown' /\ NoOrphans'
  BY <1>4, <1>a, RootedFrame DEF Fail, Return, rows
<1>5. ASSUME Restart
      PROVE  ParentsKnown' /\ NoOrphans'
  BY <1>5, <1>a, RootedFrame DEF Restart, rows
<1>6. ASSUME UNCHANGED vars
      PROVE  ParentsKnown' /\ NoOrphans'
  BY <1>6, <1>a, RootedFrame DEF vars, threads, rows
<1>7. ParentsKnown' /\ NoOrphans'
  BY <1>1, <1>2, <1>3, <1>4, <1>5, <1>6 DEF Next
<1> QED BY <1>b, <1>7 DEF RootedInv

\* Every child row has its parent, in the middle of every cascade and after one
\* that failed or was cut by a restart (domain_service.delete, intent_service.delete:
\* examples, then intents, then the domain), as long as one request runs at a
\* time or none deletes a domain or an intent.  Beyond that the services' checks
\* are made before the lock, and a delete may come between.
THEOREM CascadesLeaveNoOrphans ==
  ASSUME Sequential \/ Preserving
  PROVE  Spec => []NoOrphans
<1>1. Init => RootedInv
  BY InitTyped, InitHomes DEF Init, RootedInv, KindsKept, ParentsKnown, NoOrphans, Exists
<1>2. RootedInv /\ [Next]_vars => RootedInv'
  BY NextRooted
<1>3. RootedInv => NoOrphans
  BY DEF RootedInv
<1> QED BY <1>1, <1>2, <1>3, PTL DEF Spec

(************************ examples' intent names ***************************)

\* No request may edit an intent.
Fixed == "update_intent" \notin Kinds

Renaming(i) == \E t \in Threads : pc[t] = "saved" /\ req[t].intent = i

\* Every example belongs to an intent that was minted, if not to a live one.
ExampleHomes == \A e \in ExampleIds : Exists(examples, e) => home[examples[e].intent] # Nil

\* Outside a rename an example has its intent's name, and a thread that is about
\* to write a name has the intent's current one.
NamesKnown ==
    faults = 0 /\ crashes = 0 =>
        /\ \A e \in ExampleIds :
             Exists(examples, e) /\ Exists(intents, examples[e].intent)
                 /\ ~Renaming(examples[e].intent) =>
               examples[e].name = intents[examples[e].intent].name
        /\ \A t \in Threads :
             pc[t] \in {"resolved", "saved"} /\ Exists(intents, req[t].intent) =>
               req[t].name = intents[req[t].intent].name

NamedInv == TypeOK /\ LockInv /\ Homes /\ KindsKept /\ ExampleHomes /\ NamesKnown

\* An example is added to an intent whose home the thread knows.
LEMMA MutateExampleHomes ==
  ASSUME TypeOK, Homes, ExampleHomes, NEW t \in Threads, Mutate(t)
  PROVE  ExampleHomes'
<1> USE NilAssumption DEF ExampleHomes, Exists
<1>a. RowsTyped /\ req[t] \in Request /\ WellFormed(req[t])
  BY DEF TypeOK, ThreadsTyped, Request
<1>1. CASE AddExamples(t)
  <2>1. /\ home[req[t].intent] = req[t].dom /\ req[t].dom # Nil
        /\ home' = home
    BY <1>1, <1>a DEF AddExamples, Homes, WellFormed
  <2>2. \A e \in ExampleIds :
          examples'[e] = examples[e] \/ examples'[e].intent = req[t].intent
    <3>1. PICK ids \in [DOMAIN req[t].batch -> FreshExamples] :
            examples' = [e \in ExampleIds |->
                IF \E a \in DOMAIN ids : ids[a] = e
                THEN [dom |-> req[t].dom, intent |-> req[t].intent, name |-> req[t].name,
                      text |-> req[t].batch[CHOOSE a \in DOMAIN ids : ids[a] = e]]
                ELSE examples[e]]
      BY <1>1 DEF AddExamples
    <3> QED BY <3>1
  <2> QED BY <2>1, <2>2
<1>2. CASE RenameExamples(t)
  <2>1. ASSUME NEW e \in ExampleIds, examples'[e] # Nil
        PROVE  examples[e] # Nil /\ examples'[e].intent = examples[e].intent
    <3>1. CASE examples'[e] = examples[e]
      BY <2>1, <3>1
    <3>2. CASE examples'[e] # examples[e]
      BY <1>2, <1>a, <3>2 DEF RenameExamples, RowsTyped, ExampleRow
    <3> QED BY <3>1, <3>2
  <2> QED BY <1>2, <2>1 DEF RenameExamples
<1>3. CASE CreateIntent(t)
  <2>1. PICK i \in IntentIds : home' = [home EXCEPT ![i] = req[t].dom]
    BY <1>3 DEF CreateIntent, FreshIntents
  <2>2. req[t].dom # Nil
    BY <1>3, <1>a DEF CreateIntent, Enter, WellFormed
  <2>3. \A j \in IntentIds : home[j] # Nil => home'[j] # Nil
    BY <1>a, <2>1, <2>2 DEF RowsTyped
  <2>4. \A e \in ExampleIds : examples[e] # Nil => examples[e].intent \in IntentIds
    BY <1>a DEF RowsTyped, ExampleRow
  <2> QED BY <1>3, <2>3, <2>4 DEF CreateIntent
<1>4. CASE DeleteDomainExamples(t) \/ DeleteIntentExamples(t) \/ DeleteExample(t)
  <2>1. home' = home /\ \A e \in ExampleIds : examples'[e] \in {Nil, examples[e]}
    BY <1>4, <1>a DEF DeleteDomainExamples, DeleteIntentExamples, DeleteExample, Without, RowsTyped
  <2> QED BY <2>1
<1>5. CASE ~(AddExamples(t) \/ RenameExamples(t) \/ CreateIntent(t)
             \/ DeleteDomainExamples(t) \/ DeleteIntentExamples(t) \/ DeleteExample(t))
  <2>1. UNCHANGED <<examples, home>>
    BY <1>5 DEF Mutate, ReadIntent, Refuse, CreateDomain, UpdateDomain, RenameDomain,
            DeleteDomainIntents, DeleteDomainRow, DropIndex, UpdateIntent, DeleteIntentRow, rows
  <2> QED BY <2>1
<1> QED BY <1>1, <1>2, <1>3, <1>4, <1>5

\* A service writes the name an intent has.
LEMMA MutateNamed ==
  ASSUME NamedInv, Sequential \/ Fixed, NEW t \in Threads, Mutate(t)
  PROVE  NamesKnown'
<1> USE NilAssumption DEF Exists, OwnsIntent, Return, GoTo
<1>a. /\ Homes /\ KindsKept /\ ExampleHomes /\ NamesKnown
      /\ RowsTyped /\ pc \in [Threads -> Labels] /\ req \in [Threads -> Request]
  BY DEF NamedInv, TypeOK, ThreadsTyped
<1>b. WellFormed(req[t]) /\ req[t] \in Request
  BY <1>a DEF Request
<1>c. faults' = faults /\ crashes' = crashes
  BY DEF Mutate, ReadIntent, Refuse, CreateDomain, UpdateDomain, RenameDomain,
         DeleteDomainExamples, DeleteDomainIntents, DeleteDomainRow, DropIndex, CreateIntent,
         UpdateIntent, RenameExamples, DeleteIntentExamples, DeleteIntentRow, AddExamples,
         DeleteExample, Enter, counters
\* Rows at most go away, and no thread comes to write a name.
<1>d. ASSUME \A i \in IntentIds : intents'[i] \in {Nil, intents[i]},
             \A e \in ExampleIds : examples'[e] \in {Nil, examples[e]},
             pc[t] # "saved",
             \A u \in Threads \ {t} : pc'[u] = pc[u] /\ req'[u] = req[u],
             pc'[t] \notin {"resolved", "saved"}
      PROVE  NamesKnown'
  <2>1. \A i : Renaming(i) => Renaming(i)'
    BY <1>d DEF Renaming
  <2>2. \A e \in ExampleIds : examples[e] # Nil => examples[e].intent \in IntentIds
    BY <1>a DEF RowsTyped, ExampleRow
  <2>3. \A u \in Threads : pc[u] \in {"resolved", "saved"} => req[u].intent \in IntentIds
    BY <1>a DEF KindsKept, Homes, Request, WellFormed
  <2> QED BY <1>a, <1>c, <1>d, <2>1, <2>2, <2>3 DEF NamesKnown
<1>1. CASE ReadIntent(t)
  <2>1. /\ UNCHANGED <<intents, examples>>
        /\ \A u \in Threads \ {t} : pc'[u] = pc[u] /\ req'[u] = req[u]
        /\ pc[t] = "admitted" /\ pc'[t] = "resolved"
        /\ req'[t].intent = req[t].intent /\ req'[t].name = intents[req[t].intent].name
    BY <1>1, <1>a, <1>b DEF ReadIntent, Request, rows
  <2>2. \A i : Renaming(i) => Renaming(i)'
    BY <2>1 DEF Renaming
  <2> QED BY <1>a, <1>c, <2>1, <2>2 DEF NamesKnown
<1>2. CASE RenameExamples(t)
  <2>1. Sequential
    BY <1>2, <1>a DEF RenameExamples, KindsKept, Fixed
  <2>2. /\ intents' = intents /\ \A u \in Threads : u = t /\ pc'[u] = "stored"
        /\ pc[t] = "saved"
    BY <1>2, <1>a, <2>1 DEF RenameExamples, Sequential
  <2>3. ASSUME NEW e \in ExampleIds, faults = 0, crashes = 0, examples'[e] # Nil,
               intents[examples'[e].intent] # Nil
        PROVE  examples'[e].name = intents[examples'[e].intent].name
    <3>1. CASE Exists(examples, e) /\ examples[e].intent = req[t].intent
      <4>1. /\ examples'[e] = [examples[e] EXCEPT !.name = req[t].name]
            /\ examples[e] \in ExampleRow
        BY <1>2, <1>a, <3>1 DEF RenameExamples, RowsTyped
      <4>2. examples'[e].name = req[t].name /\ examples'[e].intent = req[t].intent
        BY <3>1, <4>1 DEF ExampleRow
      <4> QED BY <1>a, <2>2, <2>3, <4>2 DEF NamesKnown
    <3>2. CASE ~(Exists(examples, e) /\ examples[e].intent = req[t].intent)
      <4>1. examples'[e] = examples[e]
        BY <1>2, <3>2 DEF RenameExamples
      <4>2. ~Renaming(examples[e].intent)
        BY <2>2, <2>3, <3>2, <4>1 DEF Renaming
      <4> QED BY <1>a, <2>3, <4>1, <4>2 DEF NamesKnown
    <3> QED BY <3>1, <3>2
  <2> QED BY <1>c, <2>2, <2>3 DEF NamesKnown
<1>3. CASE UpdateIntent(t)
  <2>1. Sequential
    BY <1>3, <1>a DEF UpdateIntent, Enter, KindsKept, Fixed
  <2> DEFINE i == req[t].intent
             renamed == req[t].name \notin {Nil, intents[i].name}
  <2>2. /\ i \in IntentIds /\ intents[i] \in IntentRow
        /\ pc[t] = "admitted" /\ req' = req /\ examples' = examples
        /\ \A u \in Threads : u = t
        /\ pc'[t] = IF renamed THEN "saved" ELSE "stored"
    BY <1>3, <1>a, <1>b, <2>1
       DEF UpdateIntent, Enter, Accepts, RowsTyped, WellFormed, Sequential
  <2>3. /\ intents'[i].name = IF renamed THEN req[t].name ELSE intents[i].name
        /\ \A j \in IntentIds \ {i} : intents'[j] = intents[j]
    BY <1>3, <1>a, <2>2 DEF UpdateIntent, RowsTyped
  <2>4. \A j : ~Renaming(j)
    BY <2>2 DEF Renaming
  <2>5. ASSUME NEW e \in ExampleIds, faults = 0, crashes = 0, examples[e] # Nil,
               intents'[examples[e].intent] # Nil, ~(pc'[t] = "saved" /\ i = examples[e].intent)
        PROVE  examples[e].name = intents'[examples[e].intent].name
    <3>1. examples[e].intent \in IntentIds
      BY <1>a, <2>5 DEF RowsTyped, ExampleRow
    <3>2. intents[examples[e].intent] # Nil
      BY <2>2, <2>3, <2>5, <3>1
    <3>3. examples[e].name = intents[examples[e].intent].name
      BY <1>a, <2>4, <2>5, <3>2 DEF NamesKnown
    <3> QED BY <2>2, <2>3, <2>5, <3>1, <3>3
  <2>6. pc'[t] \in {"resolved", "saved"} => req[t].name = intents'[i].name
    BY <2>2, <2>3
  <2> HIDE DEF renamed
  <2> QED BY <1>c, <2>2, <2>5, <2>6 DEF NamesKnown, Renaming
<1>4. CASE CreateIntent(t)
  <2>1. PICK i \in FreshIntents : \A j \in IntentIds \ {i} : intents'[j] = intents[j]
    BY <1>4, <1>a DEF CreateIntent, RowsTyped, FreshIntents
  <2>2. home[i] = Nil
    BY <2>1 DEF FreshIntents
  <2>3. \A e \in ExampleIds :
          examples[e] # Nil => examples[e].intent \in IntentIds /\ examples[e].intent # i
    BY <1>a, <2>2 DEF ExampleHomes, RowsTyped, ExampleRow
  <2>4. \A u \in Threads \ {t} : pc[u] \in {"resolved", "saved"} =>
            req[u].intent \in IntentIds /\ req[u].intent # i
    <3>1. ASSUME NEW u \in Threads \ {t}, pc[u] = "resolved"
          PROVE  req[u].intent \in IntentIds /\ req[u].intent # i
      <4>1. req[u].dom \in DomainIds /\ home[req[u].intent] = req[u].dom
        BY <1>a, <3>1 DEF Homes, NamedInv, TypeOK, ThreadsTyped
      <4> QED BY <1>a, <2>2, <3>1, <4>1 DEF Homes
    <3>2. ASSUME NEW u \in Threads \ {t}, pc[u] = "saved"
          PROVE  FALSE
      BY <1>a, <3>2 DEF KindsKept, Fixed, Sequential
    <3> QED BY <3>1, <3>2
  <2>5. /\ pc[t] = "admitted" /\ pc' = [pc EXCEPT ![t] = "stored"]
        /\ req' = req /\ examples' = examples
    BY <1>4 DEF CreateIntent, Enter
  <2>6. \A j : Renaming(j) => Renaming(j)'
    BY <1>a, <2>5 DEF Renaming
  <2> QED BY <1>a, <1>c, <2>1, <2>3, <2>4, <2>5, <2>6 DEF NamesKnown
<1>5. CASE AddExamples(t)
  <2>1. /\ pc[t] = "resolved" /\ pc' = [pc EXCEPT ![t] = "stored"]
        /\ req' = req /\ intents' = intents
    BY <1>5 DEF AddExamples
  <2>2. \A e \in ExampleIds :
          \/ examples'[e] = examples[e]
          \/ examples'[e].name = req[t].name /\ examples'[e].intent = req[t].intent
    <3>1. PICK ids \in [DOMAIN req[t].batch -> FreshExamples] :
            examples' = [e \in ExampleIds |->
                IF \E a \in DOMAIN ids : ids[a] = e
                THEN [dom |-> req[t].dom, intent |-> req[t].intent, name |-> req[t].name,
                      text |-> req[t].batch[CHOOSE a \in DOMAIN ids : ids[a] = e]]
                ELSE examples[e]]
      BY <1>5 DEF AddExamples
    <3> QED BY <3>1
  <2>3. \A j : Renaming(j) => Renaming(j)'
    BY <1>a, <2>1 DEF Renaming
  <2> QED BY <1>a, <1>c, <2>1, <2>2, <2>3 DEF NamesKnown
<1>6. CASE DeleteDomainExamples(t) \/ DeleteIntentExamples(t) \/ DeleteExample(t)
  <2>1. \A e \in ExampleIds : examples'[e] \in {Nil, examples[e]}
    BY <1>6, <1>a DEF DeleteDomainExamples, DeleteIntentExamples, DeleteExample, Without, RowsTyped
  <2> QED BY <1>6, <1>a, <1>d, <2>1 DEF DeleteDomainExamples, DeleteIntentExamples, DeleteExample, Enter
<1>7. CASE DeleteDomainIntents(t) \/ DeleteIntentRow(t)
  <2>1. \A i \in IntentIds : intents'[i] \in {Nil, intents[i]}
    BY <1>7, <1>a DEF DeleteDomainIntents, DeleteIntentRow, Without, RowsTyped
  <2> QED BY <1>7, <1>a, <1>d, <2>1 DEF DeleteDomainIntents, DeleteIntentRow
<1>8. CASE Refuse(t) \/ CreateDomain(t) \/ UpdateDomain(t) \/ RenameDomain(t)
           \/ DeleteDomainRow(t) \/ DropIndex(t)
  BY <1>8, <1>a, <1>d DEF Refuse, CreateDomain, UpdateDomain, RenameDomain, DeleteDomainRow,
                          DropIndex, Enter, rows
<1> QED BY <1>1, <1>2, <1>3, <1>4, <1>5, <1>6, <1>7, <1>8 DEF Mutate

\* Nor does any other step put a name out of date while nothing has failed.
LEMMA NextNamed ==
  ASSUME NamedInv, Sequential \/ Fixed, [Next]_vars
  PROVE  NamedInv'
<1>a. /\ TypeOK /\ LockInv /\ Homes /\ KindsKept /\ ExampleHomes /\ NamesKnown
      /\ pc \in [Threads -> Labels] /\ req \in [Threads -> Request]
      /\ faults \in Nat /\ crashes \in Nat
  BY DEF NamedInv, TypeOK, ThreadsTyped, LocksTyped
<1>b. TypeOK' /\ LockInv' /\ Homes' /\ KindsKept'
  BY <1>a, NextTyped, NextLocked, NextHomes, NextKindsKept
\* A step that writes no row, and brings no thread to write a name.
<1>c. ASSUME UNCHANGED <<intents, examples, home, faults, crashes>>,
             \A u \in Threads : /\ pc[u] = "saved" => pc'[u] = "saved" /\ req'[u] = req[u]
                                /\ pc'[u] \in {"resolved", "saved"} =>
                                     pc'[u] = pc[u] /\ req'[u] = req[u]
      PROVE  ExampleHomes' /\ NamesKnown'
  <2>1. \A i : Renaming(i) => Renaming(i)'
    BY <1>c DEF Renaming
  <2> QED BY <1>a, <1>c, <2>1 DEF ExampleHomes, NamesKnown, Exists
<1>1. ASSUME NEW t \in Threads, NEW r \in Requests, Admit(t, r)
      PROVE  ExampleHomes' /\ NamesKnown'
  BY <1>1, <1>a, <1>c DEF Admit, rows, counters
<1>2. ASSUME NEW t \in Threads, Mutate(t)
      PROVE  ExampleHomes' /\ NamesKnown'
  BY <1>2, <1>a, MutateExampleHomes, MutateNamed
<1>3. ASSUME NEW t \in Threads, Serve(t)
      PROVE  ExampleHomes' /\ NamesKnown'
  <2>1. UNCHANGED <<intents, examples, home, faults, crashes>>
    BY <1>3 DEF Serve, MarkDirty, Build, ListActive, Collect, OpenStatus, CountExamples,
                ListIntents, GetReady, GetStale, Respond, rows, counters
  <2>2. \A u \in Threads : /\ pc[u] = "saved" => pc'[u] = "saved" /\ req'[u] = req[u]
                           /\ pc'[u] \in {"resolved", "saved"} =>
                                pc'[u] = pc[u] /\ req'[u] = req[u]
    BY <1>3, <1>a DEF Serve, MarkDirty, Build, ListActive, Collect, OpenStatus, CountExamples,
                      ListIntents, GetReady, GetStale, Respond, GoTo, Return
  <2> QED BY <1>c, <2>1, <2>2
<1>4. ASSUME NEW t \in Threads, Fail(t)
      PROVE  ExampleHomes' /\ NamesKnown'
  BY <1>4, <1>a DEF Fail, ExampleHomes, NamesKnown, Exists, rows
<1>5. ASSUME Restart
      PROVE  ExampleHomes' /\ NamesKnown'
  BY <1>5, <1>a DEF Restart, ExampleHomes, NamesKnown, Exists, rows
<1>6. ASSUME UNCHANGED vars
      PROVE  ExampleHomes' /\ NamesKnown'
  BY <1>6, <1>a, <1>c DEF vars, threads, rows, counters
<1>7. ExampleHomes' /\ NamesKnown'
  BY <1>1, <1>2, <1>3, <1>4, <1>5, <1>6 DEF Next
<1> QED BY <1>b, <1>7 DEF NamedInv

\* Outside a rename, and until a failure or a restart cuts one short, every
\* example carries its intent's current name (intent_service.update refreshes
\* them in the same section), as long as one request runs at a time or no intent
\* is edited.  Beyond that ExampleService reads the name before it takes the lock.
THEOREM RenamesReachExamples ==
  ASSUME Sequential \/ Fixed
  PROVE  Spec => []NamesCurrent
<1>1. Init => NamedInv
  BY InitTyped, InitLocked, InitHomes
     DEF Init, NamedInv, KindsKept, ExampleHomes, NamesKnown, Exists
<1>2. NamedInv /\ [Next]_vars => NamedInv'
  BY NextNamed
<1>3. NamedInv => NamesCurrent
  <2> SUFFICES ASSUME NamedInv, storeLock = Nil PROVE NamesCurrent
    BY DEF NamesCurrent
  <2>1. \A t \in Threads : pc[t] # "saved"
    BY NilAssumption DEF NamedInv, LockInv, LockDiscipline, InStore
  <2> QED BY <2>1 DEF NamedInv, NamesKnown, NamesCurrent, Renaming
<1> QED BY <1>1, <1>2, <1>3, PTL DEF Spec
=============================================================================
