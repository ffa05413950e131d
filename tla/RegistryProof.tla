---------------------------- MODULE RegistryProof ----------------------------
(***************************************************************************)
(* Proofs about Registry: its types, the uniqueness of its keys, that it   *)
(* implements ToolDirectory, that an import touches its own server only,   *)
(* that names lead back to their tools and bindings keep their meaning,    *)
(* and what a reported call may claim.                                     *)
(*                                                                         *)
(* The argument has one hinge.  Whatever a request or an import does, the  *)
(* store sees one of four kinds of step: a tool is added under a free key, *)
(* changed to a key no other tool has, dropped, or nothing happens         *)
(* (StepKinds).  That keys stay unique and that every step is one of the   *)
(* directory's both follow from the kind alone.  What a reference means    *)
(* then hangs on its key: it can be split in one way only (OneSplit).      *)
(***************************************************************************)
EXTENDS Registry, WellFoundedInduction, SequenceTheorems, FiniteSetTheorems, TLAPS

Adds ==
    \E i \in Ids \ issued, tool \in Tool :
        /\ tools' = [tools EXCEPT ![i] = tool]
        /\ issued' = issued \cup {i}
        /\ \A j \in Live : KeyOf(tools[j]) # KeyOf(tool)

Changes ==
    \E i \in Live, tool \in Tool :
        /\ tools' = [tools EXCEPT ![i] = tool]
        /\ issued' = issued
        /\ \A j \in Live \ {i} : KeyOf(tools[j]) # KeyOf(tool)

Drops ==
    \E i \in Ids :
        /\ tools' = [tools EXCEPT ![i] = Nil]
        /\ issued' = issued

Same == tools' = tools /\ issued' = issued

-----------------------------------------------------------------------------
(* Lemmas on the service's operators.                                      *)

LEMMA HeadOf ==
    ASSUME NEW S, NEW s \in Seq(S), s # <<>>
    PROVE  Head(s) \in S /\ Tail(s) \in Seq(S)
OBVIOUS

\* What find_by_key returns has the key it was asked for, and when it returns
\* nothing no tool has it.
LEMMA FindByKeyFinds ==
    ASSUME NEW server, NEW name
    PROVE  \/ /\ FindByKey(server, name) = Nil
              /\ \A j \in Live : KeyOf(tools[j]) # Key(server, name)
           \/ /\ FindByKey(server, name) \in Live
              /\ FindByKey(server, name) # Nil
              /\ KeyOf(tools[FindByKey(server, name)]) = Key(server, name)
<1>1. CASE \E j \in Live : KeyOf(tools[j]) = Key(server, name)
  <2>1. FindByKey(server, name) =
            CHOOSE j \in Live : KeyOf(tools[j]) = Key(server, name)
    BY <1>1 DEF FindByKey
  <2>2. /\ FindByKey(server, name) \in Live
        /\ KeyOf(tools[FindByKey(server, name)]) = Key(server, name)
    BY <1>1, <2>1
  <2>3. Nil \notin Live
    BY NilAssumption DEF Live
  <2>. QED
    BY <2>2, <2>3
<1>2. CASE ~ \E j \in Live : KeyOf(tools[j]) = Key(server, name)
  BY <1>2 DEF FindByKey
<1>. QED
  BY <1>1, <1>2

\* A tool that is stored is a tool.
LEMMA LiveTools ==
    ASSUME TypeOK, NEW i \in Live
    PROVE  i \in Ids /\ tools[i] \in Tool /\ i \in issued
BY DEF TypeOK, Live

\* Nil, which stands where no tool is stored, is none.
LEMMA ToolsAreNotNil == \A tool \in Tool : tool # Nil
BY NilAssumption

\* create() adds, under a key that was free.
LEMMA CreateAdds ==
    ASSUME NEW tool \in Tool, Create(tool)
    PROVE  Adds
<1>1. \A j \in Live : KeyOf(tools[j]) # KeyOf(tool)
  BY FindByKeyFinds DEF Create, KeyOf
<1>2. PICK i \in Ids \ issued : tools' = [tools EXCEPT ![i] = tool]
                                  /\ issued' = issued \cup {i}
  BY DEF Create, AddTool
<1>. QED
  BY <1>1, <1>2 DEF Adds

\* update() changes, and a tool that moves moves to a key no other has.
LEMMA UpdateChanges ==
    ASSUME UniqueKeys, NEW i \in Ids, NEW tool \in Tool, Update(i, tool)
    PROVE  Changes
<1>1. i \in Live
  BY DEF Update
<1>2. \A j \in Live \ {i} : KeyOf(tools[j]) # KeyOf(tool)
  <2>1. CASE <<tool.server, tool.name>> = <<tools[i].server, tools[i].name>>
    <3>1. KeyOf(tools[i]) = KeyOf(tool)
      BY <2>1 DEF KeyOf
    <3>. QED
      BY <1>1, <3>1 DEF UniqueKeys
  <2>2. CASE FindByKey(tool.server, tool.name) = Nil
    BY <2>2, FindByKeyFinds DEF KeyOf
  <2>3. CASE FindByKey(tool.server, tool.name) = i
    <3>1. KeyOf(tools[i]) = KeyOf(tool)
      BY <2>3, <1>1, NilAssumption, FindByKeyFinds DEF KeyOf, Live
    <3>. QED
      BY <1>1, <3>1 DEF UniqueKeys
  <2>. QED
    BY <2>1, <2>2, <2>3 DEF Update
<1>. QED
  BY <1>1, <1>2 DEF Changes, Update

LEMMA DeleteDrops ==
    ASSUME NEW i \in Ids, Delete(i)
    PROVE  Drops
BY DEF Delete, Drops

\* An entry of an import is added, or changes the tool of its key.
LEMMA EntryAddsOrChanges ==
    ASSUME TypeOK, UniqueKeys, ImportEntry
    PROVE  Adds \/ Changes
<1>. DEFINE entry == Head(importing.todo)
            known == FindByKey(importing.server, entry.name)
            tool == [server |-> importing.server, name |-> entry.name,
                     schema |-> entry.schema,
                     status |-> IF known = Nil THEN "active" ELSE tools[known].status]
<1>1. /\ importing \in Job
      /\ importing.todo # <<>>
  BY DEF ImportEntry, AtEntry, TypeOK
<1>2. /\ importing.server \in Servers
      /\ entry \in [name : Names, schema : Schemas]
  BY <1>1, HeadOf DEF Job
<1>3. known # Nil => known \in Live /\ tools[known] \in Tool
                       /\ KeyOf(tools[known]) = KeyOf(tool)
  BY FindByKeyFinds, LiveTools DEF KeyOf
<1>4. tool \in Tool
  BY <1>2, <1>3 DEF Tool
<1>5. CASE known = Nil
  <2>1. \A j \in Live : KeyOf(tools[j]) # KeyOf(tool)
    BY <1>5, FindByKeyFinds DEF KeyOf
  <2>2. AddTool(tool)
    BY <1>5 DEF ImportEntry
  <2>3. PICK i \in Ids \ issued : tools' = [tools EXCEPT ![i] = tool]
                                    /\ issued' = issued \cup {i}
    BY <2>2 DEF AddTool
  <2>. QED
    BY <2>1, <2>3, <1>4 DEF Adds
<1>6. CASE known # Nil
  <2>1. \A j \in Live \ {known} : KeyOf(tools[j]) # KeyOf(tool)
    BY <1>3, <1>6 DEF UniqueKeys
  <2>2. tools' = [tools EXCEPT ![known] = tool] /\ issued' = issued
    BY <1>6 DEF ImportEntry
  <2>. QED
    BY <1>3, <1>4, <1>6, <2>1, <2>2 DEF Changes
<1>. QED
  BY <1>5, <1>6

LEMMA RemovalDrops ==
    ASSUME TypeOK, RemoveTool
    PROVE  Drops
<1>1. importing \in Job
  BY DEF RemoveTool, AtRemoval, TypeOK
<1>2. PICK i \in importing.doomed : tools' = [tools EXCEPT ![i] = Nil]
  BY DEF RemoveTool
<1>3. i \in Ids
  BY <1>1 DEF Job
<1>. QED
  BY <1>2, <1>3 DEF Drops, RemoveTool

\* Whatever happens to the registry is one of four things.
LEMMA StepKinds ==
    ASSUME TypeOK, UniqueKeys, [Next]_vars
    PROVE  Adds \/ Changes \/ Drops \/ Same
<1>1. ASSUME NEW c \in Callers, CreateTool(c) \/ UiRegisterTool(c)
      PROVE  Adds
  BY <1>1, CreateAdds DEF CreateTool, UiRegisterTool
<1>2. ASSUME NEW c \in Callers, UpdateTool(c)
      PROVE  Changes
  BY <1>2, UpdateChanges DEF UpdateTool
<1>3. ASSUME NEW c \in Callers, DeleteTool(c) \/ UiDeleteTool(c)
      PROVE  Drops
  BY <1>3, DeleteDrops DEF DeleteTool, UiDeleteTool
<1>4. ASSUME NEW c \in Callers,
             \/ RecordAudit(c) \/ Render(c) \/ BeginImport(c) \/ EditIntent(c)
             \/ UiBindWrite(c) \/ AnswerRouting(c)
             \/ \E i \in Intents : UiBindRead(c, i) \/ BeginRouting(c, i)
      PROVE  Same
  BY <1>4 DEF RecordAudit, Render, BeginImport, EditIntent, UiBindWrite,
              AnswerRouting, UiBindRead, BeginRouting, Same
<1>5. ASSUME SkipEntry \/ BeginRemoval \/ FinishImport \/ AbortImport \/ Crash
      PROVE  Same
  BY <1>5 DEF SkipEntry, BeginRemoval, FinishImport, AbortImport, Crash, Same
<1>6. CASE UNCHANGED vars
  BY <1>6 DEF vars, Same
<1>. QED
  BY <1>1, <1>2, <1>3, <1>4, <1>5, <1>6, EntryAddsOrChanges, RemovalDrops DEF Next
-----------------------------------------------------------------------------
(* Types.                                                                  *)

LEMMA InitTypes == Init => TypeOK
<1>. SUFFICES ASSUME Init PROVE TypeOK
  OBVIOUS
<1>1. Live = {}
  BY DEF Init, Live
<1>2. tools \in [Ids -> Tool \cup {Nil}] /\ issued \subseteq Ids
  BY DEF Init
<1>3. importing \in Job \cup {Nil} /\ faults \in 0..MaxFaults
  BY FaultAssumption DEF Init
<1>4. request \in [Callers -> Request] /\ intents \in [Intents -> ToolRef]
  BY DEF Init, Request
<1>. QED
  BY <1>1, <1>2, <1>3, <1>4 DEF TypeOK

\* The store keeps its type through each kind of step.
StoreTyped ==
    /\ tools \in [Ids -> Tool \cup {Nil}]
    /\ issued \subseteq Ids
    /\ Live \subseteq issued

LEMMA StoreStaysTyped ==
    ASSUME StoreTyped, Adds \/ Changes \/ Drops \/ Same
    PROVE  StoreTyped'
<1>1. CASE Adds
  BY <1>1 DEF StoreTyped, Adds, Live
<1>2. CASE Changes
  BY <1>2 DEF StoreTyped, Changes, Live
<1>3. CASE Drops
  BY <1>3 DEF StoreTyped, Drops, Live
<1>4. CASE Same
  BY <1>4 DEF StoreTyped, Same, Live
<1>. QED
  BY <1>1, <1>2, <1>3, <1>4

\* So does the import.
LEMMA ImportStaysTyped ==
    ASSUME TypeOK, [Next]_vars
    PROVE  importing' \in Job \cup {Nil}
<1>1. ASSUME NEW c \in Callers, BeginImport(c)
      PROVE  importing' \in Job
  <2>1. PICK server \in Servers, payload \in Payloads, replace \in BOOLEAN :
            importing' = [caller |-> c, server |-> server, todo |-> payload,
                          replace |-> replace, seen |-> {}, doomed |-> {},
                          phase |-> "entries"]
    BY <1>1 DEF BeginImport
  <2>2. payload \in Seq([name : Names, schema : Schemas])
    BY PayloadAssumption
  <2>3. {} \in SUBSET FoldedNames /\ {} \in SUBSET Ids
    OBVIOUS
  <2>. QED
    BY <2>1, <2>2, <2>3, Zenon DEF Job
<1>2. CASE ImportEntry
  <2>1. importing \in Job /\ importing.todo # <<>>
    BY <1>2 DEF ImportEntry, AtEntry, TypeOK
  <2>2. importing.todo \in Seq([name : Names, schema : Schemas])
    BY <2>1 DEF Job
  <2>3. /\ Tail(importing.todo) \in Seq([name : Names, schema : Schemas])
        /\ Head(importing.todo) \in [name : Names, schema : Schemas]
    BY <2>1, <2>2, HeadOf
  <2>4. Folded(Head(importing.todo).name) \in FoldedNames
    BY <2>3 DEF FoldedNames
  <2>5. importing' = [importing EXCEPT !.todo = Tail(@),
                           !.seen = @ \cup {Folded(Head(importing.todo).name)}]
    BY <1>2 DEF ImportEntry
  <2>. QED
    BY <2>1, <2>3, <2>4, <2>5 DEF Job
<1>3. CASE SkipEntry
  <2>1. importing \in Job /\ importing.todo # <<>>
    BY <1>3 DEF SkipEntry, AtEntry, TypeOK
  <2>2. importing.todo \in Seq([name : Names, schema : Schemas])
    BY <2>1 DEF Job
  <2>3. Tail(importing.todo) \in Seq([name : Names, schema : Schemas])
    BY <2>1, <2>2, HeadOf
  <2>. QED
    BY <1>3, <2>1, <2>3 DEF SkipEntry, Job
<1>4. CASE BeginRemoval
  <2>1. importing \in Job
    BY <1>4 DEF BeginRemoval, TypeOK
  <2>. DEFINE listed == {i \in Live :
                           /\ Folded(tools[i].server) = Folded(importing.server)
                           /\ Folded(tools[i].name) \notin importing.seen}
  <2>2. listed \in SUBSET Ids
    BY DEF Live
  <2>3. importing' = [importing EXCEPT !.phase = "removal", !.doomed = listed]
    BY <1>4 DEF BeginRemoval
  <2>. HIDE DEF listed
  <2>. QED
    BY <2>1, <2>2, <2>3 DEF Job
<1>5. CASE RemoveTool
  <2>1. importing \in Job
    BY <1>5 DEF RemoveTool, AtRemoval, TypeOK
  <2>2. PICK i \in importing.doomed :
            importing' = [importing EXCEPT !.doomed = @ \ {i}]
    BY <1>5 DEF RemoveTool
  <2>. QED
    BY <2>1, <2>2 DEF Job
<1>6. CASE FinishImport \/ AbortImport \/ Crash
  BY <1>6 DEF FinishImport, AbortImport, Crash
<1>7. ASSUME NEW c \in Callers,
             \/ CreateTool(c) \/ UpdateTool(c) \/ DeleteTool(c)
             \/ UiRegisterTool(c) \/ UiDeleteTool(c)
             \/ RecordAudit(c) \/ Render(c) \/ EditIntent(c)
             \/ UiBindWrite(c) \/ AnswerRouting(c)
             \/ \E i \in Intents : UiBindRead(c, i) \/ BeginRouting(c, i)
      PROVE  importing' = importing
  BY <1>7 DEF CreateTool, UpdateTool, DeleteTool, UiRegisterTool, UiDeleteTool,
              Changed, RecordAudit, Render, EditIntent, UiBindWrite, AnswerRouting,
              UiBindRead, BeginRouting
<1>8. CASE UNCHANGED vars
  BY <1>8 DEF vars, TypeOK
<1>. QED
  BY <1>1, <1>2, <1>3, <1>4, <1>5, <1>6, <1>7, <1>8 DEF Next, TypeOK

\* The requests, the bindings and the count of failures keep theirs.
LEMMA RequestsStayTyped ==
    ASSUME TypeOK, [Next]_vars
    PROVE  /\ intents' \in [Intents -> ToolRef]
           /\ request' \in [Callers -> Request]
           /\ faults' \in 0..MaxFaults
<1>. USE DEF TypeOK
<1>1. Idle \in Request /\ Recording \in Request /\ Rendering \in Request
  BY DEF Request
<1>2. ASSUME NEW c \in Callers,
             \/ CreateTool(c) \/ UpdateTool(c) \/ DeleteTool(c)
             \/ UiRegisterTool(c) \/ UiDeleteTool(c)
      PROVE  /\ request' \in [Callers -> Request]
             /\ UNCHANGED <<intents, faults>>
  BY <1>1, <1>2 DEF CreateTool, UpdateTool, DeleteTool, UiRegisterTool, UiDeleteTool,
                    Changed
<1>3. ASSUME NEW c \in Callers, RecordAudit(c) \/ Render(c) \/ AnswerRouting(c)
      PROVE  /\ request' \in [Callers -> Request]
             /\ UNCHANGED <<intents, faults>>
  BY <1>1, <1>3 DEF RecordAudit, Render, AnswerRouting
<1>4. ASSUME NEW c \in Callers, EditIntent(c)
      PROVE  /\ intents' \in [Intents -> ToolRef]
             /\ UNCHANGED <<request, faults>>
  BY <1>4 DEF EditIntent
<1>5. ASSUME NEW c \in Callers, UiBindWrite(c)
      PROVE  /\ intents' \in [Intents -> ToolRef]
             /\ request' \in [Callers -> Request]
             /\ UNCHANGED faults
  <2>1. request[c].at = "binding" /\ request[c] \in Request
    BY <1>5 DEF UiBindWrite
  <2>2. request[c] \in [at : {"binding", "routing"}, intent : Intents, copy : ToolRef]
    BY <2>1 DEF Request, Idle, Recording, Rendering
  <2>3. request[c].copy.label \in Labels
    BY <2>2 DEF ToolRef
  <2>4. PICK binding \in Bindings :
            intents' = [intents EXCEPT ![request[c].intent] =
                          [label |-> request[c].copy.label, binding |-> binding]]
    BY <1>5 DEF UiBindWrite
  <2>5. intents' \in [Intents -> ToolRef]
    BY <2>3, <2>4 DEF ToolRef
  <2>. QED
    BY <1>1, <1>5, <2>5 DEF UiBindWrite
<1>6. ASSUME NEW c \in Callers, NEW i \in Intents, UiBindRead(c, i) \/ BeginRouting(c, i)
      PROVE  /\ request' \in [Callers -> Request]
             /\ UNCHANGED <<intents, faults>>
  <2>1. \A at \in {"binding", "routing"} :
            [at |-> at, intent |-> i, copy |-> intents[i]] \in Request
    BY DEF Request
  <2>. QED
    BY <1>6, <2>1 DEF UiBindRead, BeginRouting
<1>7. ASSUME NEW c \in Callers, BeginImport(c)
      PROVE  UNCHANGED <<intents, request, faults>>
  BY <1>7 DEF BeginImport
<1>8. CASE ImportEntry \/ BeginRemoval \/ RemoveTool
  BY <1>8 DEF ImportEntry, BeginRemoval, RemoveTool
<1>9. CASE SkipEntry \/ AbortImport
  BY <1>9, FaultAssumption DEF SkipEntry, AbortImport
<1>10. CASE FinishImport
  <2>1. /\ UNCHANGED <<intents, faults>>
        /\ \E door \in Doors :
             request' = [request EXCEPT ![importing.caller] =
                           IF door = "api" THEN Recording ELSE Rendering]
    BY <1>10 DEF FinishImport
  <2>. QED
    BY <1>1, <2>1
<1>11. CASE Crash
  BY <1>1, <1>11, FaultAssumption DEF Crash
<1>12. CASE UNCHANGED vars
  BY <1>12 DEF vars
<1>. QED
  BY <1>2, <1>3, <1>4, <1>5, <1>6, <1>7, <1>8, <1>9, <1>10, <1>11, <1>12 DEF Next

-----------------------------------------------------------------------------
(* Keys.                                                                   *)

\* A step of any of the four kinds leaves keys unique.
LEMMA KeysStayUnique ==
    ASSUME TypeOK, UniqueKeys, Adds \/ Changes \/ Drops \/ Same
    PROVE  UniqueKeys'
<1>. USE DEF TypeOK, UniqueKeys, Live, KeyOf
<1>1. CASE Adds
  BY <1>1 DEF Adds
<1>2. CASE Changes
  BY <1>2 DEF Changes
<1>3. CASE Drops
  BY <1>3 DEF Drops
<1>4. CASE Same
  BY <1>4 DEF Same
<1>. QED
  BY <1>1, <1>2, <1>3, <1>4

-----------------------------------------------------------------------------
(* The invariant, and the theorems.                                        *)

Inv == TypeOK /\ UniqueKeys

LEMMA Initially == Init => Inv
<1>1. Init => Live = {}
  BY DEF Init, Live
<1>. QED
  BY <1>1, InitTypes DEF Inv, UniqueKeys

LEMMA Inductive == Inv /\ [Next]_vars => Inv'
<1>. SUFFICES ASSUME Inv, [Next]_vars PROVE Inv'
  OBVIOUS
<1>1. TypeOK /\ UniqueKeys
  BY DEF Inv
<1>2. Adds \/ Changes \/ Drops \/ Same
  BY <1>1, StepKinds
<1>3. StoreTyped
  BY <1>1 DEF TypeOK, StoreTyped
<1>4. StoreTyped'
  BY <1>2, <1>3, StoreStaysTyped
<1>5. TypeOK'
  BY <1>1, <1>4, ImportStaysTyped, RequestsStayTyped DEF TypeOK, StoreTyped
<1>6. UniqueKeys'
  BY <1>1, <1>2, KeysStayUnique
<1>. QED
  BY <1>5, <1>6 DEF Inv

LEMMA Always == Spec => []Inv
<1>1. Init => Inv
  BY Initially
<1>2. Inv /\ [Next]_vars => Inv'
  BY Inductive
<1>. QED
  BY <1>1, <1>2, PTL DEF Spec

\* Tools, bindings, requests and an import in progress are well-formed in every
\* reachable state (McpToolService, api/v1/mcp.py, ui/routes.py).
THEOREM TypeCorrect == Spec => []TypeOK
<1>1. Inv => TypeOK
  BY DEF Inv
<1>. QED
  BY <1>1, Always, PTL

\* No two stored tools ever share a server and a name, case folded, although
\* Chroma has no constraint to say so (McpToolService.create, update,
\* import_tools).
THEOREM KeysUnique == Spec => []UniqueKeys
<1>1. Inv => UniqueKeys
  BY DEF Inv
<1>. QED
  BY <1>1, Always, PTL

-----------------------------------------------------------------------------
(* The refinement: the registry implements ToolDirectory.                  *)

Listing == {EntryOf(i) : i \in Live}

LEMMA Entries ==
    ASSUME NEW tool \in Tool, NEW i \in Ids
    PROVE  /\ KeyOf(tool) \in AllKeys
           /\ [status |-> tool.status, schema |-> tool.schema] \in AllBodies
           /\ [id |-> i, key |-> KeyOf(tool),
               body |-> [status |-> tool.status, schema |-> tool.schema]]
                \in Directory!Entry
<1>1. /\ tool.server \in Servers /\ tool.name \in Names
      /\ tool.status \in {"active", "disabled"} /\ tool.schema \in Schemas
  BY DEF Tool
<1>2. KeyOf(tool) \in AllKeys
  BY <1>1 DEF KeyOf, AllKeys
<1>3. [status |-> tool.status, schema |-> tool.schema] \in AllBodies
  BY <1>1 DEF AllBodies
<1>. QED
  BY <1>2, <1>3 DEF Directory!Entry

\* An empty registry is an empty directory.
LEMMA InitMaps == Init => Directory!Init
<1>. SUFFICES ASSUME Init PROVE Directory!Init
  OBVIOUS
<1>1. Live = {}
  BY DEF Init, Live
<1>. QED
  BY <1>1 DEF Init, Directory!Init

\* A tool that is added registers its entry.
LEMMA AddsRegisters ==
    ASSUME StoreTyped, Adds
    PROVE  \E e \in Directory!Entry : Directory!Register(e)
<1>1. PICK i \in Ids \ issued, tool \in Tool :
          /\ tools' = [tools EXCEPT ![i] = tool]
          /\ issued' = issued \cup {i}
          /\ \A j \in Live : KeyOf(tools[j]) # KeyOf(tool)
  BY DEF Adds
<1>. DEFINE e == [id |-> i, key |-> KeyOf(tool),
                  body |-> [status |-> tool.status, schema |-> tool.schema]]
<1>2. e \in Directory!Entry
  BY Entries
<1>3. tool # Nil
  BY ToolsAreNotNil
<1>4. Live' = Live \cup {i} /\ i \notin Live
  BY <1>1, <1>3 DEF StoreTyped, Live
<1>5. tools'[i] = tool /\ \A j \in Live : tools'[j] = tools[j]
  BY <1>1, <1>4 DEF StoreTyped, Live
<1>6. EntryOf(i)' = e /\ \A j \in Live : EntryOf(j)' = EntryOf(j)
  BY <1>5 DEF EntryOf, KeyOf
<1>7. Listing' = Listing \cup {e}
  <2>1. Listing' = {EntryOf(j)' : j \in Live'}
    BY DEF Listing
  <2>. QED
    BY <1>4, <1>6, <2>1 DEF Listing
<1>8. \A d \in Listing : d.key # e.key
  BY <1>1 DEF Listing, EntryOf
<1>. HIDE DEF e
<1>9. e.id = i
  BY DEF e
<1>10. Directory!Register(e)
  BY <1>1, <1>7, <1>8, <1>9 DEF Directory!Register, Listing
<1>. QED
  BY <1>2, <1>10

\* A tool that changes revises its entry.
LEMMA ChangesRevises ==
    ASSUME StoreTyped, Changes
    PROVE  \E d \in Listing, e \in Directory!Entry : Directory!Revise(d, e)
<1>1. PICK i \in Live, tool \in Tool :
          /\ tools' = [tools EXCEPT ![i] = tool]
          /\ issued' = issued
          /\ \A j \in Live \ {i} : KeyOf(tools[j]) # KeyOf(tool)
  BY DEF Changes
<1>. DEFINE d == EntryOf(i)
            e == [id |-> i, key |-> KeyOf(tool),
                  body |-> [status |-> tool.status, schema |-> tool.schema]]
<1>2. i \in Ids
  BY DEF Live
<1>3. e \in Directory!Entry
  BY <1>2, Entries
<1>4. tool # Nil
  BY ToolsAreNotNil
<1>5. Live' = Live
  BY <1>1, <1>4 DEF StoreTyped, Live
<1>6. tools'[i] = tool /\ \A j \in Live \ {i} : tools'[j] = tools[j]
  BY <1>1 DEF StoreTyped, Live
<1>7. EntryOf(i)' = e /\ \A j \in Live \ {i} : EntryOf(j)' = EntryOf(j)
  BY <1>6 DEF EntryOf, KeyOf
<1>8. \A j \in Live : (EntryOf(j) = d <=> j = i)
  BY DEF EntryOf
<1>9. Listing' = (Listing \ {d}) \cup {e}
  <2>1. Listing' = {EntryOf(j)' : j \in Live}
    BY <1>5 DEF Listing
  <2>. HIDE DEF d, e
  <2>2. \A x : x \in Listing' <=> x = e \/ (x \in Listing /\ x # d)
    BY <1>7, <1>8, <2>1 DEF Listing
  <2>. QED
    BY <2>2
<1>10. \A other \in Listing \ {d} : other.key # e.key
  BY <1>1, <1>8 DEF Listing, EntryOf
<1>11. d \in Listing
  BY DEF Listing
<1>12. e.id = d.id
  BY DEF EntryOf
<1>. HIDE DEF d, e
<1>13. Directory!Revise(d, e)
  BY <1>1, <1>9, <1>10, <1>12 DEF Directory!Revise, Listing
<1>. QED
  BY <1>3, <1>11, <1>13

\* A tool that is dropped takes its entry away, if it was there at all.
LEMMA DropsRemoves ==
    ASSUME StoreTyped, Drops
    PROVE  (\E d \in Listing : Directory!Remove(d)) \/ Same
<1>1. PICK i \in Ids : tools' = [tools EXCEPT ![i] = Nil] /\ issued' = issued
  BY DEF Drops
<1>2. CASE i \notin Live
  <2>1. tools[i] = Nil
    BY <1>2 DEF Live
  <2>. QED
    BY <1>1, <2>1 DEF StoreTyped, Same
<1>3. CASE i \in Live
  <2>. DEFINE d == EntryOf(i)
  <2>1. Live' = Live \ {i}
    BY <1>1 DEF StoreTyped, Live
  <2>2. \A j \in Live \ {i} : tools'[j] = tools[j]
    BY <1>1 DEF StoreTyped, Live
  <2>3. \A j \in Live \ {i} : EntryOf(j)' = EntryOf(j)
    BY <2>2 DEF EntryOf, KeyOf
  <2>4. \A j \in Live : (EntryOf(j) = d <=> j = i)
    BY DEF EntryOf
  <2>5. d \in Listing
    BY <1>3 DEF Listing
  <2>. HIDE DEF d
  <2>6. Listing' = Listing \ {d}
    <3>1. Listing' = {EntryOf(j)' : j \in Live'}
      BY DEF Listing
    <3>2. \A x : x \in Listing' <=> x \in Listing /\ x # d
      BY <2>1, <2>3, <2>4, <3>1 DEF Listing
    <3>. QED
      BY <3>2
  <2>7. Directory!Remove(d)
    BY <1>1, <2>6 DEF Directory!Remove, Listing
  <2>. QED
    BY <2>5, <2>7
<1>. QED
  BY <1>2, <1>3

\* Every step of the registry is a step of the directory, or leaves it alone.
LEMMA StepMaps ==
    ASSUME Inv, [Next]_vars
    PROVE  [Directory!Next]_Directory!vars
<1>1. TypeOK /\ UniqueKeys /\ StoreTyped
  BY DEF Inv, TypeOK, StoreTyped
<1>2. Adds \/ Changes \/ Drops \/ Same
  BY <1>1, StepKinds
<1>3. CASE Adds
  BY <1>1, <1>3, AddsRegisters DEF Directory!Next
<1>4. CASE Changes
  BY <1>1, <1>4, ChangesRevises DEF Directory!Next, Listing
<1>5. CASE Same
  <2>1. Listing' = Listing
    BY <1>5 DEF Same, Listing, Live, EntryOf, KeyOf
  <2>. QED
    BY <1>5, <2>1 DEF Same, Listing, Directory!vars
<1>6. CASE Drops
  BY <1>1, <1>5, <1>6, DropsRemoves DEF Directory!Next, Listing
<1>. QED
  BY <1>2, <1>3, <1>4, <1>5, <1>6

\* The registry implements the directory: an import, cut short anywhere, is a
\* run of registrations, revisions and removals each of which keeps keys unique
\* and identifiers issued once (McpToolService over the mcp_tools collection).
THEOREM RegistryIsDirectory == Spec => DirectorySpec
<1>1. Init => Directory!Init
  BY InitMaps
<1>2. Inv /\ [Next]_vars => [Directory!Next]_Directory!vars
  BY StepMaps
<1>. QED
  BY <1>1, <1>2, Always, PTL DEF Spec, DirectorySpec, Directory!Spec

-----------------------------------------------------------------------------
(* Imports stay within their server.                                       *)

\* A tool an import has yet to remove is one of its server's, and none of the
\* names it has seen.
DoomedUnseen ==
    importing # Nil =>
        \A i \in importing.doomed :
            /\ importing.phase = "removal"
            /\ i \in Live
            /\ Folded(tools[i].server) = Folded(importing.server)
            /\ Folded(tools[i].name) \notin importing.seen

\* While an import holds the lock, only its own steps write a tool.
LEMMA OthersWait ==
    ASSUME importing # Nil, [Next]_vars
    PROVE  \/ ImportEntry
           \/ RemoveTool
           \/ Same /\ (importing' \in {importing, Nil} \/ SkipEntry \/ BeginRemoval)
<1>1. ASSUME NEW c \in Callers
      PROVE  ~(\/ CreateTool(c) \/ UpdateTool(c) \/ DeleteTool(c)
               \/ UiRegisterTool(c) \/ UiDeleteTool(c) \/ BeginImport(c))
  BY DEF CreateTool, UpdateTool, DeleteTool, UiRegisterTool, UiDeleteTool, BeginImport,
         Free, Unlocked
<1>2. ASSUME NEW c \in Callers,
             \/ RecordAudit(c) \/ Render(c) \/ EditIntent(c)
             \/ UiBindWrite(c) \/ AnswerRouting(c)
             \/ \E i \in Intents : UiBindRead(c, i) \/ BeginRouting(c, i)
      PROVE  Same /\ importing' = importing
  BY <1>2 DEF RecordAudit, Render, EditIntent, UiBindWrite, AnswerRouting, UiBindRead,
              BeginRouting, Same
<1>3. ASSUME SkipEntry \/ BeginRemoval
      PROVE  Same
  BY <1>3 DEF SkipEntry, BeginRemoval, Same
<1>4. ASSUME FinishImport \/ AbortImport \/ Crash
      PROVE  Same /\ importing' = Nil
  BY <1>4 DEF FinishImport, AbortImport, Crash, Same
<1>5. CASE UNCHANGED vars
  BY <1>5 DEF vars, Same
<1>. QED
  BY <1>1, <1>2, <1>3, <1>4, <1>5 DEF Next

\* What an entry writes: a new tool, or the known tool of its key.
LEMMA EntryWrites ==
    ASSUME TypeOK, ImportEntry
    PROVE  \A i \in Live : tools'[i] # tools[i] =>
               /\ Folded(tools[i].server) = Folded(importing.server)
               /\ tools'[i] # Nil /\ KeyOf(tools'[i]) = KeyOf(tools[i])
<1>. DEFINE entry == Head(importing.todo)
            known == FindByKey(importing.server, entry.name)
            tool == [server |-> importing.server, name |-> entry.name,
                     schema |-> entry.schema,
                     status |-> IF known = Nil THEN "active" ELSE tools[known].status]
<1>1. /\ importing \in Job
      /\ importing.todo # <<>>
  BY DEF ImportEntry, AtEntry, TypeOK
<1>2. entry \in [name : Names, schema : Schemas] /\ importing.server \in Servers
  BY <1>1, HeadOf DEF Job
<1>3. known # Nil => /\ known \in Live /\ tools[known] \in Tool
                     /\ KeyOf(tools[known]) = Key(importing.server, entry.name)
  BY FindByKeyFinds, LiveTools
<1>4. tool \in Tool
  BY <1>2, <1>3 DEF Tool
<1>5. KeyOf(tool) = Key(importing.server, entry.name)
  BY DEF KeyOf
<1>6. CASE known = Nil
  <2>1. PICK i \in Ids \ issued : tools' = [tools EXCEPT ![i] = tool]
    BY <1>6 DEF ImportEntry, AddTool
  <2>2. i \notin Live
    BY <2>1 DEF TypeOK
  <2>. QED
    BY <2>1, <2>2 DEF TypeOK, Live
<1>7. CASE known # Nil
  <2>1. tools' = [tools EXCEPT ![known] = tool]
    BY <1>7 DEF ImportEntry
  <2>2. tools'[known] = tool /\ tool # Nil
    BY <1>3, <1>4, <1>7, <2>1, ToolsAreNotNil DEF TypeOK, Live
  <2>3. Folded(tools[known].server) = Folded(importing.server)
    BY <1>3, <1>7 DEF KeyOf, Key
  <2>. HIDE DEF tool, known
  <2>. QED
    BY <1>3, <1>5, <1>7, <2>1, <2>2, <2>3 DEF TypeOK, Live
<1>. QED
  BY <1>6, <1>7

\* DoomedUnseen is inductive.
LEMMA DoomedStaysUnseen ==
    ASSUME TypeOK, TypeOK', DoomedUnseen, [Next]_vars
    PROVE  DoomedUnseen'
<1>1. CASE importing = Nil
  <2>1. ASSUME NEW c \in Callers, BeginImport(c)
        PROVE  importing'.doomed = {}
    BY <2>1 DEF BeginImport
  <2>2. importing' = Nil \/ \E c \in Callers : BeginImport(c)
    BY <1>1 DEF Next, vars, CreateTool, UpdateTool, DeleteTool, UiRegisterTool, UiDeleteTool,
                Changed, RecordAudit, Render, EditIntent, UiBindWrite, AnswerRouting,
                UiBindRead, BeginRouting, ImportEntry, AtEntry, SkipEntry, BeginRemoval,
                RemoveTool, AtRemoval, FinishImport, AbortImport, Crash
  <2>. QED
    BY <2>1, <2>2 DEF DoomedUnseen
<1>2. CASE importing # Nil
  <2>1. importing \in Job
    BY <1>2 DEF TypeOK
  <2>2. CASE ImportEntry
    <3>1. importing.doomed = {}
      BY <1>2, <2>2 DEF DoomedUnseen, ImportEntry, AtEntry
    <3>2. importing'.doomed = {}
      BY <2>1, <2>2, <3>1 DEF ImportEntry, Job
    <3>. QED
      BY <3>2 DEF DoomedUnseen
  <2>3. CASE RemoveTool
    <3>1. PICK i \in importing.doomed :
              /\ tools' = [tools EXCEPT ![i] = Nil]
              /\ importing' = [importing EXCEPT !.doomed = @ \ {i}]
      BY <2>3 DEF RemoveTool
    <3>2. /\ importing'.doomed = importing.doomed \ {i}
          /\ importing'.phase = importing.phase /\ importing'.server = importing.server
          /\ importing'.seen = importing.seen
      BY <2>1, <3>1 DEF Job
    <3>3. \A j \in importing'.doomed : j \in Ids /\ tools'[j] = tools[j]
      BY <2>1, <3>1, <3>2 DEF Job, TypeOK
    <3>. QED
      BY <1>2, <3>2, <3>3 DEF DoomedUnseen, Live
  <2>4. CASE SkipEntry
    <3>1. importing.doomed = {}
      BY <1>2, <2>4 DEF DoomedUnseen, SkipEntry, AtEntry
    <3>2. importing'.doomed = {}
      BY <2>1, <2>4, <3>1 DEF SkipEntry, Job
    <3>. QED
      BY <3>2 DEF DoomedUnseen
  <2>5. CASE BeginRemoval
    <3>1. /\ importing'.phase = "removal" /\ importing'.server = importing.server
          /\ importing'.seen = importing.seen
          /\ importing'.doomed = {i \in Live :
                                    /\ Folded(tools[i].server) = Folded(importing.server)
                                    /\ Folded(tools[i].name) \notin importing.seen}
      BY <2>1, <2>5 DEF BeginRemoval, Job
    <3>2. tools' = tools /\ Live' = Live
      BY <2>5 DEF BeginRemoval, Live
    <3>. QED
      BY <3>1, <3>2 DEF DoomedUnseen
  <2>6. CASE Same /\ importing' \in {importing, Nil}
    BY <2>6 DEF Same, DoomedUnseen, Live
  <2>. QED
    BY <1>2, <2>2, <2>3, <2>4, <2>5, <2>6, OthersWait
<1>. QED
  BY <1>1, <1>2

\* A step of the registry, as ImportConfined sees it.
LEMMA StepConfined ==
    ASSUME TypeOK, DoomedUnseen, [Next]_vars, importing # Nil,
           NEW i \in Live, tools'[i] # tools[i]
    PROVE  /\ Folded(tools[i].server) = Folded(importing.server)
           /\ tools'[i] # Nil => KeyOf(tools'[i]) = KeyOf(tools[i])
           /\ tools'[i] = Nil => Folded(tools[i].name) \notin importing.seen
<1>1. CASE ImportEntry
  BY <1>1, EntryWrites
<1>2. CASE RemoveTool
  <2>1. PICK j \in importing.doomed : tools' = [tools EXCEPT ![j] = Nil]
    BY <1>2 DEF RemoveTool
  <2>2. i = j /\ tools'[i] = Nil
    BY <2>1 DEF TypeOK, Live
  <2>. QED
    BY <2>1, <2>2 DEF DoomedUnseen
<1>3. CASE Same
  BY <1>3 DEF Same
<1>. QED
  BY <1>1, <1>2, <1>3, OthersWait

\* While an import runs only its server's tools change, a tool it finds keeps
\* its key, and only a tool whose entry it did not save is removed, whatever
\* other requests are waiting and wherever the import is cut short
\* (McpToolService.import_tools, which holds store.lock throughout).
THEOREM ImportsStayConfined == Spec => ImportConfined
<1>1. Init => DoomedUnseen
  BY DEF Init, DoomedUnseen
<1>2. TypeOK /\ TypeOK' /\ DoomedUnseen /\ [Next]_vars => DoomedUnseen'
  BY DoomedStaysUnseen
<1>3. TypeOK /\ DoomedUnseen /\ [Next]_vars =>
        [importing # Nil =>
            \A i \in Live : tools'[i] # tools[i] =>
                /\ Folded(tools[i].server) = Folded(importing.server)
                /\ tools'[i] # Nil => KeyOf(tools'[i]) = KeyOf(tools[i])
                /\ tools'[i] = Nil => Folded(tools[i].name) \notin importing.seen]_vars
  BY StepConfined
<1>. QED
  BY <1>1, <1>2, <1>3, TypeCorrect, PTL DEF Spec, ImportConfined

-----------------------------------------------------------------------------
(* Taking a reference apart.                                               *)

\* A set of naturals has a least member.
LEMMA LeastNat ==
    ASSUME NEW T, T \subseteq Nat, T # {}
    PROVE  \E x \in T : \A y \in T : x <= y
<1> DEFINE Less == {p \in Nat \X Nat : p[1] < p[2]}
<1>1. IsWellFoundedOn(Less, Nat)
  BY NatLessThanWellFounded DEF OpToRel
<1>2. PICK x \in T : \A y \in T : <<y, x>> \notin Less
  BY <1>1, WFMin
<1>3. \A y \in T : ~(y < x)
  <2> SUFFICES ASSUME NEW y \in T PROVE ~(y < x)
    OBVIOUS
  <2>1. <<y, x>> \in Nat \X Nat /\ <<y, x>> \notin Less
    BY <1>2
  <2>. QED
    BY <2>1
<1>. QED
  BY <1>3

Holds(token, text) == \E k \in DOMAIN text : text[k] = token

\* str.partition and str.split(.., 1) cut at one place at most.
LEMMA OnePlace ==
    ASSUME NEW T, NEW text \in Seq(T), NEW first \in Nat, NEW separator,
           NEW k \in FirstPlace(text, first, separator),
           NEW l \in FirstPlace(text, first, separator)
    PROVE  k = l
<1>1. Len(text) \in Nat /\ k \in first .. Len(text) /\ l \in first .. Len(text)
  BY DEF FirstPlace
<1>2. ~(k < l)
  BY <1>1 DEF FirstPlace
<1>3. ~(l < k)
  BY <1>1 DEF FirstPlace
<1>. QED
  BY <1>1, <1>2, <1>3

\* What is found is found by the two sides of that place.
LEMMA FoundThere ==
    \A text, first, separator, k :
        FirstPlace(text, first, separator) = {k} =>
            FindSplit(text, first, separator)
              = FindByKey(SubSeq(text, first, k - 1),
                          SubSeq(text, k + Len(separator), Len(text)))
<1> SUFFICES ASSUME NEW text, NEW first, NEW separator, NEW k,
                    FirstPlace(text, first, separator) = {k}
             PROVE  FindSplit(text, first, separator)
                      = FindByKey(SubSeq(text, first, k - 1),
                                  SubSeq(text, k + Len(separator), Len(text)))
  OBVIOUS
<1> DEFINE Found(p) == FindByKey(SubSeq(text, first, p - 1),
                                 SubSeq(text, p + Len(separator), Len(text)))
<1>1. FindSplit(text, first, separator) =
        LET found == {Found(p) : p \in {k}}
        IN  IF found = {} THEN Nil ELSE CHOOSE i \in found : TRUE
  BY DEF FindSplit
<1>2. {Found(p) : p \in {k}} = {Found(k)}
  <2> HIDE DEF Found
  <2>. QED
    OBVIOUS
<1>3. FindSplit(text, first, separator) = Found(k)
  <2> HIDE DEF Found
  <2>. QED
    BY <1>1, <1>2
<1>. QED
  BY <1>3

LEMMA FoundNowhere ==
    ASSUME NEW text, NEW first, NEW separator,
           \A k \in FirstPlace(text, first, separator) :
               FindByKey(SubSeq(text, first, k - 1),
                         SubSeq(text, k + Len(separator), Len(text))) = Nil
    PROVE  FindSplit(text, first, separator) = Nil
<1> DEFINE found == {FindByKey(SubSeq(text, first, k - 1),
                               SubSeq(text, k + Len(separator), Len(text))) :
                       k \in FirstPlace(text, first, separator)}
<1>1. \A i \in found : i = Nil
  OBVIOUS
<1>2. FindSplit(text, first, separator) =
        IF found = {} THEN Nil ELSE CHOOSE i \in found : TRUE
  BY DEF FindSplit
<1> HIDE DEF found
<1>. QED
  BY <1>1, <1>2

\* A separator of one token stands where the token does.
LEMMA StandsAlone ==
    ASSUME NEW T, NEW text \in Seq(T), NEW token, NEW k \in 1 .. Len(text)
    PROVE  StandsAt(<<token>>, text, k) <=> text[k] = token
<1>1. Len(<<token>>) = 1 /\ DOMAIN <<token>> = {1} /\ <<token>>[1] = token
  OBVIOUS
<1>2. k + 1 <= Len(text) + 1 /\ k + 1 - 1 = k
  OBVIOUS
<1> DEFINE separator == <<token>>
<1>3. StandsAt(separator, text, k) <=> \A j \in {1} : text[k + j - 1] = separator[j]
  <2> HIDE DEF separator
  <2>1. Len(separator) = 1 /\ DOMAIN separator = {1}
    BY <1>1 DEF separator
  <2>. QED
    BY <1>2, <2>1 DEF StandsAt
<1>4. separator[1] = token
  BY <1>1
<1> HIDE DEF separator
<1>5. StandsAt(separator, text, k) <=> text[k] = token
  BY <1>2, <1>3, <1>4
<1>. QED
  BY <1>5 DEF separator

LEMMA TokenPlace ==
    ASSUME NEW T, NEW text \in Seq(T), NEW token, NEW k \in FirstPlace(text, 1, <<token>>)
    PROVE  k \in 1 .. Len(text) /\ text[k] = token
<1>1. k \in 1 .. Len(text) /\ StandsAt(<<token>>, text, k)
  BY DEF FirstPlace
<1>. QED
  BY <1>1, StandsAlone

\* A token a text does not hold leads nowhere.
LEMMA NotHeld ==
    ASSUME NEW T, NEW text \in Seq(T), NEW token, ~Holds(token, text)
    PROVE  /\ FirstPlace(text, 1, <<token>>) = {}
           /\ FindSplit(text, 1, <<token>>) = Nil
<1>1. FirstPlace(text, 1, <<token>>) = {}
  BY TokenPlace DEF Holds
<1>. QED
  BY <1>1, FoundNowhere

\* The two sides of a token.
LEMMA Sides ==
    ASSUME NEW T, NEW text \in Seq(T), NEW k \in 1 .. Len(text)
    PROVE  LET left == SubSeq(text, 1, k - 1)
               right == SubSeq(text, k + 1, Len(text))
           IN  /\ left \in Seq(T) /\ Len(left) = k - 1
               /\ \A j \in 1 .. (k - 1) : left[j] = text[j]
               /\ right \in Seq(T) /\ Len(right) = Len(text) - k
               /\ \A j \in 1 .. (Len(text) - k) : right[j] = text[k + j]
<1>1. Len(text) \in Nat /\ k \in Nat
  OBVIOUS
<1>2. \A j \in 1 .. (k - 1) : j \in 1 .. Len(text)
  BY <1>1
<1>3. \A j \in (k + 1) .. Len(text) : j \in 1 .. Len(text)
  BY <1>1
<1>. QED
  BY <1>1, <1>2, <1>3, SubSeqProperties

\* A name, or a reference, is a sequence of tokens.
LEMMA Spelled ==
    /\ \A name \in Servers \cup Names : name \in Seq(DOMAIN Fold)
    /\ \A text \in Bindings \ {Nil} : text \in Seq(DOMAIN Fold)
BY SpellingAssumption

LEMMA Concatenated ==
    ASSUME NEW T, NEW s \in Seq(T), NEW t \in Seq(T)
    PROVE  /\ s \o t \in Seq(T) /\ Len(s \o t) = Len(s) + Len(t)
           /\ \A j \in 1 .. Len(s) : (s \o t)[j] = s[j]
           /\ \A j \in 1 .. Len(t) : (s \o t)[Len(s) + j] = t[j]
OBVIOUS

\* A server and a name joined by a separator, whatever stands before them.
LEMMA Joined ==
    ASSUME NEW T, NEW lead \in Seq(T), NEW server \in Seq(T), NEW separator \in Seq(T),
           NEW name \in Seq(T), NEW text, text = lead \o server \o separator \o name
    PROVE  /\ text \in Seq(T)
           /\ Len(text) = Len(lead) + Len(server) + Len(separator) + Len(name)
           /\ \A j \in 1 .. Len(lead) : text[j] = lead[j]
           /\ \A j \in 1 .. Len(server) : text[Len(lead) + j] = server[j]
           /\ \A j \in 1 .. Len(separator) : text[Len(lead) + Len(server) + j] = separator[j]
           /\ \A j \in 1 .. Len(name) :
                 text[Len(lead) + Len(server) + Len(separator) + j] = name[j]
<1> DEFINE one == lead \o server
           two == one \o separator
<1>text. text = two \o name
  OBVIOUS
<1>1. /\ one \in Seq(T) /\ Len(one) = Len(lead) + Len(server)
      /\ \A j \in 1 .. Len(lead) : one[j] = lead[j]
      /\ \A j \in 1 .. Len(server) : one[Len(lead) + j] = server[j]
  BY Concatenated
<1>2. Len(lead) \in Nat /\ Len(server) \in Nat /\ Len(separator) \in Nat /\ Len(name) \in Nat
  OBVIOUS
<1> HIDE DEF one
<1>3. /\ two \in Seq(T) /\ Len(two) = Len(one) + Len(separator)
      /\ \A j \in 1 .. Len(one) : two[j] = one[j]
      /\ \A j \in 1 .. Len(separator) : two[Len(one) + j] = separator[j]
  <2>1. one \in Seq(T)
    BY <1>1
  <2>. QED
    BY <2>1, Concatenated
<1> HIDE DEF two
<1>4. /\ text \in Seq(T) /\ Len(text) = Len(two) + Len(name)
      /\ \A j \in 1 .. Len(two) : text[j] = two[j]
      /\ \A j \in 1 .. Len(name) : text[Len(two) + j] = name[j]
  <2>1. two \in Seq(T)
    BY <1>3
  <2>. QED
    BY <1>text, <2>1, Concatenated
<1>5. \A j \in 1 .. Len(lead) : text[j] = lead[j]
  <2> TAKE j \in 1 .. Len(lead)
  <2>1. j \in 1 .. Len(one) /\ j \in 1 .. Len(two)
    BY <1>1, <1>2, <1>3
  <2>. QED
    BY <1>1, <1>3, <1>4, <2>1
<1>6. \A j \in 1 .. Len(server) : text[Len(lead) + j] = server[j]
  <2> TAKE j \in 1 .. Len(server)
  <2>1. Len(lead) + j \in 1 .. Len(one) /\ Len(lead) + j \in 1 .. Len(two)
    BY <1>1, <1>2, <1>3
  <2>. QED
    BY <1>1, <1>3, <1>4, <2>1
<1>7. \A j \in 1 .. Len(separator) : text[Len(lead) + Len(server) + j] = separator[j]
  <2> TAKE j \in 1 .. Len(separator)
  <2>1. Len(one) + j \in 1 .. Len(two)
    BY <1>1, <1>2, <1>3
  <2>. QED
    BY <1>1, <1>3, <1>4, <2>1
<1>. QED
  BY <1>1, <1>3, <1>4, <1>5, <1>6, <1>7 DEF two, one

\* Where a separator first stands after its server, the two names it joins come
\* apart as they were.
LEMMA SplitAt ==
    ASSUME NEW T, NEW lead \in Seq(T), NEW server \in Seq(T), NEW separator \in Seq(T),
           NEW name \in Seq(T), Len(separator) > 0,
           \A j \in 1 .. Len(server) : ~StandsAt(separator, server \o separator, j)
    PROVE  LET text == lead \o server \o separator \o name
               first == Len(lead) + 1
           IN  /\ FirstPlace(text, first, separator) = {Len(lead) + Len(server) + 1}
               /\ FindSplit(text, first, separator) = FindByKey(server, name)
<1> DEFINE text == lead \o server \o separator \o name
           joined == server \o separator
           a == Len(lead)
           b == Len(server)
           s == Len(separator)
           n == Len(name)
           k == a + b + 1
<1>text. text = lead \o server \o separator \o name
  OBVIOUS
<1> HIDE DEF text
<1>1. /\ text \in Seq(T) /\ Len(text) = a + b + s + n
      /\ \A j \in 1 .. b : text[a + j] = server[j]
      /\ \A j \in 1 .. s : text[a + b + j] = separator[j]
      /\ \A j \in 1 .. n : text[a + b + s + j] = name[j]
  BY <1>text, Joined
<1>2. /\ joined \in Seq(T) /\ Len(joined) = b + s
      /\ \A j \in 1 .. b : joined[j] = server[j]
      /\ \A j \in 1 .. s : joined[b + j] = separator[j]
  BY Concatenated
<1>3. a \in Nat /\ b \in Nat /\ s \in Nat /\ n \in Nat /\ s > 0 /\ DOMAIN separator = 1 .. s
  OBVIOUS
<1>4. \A j \in 1 .. b : ~StandsAt(separator, joined, j)
  OBVIOUS
<1>lengths. Len(separator) = s /\ Len(server) = b /\ Len(name) = n /\ Len(lead) = a
  OBVIOUS
<1> HIDE DEF joined, a, b, s, n
<1>5. \A j \in 1 .. (b + s) : text[a + j] = joined[j]
  <2> TAKE j \in 1 .. (b + s)
  <2>1. CASE j <= b
    BY <1>1, <1>2, <1>3, <2>1
  <2>2. CASE j > b
    <3>1. (j - b) \in 1 .. s /\ b + (j - b) = j /\ a + b + (j - b) = a + j
      BY <1>3, <2>2
    <3>. QED
      BY <1>1, <1>2, <3>1
  <2>. QED
    BY <1>3, <2>1, <2>2
<1>6. StandsAt(separator, text, k)
  <2>1. k + s <= Len(text) + 1
    BY <1>1, <1>3
  <2>2. \A j \in 1 .. s : text[k + j - 1] = separator[j]
    <3> TAKE j \in 1 .. s
    <3>1. k + j - 1 = a + b + j
      BY <1>3
    <3>. QED
      BY <1>1, <3>1
  <2>. QED
    BY <1>lengths, <1>3, <2>1, <2>2 DEF StandsAt
<1>7. ASSUME NEW j \in 1 .. b PROVE ~StandsAt(separator, text, a + j)
  <2> SUFFICES ASSUME StandsAt(separator, text, a + j)
               PROVE  StandsAt(separator, joined, j)
    BY <1>4
  <2>1. j + s <= Len(joined) + 1
    BY <1>2, <1>3
  <2>2. \A i \in 1 .. s : joined[j + i - 1] = separator[i]
    <3> TAKE i \in 1 .. s
    <3>1. (j + i - 1) \in 1 .. (b + s) /\ a + (j + i - 1) = (a + j) + i - 1
      BY <1>3
    <3>2. text[(a + j) + i - 1] = separator[i]
      BY <1>3 DEF StandsAt
    <3>. QED
      BY <1>5, <3>1, <3>2
  <2>. QED
    BY <1>lengths, <1>3, <2>1, <2>2 DEF StandsAt
<1>8. FirstPlace(text, a + 1, separator) = {k}
  <2>1. k \in (a + 1) .. Len(text)
    BY <1>1, <1>3
  <2>2. \A p \in (a + 1) .. (k - 1) : ~StandsAt(separator, text, p)
    <3> TAKE p \in (a + 1) .. (k - 1)
    <3>1. (p - a) \in 1 .. b /\ a + (p - a) = p
      BY <1>3
    <3>. QED
      BY <1>7, <3>1
  <2>3. k \in FirstPlace(text, a + 1, separator)
    BY <1>6, <2>1, <2>2 DEF FirstPlace
  <2>4. a + 1 \in Nat
    BY <1>3
  <2>. HIDE DEF k
  <2>. QED
    BY <1>1, <2>3, <2>4, OnePlace
<1>9. SubSeq(text, a + 1, k - 1) = server
  <2>1. \A j \in (a + 1) .. (k - 1) : text[j] \in T
    <3>1. \A j \in (a + 1) .. (k - 1) : j \in 1 .. Len(text)
      BY <1>1, <1>3
    <3>. QED
      BY <1>1, <3>1
  <2>2. a + 1 \in Int /\ k - 1 \in Int /\ (k - 1) - (a + 1) + 1 = b
        /\ (a + 1 <= k - 1 \/ b = 0)
    BY <1>3
  <2> DEFINE left == SubSeq(text, a + 1, k - 1)
  <2>3. /\ left \in Seq(T)
        /\ Len(left) = IF a + 1 <= k - 1 THEN (k - 1) - (a + 1) + 1 ELSE 0
        /\ \A j \in 1 .. ((k - 1) - (a + 1) + 1) : left[j] = text[(a + 1) + j - 1]
    BY <2>1, <2>2, SubSeqProperties
  <2> HIDE DEF left
  <2>4. Len(left) = b
    BY <2>2, <2>3
  <2>5. \A j \in 1 .. b : left[j] = server[j]
    <3> TAKE j \in 1 .. b
    <3>1. (a + 1) + j - 1 = a + j
      BY <1>3
    <3>. QED
      BY <1>1, <2>2, <2>3, <3>1
  <2>6. left = server
    BY <1>lengths, <2>3, <2>4, <2>5, SeqEqual
  <2>. QED
    BY <2>6 DEF left
<1>10. SubSeq(text, k + s, Len(text)) = name
  <2> DEFINE m == k + s
             l == Len(text)
             right == SubSeq(text, m, l)
  <2>1. \A j \in m .. l : text[j] \in T
    <3>1. \A j \in m .. l : j \in 1 .. Len(text)
      BY <1>1, <1>3
    <3>. QED
      BY <1>1, <3>1
  <2>2. m \in Int /\ l \in Int /\ l - m + 1 = n /\ (m <= l \/ n = 0)
    BY <1>1, <1>3
  <2>3. \A j \in 1 .. n : m + j - 1 = a + b + s + j
    BY <1>3
  <2> HIDE DEF m, l
  <2>4. /\ right \in Seq(T)
        /\ Len(right) = IF m <= l THEN l - m + 1 ELSE 0
        /\ \A j \in 1 .. (l - m + 1) : right[j] = text[m + j - 1]
    BY <2>1, <2>2, SubSeqProperties
  <2> HIDE DEF right
  <2>5. Len(right) = n
    BY <2>2, <2>4
  <2>6. \A j \in 1 .. n : right[j] = name[j]
    BY <1>1, <2>2, <2>3, <2>4
  <2>7. right = name
    BY <1>lengths, <2>4, <2>5, <2>6, SeqEqual
  <2>. QED
    BY <2>7 DEF right, m, l
<1>11. FindSplit(text, a + 1, separator) = FindByKey(server, name)
  BY <1>lengths, <1>8, <1>9, <1>10, FoundThere
<1>. QED
  BY <1>8, <1>11 DEF text, a, b, k

\* Tools are told apart by their key.
LEMMA FoundByKey ==
    ASSUME UniqueKeys, NEW i \in Live, NEW server, NEW name,
           KeyOf(tools[i]) = Key(server, name)
    PROVE  FindByKey(server, name) = i
BY FindByKeyFinds DEF UniqueKeys

\* The store keeps names, and no name holds "::" or "/".
LEMMA StoredSpelling ==
    ASSUME TypeOK, NEW i \in Live, NEW server, NEW name,
           KeyOf(tools[i]) = Key(server, name)
    PROVE  \A separator \in {"::", "/"} : ~Holds(separator, server) /\ ~Holds(separator, name)
<1>1. tools[i].server \in Servers /\ tools[i].name \in Names
  BY LiveTools DEF Tool
<1>2. Folded(tools[i].server) = Folded(server) /\ Folded(tools[i].name) = Folded(name)
  BY DEF KeyOf, Key
<1>3. ASSUME NEW stored \in Servers \cup Names, NEW text, Folded(stored) = Folded(text),
             NEW separator \in {"::", "/"}, NEW k \in DOMAIN text, text[k] = separator
      PROVE  FALSE
  <2>1. DOMAIN stored = DOMAIN text /\ Fold[stored[k]] = Fold[text[k]]
    <3>1. DOMAIN Folded(stored) = DOMAIN stored /\ DOMAIN Folded(text) = DOMAIN text
      BY DEF Folded
    <3>2. DOMAIN stored = DOMAIN text
      BY <1>3, <3>1
    <3>3. Folded(stored)[k] = Fold[stored[k]] /\ Folded(text)[k] = Fold[text[k]]
      BY <1>3, <3>2 DEF Folded
    <3>. QED
      BY <1>3, <3>2, <3>3
  <2>2. Fold[separator] = separator
    BY <1>3, SpellingAssumption
  <2>3. Fold[stored[k]] \notin {"::", "/"}
    BY <1>3, <2>1, SpellingAssumption
  <2>. QED
    BY <1>3, <2>1, <2>2, <2>3
<1>. QED
  BY <1>1, <1>2, <1>3 DEF Holds

\* A text with "::" or "/" in it leads nowhere when it is split at another
\* separator.
LEMMA OtherSplits ==
    ASSUME TypeOK, NEW text \in Seq(DOMAIN Fold),
           NEW inside \in {"::", "/"}, Holds(inside, text),
           NEW separator \in {"::", "/", "."}, separator # inside
    PROVE  FindSplit(text, 1, <<separator>>) = Nil
<1>1. PICK j \in 1 .. Len(text) : text[j] = inside
  BY DEF Holds
<1>2. Len(text) \in Nat /\ Len(<<separator>>) = 1
  OBVIOUS
<1>3. ASSUME NEW k \in FirstPlace(text, 1, <<separator>>)
      PROVE  FindByKey(SubSeq(text, 1, k - 1), SubSeq(text, k + 1, Len(text))) = Nil
  <2> DEFINE left == SubSeq(text, 1, k - 1)
             right == SubSeq(text, k + 1, Len(text))
  <2>1. k \in 1 .. Len(text) /\ text[k] = separator
    BY TokenPlace
  <2>2. j # k
    BY <1>1, <2>1
  <2>3. /\ left \in Seq(DOMAIN Fold) /\ Len(left) = k - 1
        /\ \A l \in 1 .. (k - 1) : left[l] = text[l]
        /\ right \in Seq(DOMAIN Fold) /\ Len(right) = Len(text) - k
        /\ \A l \in 1 .. (Len(text) - k) : right[l] = text[k + l]
    BY <2>1, Sides
  <2> HIDE DEF left, right
  <2>4. ASSUME j < k PROVE Holds(inside, left)
    <3>1. j \in 1 .. (k - 1)
      BY <1>1, <1>2, <2>1, <2>4
    <3>2. j \in DOMAIN left /\ left[j] = inside
      BY <1>1, <2>3, <3>1
    <3>. QED
      BY <3>2 DEF Holds
  <2>5. ASSUME k < j PROVE Holds(inside, right)
    <3>1. (j - k) \in 1 .. (Len(text) - k) /\ k + (j - k) = j
      BY <1>1, <1>2, <2>1, <2>5
    <3>2. (j - k) \in DOMAIN right /\ right[j - k] = inside
      BY <1>1, <2>3, <3>1
    <3>. QED
      BY <3>2 DEF Holds
  <2>6. Holds(inside, left) \/ Holds(inside, right)
    BY <1>1, <1>2, <2>1, <2>2, <2>4, <2>5
  <2>7. FindByKey(left, right) = Nil
    BY <2>6, FindByKeyFinds, StoredSpelling
  <2>. QED
    BY <2>7 DEF left, right
<1>. QED
  BY <1>2, <1>3, FoundNowhere

\* The separator a reference is split at, when it is no qualified name.
Separator(text) ==
    IF Holds("::", text) THEN "::" ELSE IF Holds("/", text) THEN "/" ELSE "."

\* One separator at most leads anywhere, so that their order never matters.
LEMMA OneSplit ==
    ASSUME TypeOK, NEW text \in Seq(DOMAIN Fold)
    PROVE  LET found == {s \in {"::", "/", "."} : FindSplit(text, 1, <<s>>) # Nil}
           IN  (IF "::" \in found THEN FindSplit(text, 1, <<"::">>)
                ELSE IF "/" \in found THEN FindSplit(text, 1, <<"/">>)
                ELSE FindSplit(text, 1, <<".">>))
               = FindSplit(text, 1, <<Separator(text)>>)
<1>1. \A s \in {"::", "/", "."} : ~Holds(s, text) => FindSplit(text, 1, <<s>>) = Nil
  BY NotHeld
<1>2. CASE Holds("::", text)
  <2>1. FindSplit(text, 1, <<"/">>) = Nil /\ FindSplit(text, 1, <<".">>) = Nil
    BY <1>2, OtherSplits
  <2>. QED
    BY <1>2, <2>1 DEF Separator
<1>3. CASE ~Holds("::", text) /\ Holds("/", text)
  <2>1. FindSplit(text, 1, <<"::">>) = Nil /\ FindSplit(text, 1, <<".">>) = Nil
    BY <1>1, <1>3, OtherSplits
  <2>. QED
    BY <1>3, <2>1 DEF Separator
<1>4. CASE ~Holds("::", text) /\ ~Holds("/", text)
  <2>1. FindSplit(text, 1, <<"::">>) = Nil /\ FindSplit(text, 1, <<"/">>) = Nil
    BY <1>1, <1>4
  <2>. QED
    BY <1>4, <2>1 DEF Separator
<1>. QED
  BY <1>2, <1>3, <1>4

LEMMA PrefixStands ==
    ASSUME NEW T, NEW text \in Seq(T)
    PROVE  StandsAt(Prefix, text, 1) <=>
              Len(text) >= 3 /\ text[1] = "mcp" /\ text[2] = Underscore /\ text[3] = Underscore
<1>1. /\ Len(Prefix) = 3 /\ DOMAIN Prefix = {1, 2, 3}
      /\ Prefix[1] = "mcp" /\ Prefix[2] = Underscore /\ Prefix[3] = Underscore
  BY DEF Prefix, Underscores
<1>2. StandsAt(Prefix, text, 1) <=>
        1 + 3 <= Len(text) + 1 /\ \A j \in {1, 2, 3} : text[1 + j - 1] = Prefix[j]
  BY <1>1 DEF StandsAt
<1>3. 1 + 3 <= Len(text) + 1 <=> Len(text) >= 3
  <2>1. \A n \in Nat : 1 + 3 <= n + 1 <=> n >= 3
    OBVIOUS
  <2>2. Len(text) \in Nat
    OBVIOUS
  <2>. QED
    BY <2>1, <2>2, Zenon
<1>4. (\A j \in {1, 2, 3} : text[1 + j - 1] = Prefix[j]) <=>
        text[1] = "mcp" /\ text[2] = Underscore /\ text[3] = Underscore
  <2>1. 1 + 1 - 1 = 1 /\ 1 + 2 - 1 = 2 /\ 1 + 3 - 1 = 3
    OBVIOUS
  <2>. QED
    BY <1>1, <2>1
<1>. QED
  BY <1>2, <1>3, <1>4, Zenon

\* Resolve, its three ways apart.
LEMMA ResolveWays ==
    ASSUME TypeOK, NEW text \in Seq(DOMAIN Fold)
    PROVE  Resolve(text) =
             IF Len(text) = 1 /\ text[1] \in Live THEN text[1]
             ELSE IF Qualified(text) THEN FindSplit(text, 4, Underscores)
             ELSE FindSplit(text, 1, <<Separator(text)>>)
<1>1. ~(Len(text) = 1 /\ Qualified(text))
  <2>1. \A n \in Nat : ~(n = 1 /\ n >= 3)
    OBVIOUS
  <2>2. Len(text) \in Nat
    OBVIOUS
  <2>3. Qualified(text) => Len(text) >= 3
    BY PrefixStands DEF Qualified
  <2>. QED
    BY <2>1, <2>2, <2>3, Zenon
<1>2. CASE Len(text) = 1 /\ text[1] \in Live
  BY <1>1, <1>2 DEF Resolve
<1>3. CASE ~(Len(text) = 1 /\ text[1] \in Live) /\ Qualified(text)
  BY <1>3 DEF Resolve
<1>4. CASE ~(Len(text) = 1 /\ text[1] \in Live) /\ ~Qualified(text)
  <2>1. Resolve(text) =
          LET found == {s \in {"::", "/", "."} : FindSplit(text, 1, <<s>>) # Nil}
          IN  IF "::" \in found THEN FindSplit(text, 1, <<"::">>)
              ELSE IF "/" \in found THEN FindSplit(text, 1, <<"/">>)
              ELSE FindSplit(text, 1, <<".">>)
    BY <1>4 DEF Resolve
  <2>. QED
    BY <1>4, <2>1, OneSplit
<1>. QED
  BY <1>2, <1>3, <1>4

-----------------------------------------------------------------------------
(* Names lead back to their tools.                                         *)

\* No "server::tool" reads as a qualified name: one does when its server is
\* called "mcp__..." and a "__" follows, and it then leads nowhere.
PairsPlain ==
    \A server \in Servers, name \in Names : ~Qualified(server \o <<"::">> \o name)

\* A separator before which no server can hide one: it does not stand in the
\* server's name, nor half in it and half after it.
LEMMA UnderscoresAfter ==
    ASSUME NEW T, NEW server \in Seq(T), Underscore \in T,
           FirstPlace(server \o <<Underscore>>, 1, Underscores) = {}
    PROVE  \A j \in 1 .. Len(server) : ~StandsAt(Underscores, server \o Underscores, j)
<1> DEFINE short == server \o <<Underscore>>
           long == server \o Underscores
           n == Len(server)
<1>1. /\ short \in Seq(T) /\ Len(short) = n + 1
      /\ \A j \in 1 .. n : short[j] = server[j]
      /\ short[n + 1] = Underscore
  OBVIOUS
<1>2. /\ long \in Seq(T) /\ Len(long) = n + 2
      /\ \A j \in 1 .. n : long[j] = server[j]
      /\ long[n + 1] = Underscore
  BY DEF Underscores
<1>3. n \in Nat
  OBVIOUS
<1>4. Len(Underscores) = 2 /\ DOMAIN Underscores = {1, 2}
      /\ Underscores[1] = Underscore /\ Underscores[2] = Underscore
  BY DEF Underscores
<1>5. FirstPlace(short, 1, Underscores) = {}
  OBVIOUS
<1> HIDE DEF short, long, n
<1>6. \A j \in 1 .. n : StandsAt(Underscores, short, j) <=>
                          short[j] = Underscore /\ short[j + 1] = Underscore
  <2> TAKE j \in 1 .. n
  <2>1. j + 2 <= Len(short) + 1 /\ j + 1 - 1 = j /\ j + 2 - 1 = j + 1
    BY <1>1, <1>3
  <2>. QED
    BY <1>4, <2>1 DEF StandsAt
<1>7. \A j \in 1 .. n : StandsAt(Underscores, long, j) =>
                          long[j] = Underscore /\ long[j + 1] = Underscore
  <2> TAKE j \in 1 .. n
  <2>1. j + 1 - 1 = j /\ j + 2 - 1 = j + 1
    BY <1>3
  <2>. QED
    BY <1>4, <2>1 DEF StandsAt
<1>8. \A j \in 1 .. n : short[j] = long[j] /\ short[j + 1] = long[j + 1]
  <2> TAKE j \in 1 .. n
  <2>1. j + 1 \in 1 .. n \/ j + 1 = n + 1
    BY <1>3
  <2>. QED
    BY <1>1, <1>2, <2>1
<1>9. \A j \in 1 .. n : ~StandsAt(Underscores, short, j)
  <2> DEFINE at == {j \in 1 .. n : StandsAt(Underscores, short, j)}
  <2>1. SUFFICES ASSUME at # {} PROVE FALSE
    OBVIOUS
  <2>2. at \subseteq Nat
    BY <1>3
  <2> HIDE DEF at
  <2>3. PICK k \in at : \A j \in at : k <= j
    BY <2>1, <2>2, LeastNat
  <2>4. k \in 1 .. Len(short) /\ StandsAt(Underscores, short, k)
    BY <1>1, <1>3, <2>3 DEF at
  <2>5. \A j \in 1 .. k - 1 : ~StandsAt(Underscores, short, j)
    <3> SUFFICES ASSUME NEW j \in 1 .. k - 1, StandsAt(Underscores, short, j) PROVE FALSE
      OBVIOUS
    <3>1. j \in 1 .. n /\ j < k
      BY <1>3, <2>3 DEF at
    <3>2. j \in at
      BY <3>1 DEF at
    <3>. QED
      BY <2>3, <3>1, <3>2, <2>2
  <2>. QED
    BY <1>5, <2>4, <2>5 DEF FirstPlace
<1>. QED
  BY <1>6, <1>7, <1>8, <1>9 DEF long, n

LEMMA QualifiedLeadsBack ==
    ASSUME TypeOK, UniqueKeys, NEW i \in Live,
           FirstPlace(tools[i].server \o <<Underscore>>, 1, Underscores) = {}
    PROVE  Resolve(QualifiedName(tools[i])) = i
<1> DEFINE T == DOMAIN Fold
           server == tools[i].server
           name == tools[i].name
           text == QualifiedName(tools[i])
<1>1. server \in Seq(T) /\ name \in Seq(T) /\ "mcp" \in T /\ Underscore \in T
  BY LiveTools, SpellingAssumption DEF Tool
<1>2. text = Prefix \o server \o Underscores \o name
  BY DEF QualifiedName
<1>3. FirstPlace(server \o <<Underscore>>, 1, Underscores) = {}
  OBVIOUS
<1>4. FindByKey(server, name) = i
  BY FoundByKey DEF KeyOf
<1>5. /\ Prefix \in Seq(T) /\ Len(Prefix) = 3
      /\ Prefix[1] = "mcp" /\ Prefix[2] = Underscore /\ Prefix[3] = Underscore
      /\ Underscores \in Seq(T) /\ Len(Underscores) = 2
  BY <1>1 DEF Prefix, Underscores
<1> HIDE DEF server, name, text, T
<1>prefix. Prefix \in Seq(T) /\ Underscores \in Seq(T)
  BY <1>5
<1>6. /\ text \in Seq(T) /\ Len(text) = 3 + Len(server) + 2 + Len(name)
      /\ \A j \in 1 .. 3 : text[j] = Prefix[j]
  <2>1. /\ text \in Seq(T)
        /\ Len(text) = Len(Prefix) + Len(server) + Len(Underscores) + Len(name)
        /\ \A j \in 1 .. Len(Prefix) : text[j] = Prefix[j]
    BY <1>1, <1>2, <1>prefix, Joined
  <2>. QED
    BY <1>5, <2>1
<1>7. Len(server) \in Nat /\ Len(name) \in Nat
  BY <1>1
<1>8. \A j \in 1 .. Len(server) : ~StandsAt(Underscores, server \o Underscores, j)
  BY <1>1, <1>3, UnderscoresAfter
<1>9. /\ FirstPlace(text, 4, Underscores) = {3 + Len(server) + 1}
      /\ FindSplit(text, 4, Underscores) = FindByKey(server, name)
  <2>1. Len(Underscores) > 0 /\ Len(Prefix) + 1 = 4
    BY <1>5
  <2> DEFINE whole == Prefix \o server \o Underscores \o name
             first == Len(Prefix) + 1
  <2>2. /\ FirstPlace(whole, first, Underscores) = {Len(Prefix) + Len(server) + 1}
        /\ FindSplit(whole, first, Underscores) = FindByKey(server, name)
    BY <1>1, <1>prefix, <1>8, <2>1, SplitAt
  <2>3. whole = text /\ first = 4 /\ Len(Prefix) = 3
    BY <1>2, <1>5, <2>1
  <2> HIDE DEF whole, first
  <2>. QED
    BY <2>2, <2>3
<1>10. StandsAt(Prefix, text, 1)
  <2>1. Len(text) >= 3 /\ text[1] = "mcp" /\ text[2] = Underscore /\ text[3] = Underscore
    BY <1>5, <1>6, <1>7
  <2>. QED
    BY <1>6, <2>1, PrefixStands
<1>11. Qualified(text)
  <2>1. FirstPlace(text, 4, Underscores) # {}
    <3> HIDE DEF text
    <3>. QED
      BY <1>9
  <2>. QED
    BY <1>10, <2>1 DEF Qualified
<1>long. Len(text) # 1
  <2>1. \A m, n \in Nat : 3 + m + 2 + n # 1
    OBVIOUS
  <2>. QED
    BY <1>6, <1>7, <2>1, Zenon
<1>12. Resolve(text) = i
  BY <1>4, <1>6, <1>9, <1>11, <1>long, ResolveWays DEF T
<1>. QED
  BY <1>12 DEF text

LEMMA PairLeadsBack ==
    ASSUME PairsPlain, TypeOK, UniqueKeys, NEW i \in Live
    PROVE  Resolve(tools[i].server \o <<"::">> \o tools[i].name) = i
<1> DEFINE T == DOMAIN Fold
           server == tools[i].server
           name == tools[i].name
           text == server \o <<"::">> \o name
           joined == server \o <<"::">>
<1>1. server \in Seq(T) /\ name \in Seq(T) /\ "::" \in T
      /\ server \in Servers /\ name \in Names
  BY LiveTools, SpellingAssumption DEF Tool
<1>2. ~Holds("::", server)
  BY StoredSpelling DEF KeyOf
<1>3. FindByKey(server, name) = i
  BY FoundByKey DEF KeyOf
<1>4. ~Qualified(text)
  BY <1>1 DEF PairsPlain
<1> HIDE DEF server, name, T
<1>5. /\ text \in Seq(T) /\ Len(text) = Len(server) + 1 + Len(name)
      /\ \A j \in 1 .. Len(server) : text[j] = server[j]
      /\ text[Len(server) + 1] = "::"
      /\ Len(server) \in Nat /\ Len(name) \in Nat
  BY <1>1
<1>6. ASSUME NEW j \in 1 .. Len(server) PROVE ~StandsAt(<<"::">>, joined, j)
  <2>1. joined \in Seq(T) /\ Len(joined) = Len(server) + 1 /\ joined[j] = server[j]
    BY <1>1
  <2>2. j \in 1 .. Len(joined) /\ server[j] # "::"
    BY <1>1, <1>2, <1>5, <2>1 DEF Holds
  <2> HIDE DEF joined
  <2>. QED
    BY <2>1, <2>2, StandsAlone
<1>7. FindSplit(text, 1, <<"::">>) = i
  <2> DEFINE lead == <<>>
             separator == <<"::">>
  <2>1. lead \in Seq(T) /\ separator \in Seq(T) /\ Len(separator) > 0 /\ Len(lead) + 1 = 1
    BY <1>1
  <2>2. lead \o server = server
    BY <1>1
  <2>3. text = lead \o server \o separator \o name
    BY <2>2
  <2>4. \A j \in 1 .. Len(server) : ~StandsAt(separator, server \o separator, j)
    BY <1>6
  <2> HIDE DEF lead, separator, text
  <2>5. FindSplit(text, 1, separator) = FindByKey(server, name)
    BY <1>1, <2>1, <2>3, <2>4, SplitAt
  <2>. QED
    BY <1>3, <2>5 DEF separator
<1> HIDE DEF text
<1>8. ~(Len(text) = 1 /\ text[1] \in Live)
  <2> SUFFICES ASSUME Len(text) = 1, text[1] \in Live PROVE FALSE
    OBVIOUS
  <2>1. Len(server) = 0
    <3>1. \A m, n \in Nat : m + 1 + n = 1 => m = 0
      OBVIOUS
    <3>2. Len(server) + 1 + Len(name) = 1
      BY <1>5
    <3>. QED
      BY <1>5, <3>1, <3>2, Zenon
  <2>2. text[1] = "::"
    BY <1>5, <2>1
  <2>. QED
    BY <2>2, SpellingAssumption DEF Live
<1>9. Separator(text) = "::"
  <2>1. Len(server) + 1 \in DOMAIN text
    BY <1>5
  <2>. QED
    BY <1>5, <2>1 DEF Separator, Holds
<1>10. Resolve(text) = FindSplit(text, 1, <<"::">>)
  BY <1>4, <1>5, <1>8, <1>9, ResolveWays DEF T
<1>. QED
  BY <1>7, <1>10 DEF text, server, name

\* What a tool can be called by leads to it and to no other (resolve): its
\* identifier, "server::tool", and, unless its server holds "__" or ends in "_",
\* its qualified name, which is split at the first "__" after the prefix.
THEOREM ToolsAnswerToTheirNames ==
    ASSUME PairsPlain
    PROVE  Spec => []NamesLeadBack
<1>1. TypeOK /\ UniqueKeys => NamesLeadBack
  <2> SUFFICES ASSUME TypeOK, UniqueKeys, NEW i \in Live
               PROVE  /\ Resolve(<<i>>) = i
                      /\ Resolve(tools[i].server \o <<"::">> \o tools[i].name) = i
                      /\ FirstPlace(tools[i].server \o <<Underscore>>, 1, Underscores) = {} =>
                            Resolve(QualifiedName(tools[i])) = i
    BY DEF NamesLeadBack
  <2>1. Resolve(<<i>>) = i
    <3>1. Len(<<i>>) = 1 /\ <<i>>[1] = i
      OBVIOUS
    <3>2. ~StandsAt(Prefix, <<i>>, 1)
      <4>1. Len(Prefix) = 3
        BY DEF Prefix, Underscores
      <4>. QED
        BY <3>1, <4>1 DEF StandsAt
    <3>. QED
      BY <3>1, <3>2 DEF Resolve, Qualified
  <2>. QED
    BY <2>1, PairLeadsBack, QualifiedLeadsBack
<1>. QED
  BY <1>1, TypeCorrect, KeysUnique, PTL

-----------------------------------------------------------------------------
(* A binding keeps its meaning.                                            *)

\* Where a reference is split from, and at what.
SplitFrom(text) == IF Qualified(text) THEN 4 ELSE 1
SplitWith(text) == IF Qualified(text) THEN Underscores ELSE <<Separator(text)>>

LEMMA ResolveBySplit ==
    TypeOK => \A text \in Seq(DOMAIN Fold) :
                 Resolve(text) = IF Len(text) = 1 /\ text[1] \in Live THEN text[1]
                                 ELSE FindSplit(text, SplitFrom(text), SplitWith(text))
BY ResolveWays DEF SplitFrom, SplitWith

LEMMA KeyFound ==
    UniqueKeys => \A i \in Live : \A server, name :
                     KeyOf(tools[i]) = Key(server, name) => FindByKey(server, name) = i
BY FoundByKey

LEMMA ResolveBySplitNext ==
    TypeOK' => (\A text \in Seq(DOMAIN Fold) :
                   Resolve(text) = IF Len(text) = 1 /\ text[1] \in Live THEN text[1]
                                   ELSE FindSplit(text, SplitFrom(text), SplitWith(text)))'
BY ResolveBySplit, PTL

LEMMA KeyFoundNext ==
    UniqueKeys' => (\A i \in Live : \A server, name :
                       KeyOf(tools[i]) = Key(server, name) => FindByKey(server, name) = i)'
BY KeyFound, PTL

LEMMA FoundThereNext ==
    (\A text, first, separator, k :
        FirstPlace(text, first, separator) = {k} =>
            FindSplit(text, first, separator)
              = FindByKey(SubSeq(text, first, k - 1),
                          SubSeq(text, k + Len(separator), Len(text))))'
BY FoundThere, PTL

\* A reference of one token is no reference by name: it has no other side.
LEMMA OneTokenIsId ==
    ASSUME NEW text \in Seq(DOMAIN Fold), Len(text) = 1, text[1] \in Ids
    PROVE  FirstPlace(text, SplitFrom(text), SplitWith(text)) = {}
<1>1. ~Qualified(text)
  <2>1. Qualified(text) => Len(text) >= 3
    BY PrefixStands DEF Qualified
  <2>. QED
    BY <2>1
<1>2. \A separator \in {"::", "/", "."} : ~Holds(separator, text)
  BY SpellingAssumption DEF Holds
<1>3. Separator(text) \in {"::", "/", "."}
  BY DEF Separator
<1>. QED
  BY <1>1, <1>2, <1>3, NotHeld DEF SplitFrom, SplitWith

LEMMA StaysResolved ==
    ASSUME TypeOK, TypeOK', UniqueKeys', NEW text \in Seq(DOMAIN Fold),
           NEW i \in Live, Resolve(text) = i, tools'[i] # Nil,
           KeyOf(tools'[i]) = KeyOf(tools[i])
    PROVE  Resolve(text)' = i
<1> DEFINE first == SplitFrom(text)
           separator == SplitWith(text)
<1>1. Resolve(text)' = IF Len(text) = 1 /\ text[1] \in Live' THEN text[1]
                       ELSE FindSplit(text, first, separator)'
  <2>1. (\A t \in Seq(DOMAIN Fold) :
            Resolve(t) = IF Len(t) = 1 /\ t[1] \in Live THEN t[1]
                         ELSE FindSplit(t, SplitFrom(t), SplitWith(t)))'
    BY ResolveBySplitNext
  <2>. QED
    BY <2>1
<1>2. Resolve(text) = IF Len(text) = 1 /\ text[1] \in Live THEN text[1]
                      ELSE FindSplit(text, first, separator)
  BY ResolveBySplit
<1>3. CASE Len(text) = 1 /\ text[1] \in Live
  <2>1. i = text[1] /\ i \in Live'
    BY <1>2, <1>3 DEF Live
  <2>. QED
    BY <1>1, <1>3, <2>1
<1>4. CASE ~(Len(text) = 1 /\ text[1] \in Live)
  <2>1. i = FindSplit(text, first, separator) /\ i # Nil
    BY <1>2, <1>4, NilAssumption DEF Live
  <2>2. PICK k \in FirstPlace(text, first, separator) :
            FindByKey(SubSeq(text, first, k - 1),
                      SubSeq(text, k + Len(separator), Len(text))) # Nil
    <3> HIDE DEF first, separator
    <3>. QED
      BY <2>1, FoundNowhere
  <2> DEFINE left == SubSeq(text, first, k - 1)
             right == SubSeq(text, k + Len(separator), Len(text))
  <2>3. FirstPlace(text, first, separator) = {k}
    <3>1. first \in Nat
      BY DEF SplitFrom
    <3> HIDE DEF first, separator
    <3>. QED
      BY <2>2, <3>1, OnePlace
  <2>4. i = FindByKey(left, right)
    <3> HIDE DEF first, separator
    <3>. QED
      BY <2>1, <2>3, FoundThere
  <2>5. FindSplit(text, first, separator)' = FindByKey(left, right)'
    BY <2>3, FoundThereNext
  <2>6. FindByKey(left, right)' = i
    <3> HIDE DEF left, right
    <3>1. i \in Live' /\ KeyOf(tools'[i]) = Key(left, right)
      BY <2>1, <2>4, FindByKeyFinds DEF Live
    <3>2. (\A j \in Live : \A server, name :
              KeyOf(tools[j]) = Key(server, name) => FindByKey(server, name) = j)'
      BY KeyFoundNext
    <3>. QED
      BY <3>1, <3>2
  <2>7. ~(Len(text) = 1 /\ text[1] \in Live')
    BY <2>2, OneTokenIsId DEF Live
  <2>. QED
    BY <1>1, <2>5, <2>6, <2>7
<1>. QED
  BY <1>3, <1>4

\* A binding that resolves to a tool means that tool until the tool itself is
\* renamed or deleted: for any reference, no other registration, rename or
\* import diverts it (McpToolService.resolve).
THEOREM BindingsKeepTheirMeaning == Spec => BindingsStable
<1>1. TypeOK /\ TypeOK' /\ UniqueKeys' /\ [Next]_vars =>
        [\A text \in Bindings \ {Nil}, i \in Live :
            /\ Resolve(text) = i
            /\ tools'[i] # Nil /\ KeyOf(tools'[i]) = KeyOf(tools[i])
            => Resolve(text)' = i]_vars
  BY Spelled, StaysResolved
<1>. QED
  BY <1>1, TypeCorrect, KeysUnique, PTL DEF Spec, BindingsStable

-----------------------------------------------------------------------------
(* Reported calls.                                                         *)

LEMMA ResolveFinds ==
    ASSUME NEW text, Resolve(text) # Nil
    PROVE  Resolve(text) \in Live
<1>1. ASSUME NEW whole, NEW first, NEW separator, FindSplit(whole, first, separator) # Nil
      PROVE  FindSplit(whole, first, separator) \in Live
  <2> DEFINE found == {FindByKey(SubSeq(whole, first, k - 1),
                                 SubSeq(whole, k + Len(separator), Len(whole))) :
                         k \in FirstPlace(whole, first, separator)}
  <2>1. \A i \in found : i = Nil \/ i \in Live
    BY FindByKeyFinds
  <2>2. FindSplit(whole, first, separator) =
          IF found = {} THEN Nil ELSE CHOOSE i \in found : TRUE
    BY DEF FindSplit
  <2> HIDE DEF found
  <2>. QED
    BY <1>1, <2>1, <2>2
<1>. QED
  BY <1>1 DEF Resolve

\* The call built for a binding is one, and a ready one is for a tool that is
\* active and given what it requires.
LEMMA CallBuilt ==
    ASSUME TypeOK, NEW ref, NEW entities, ref.binding # Nil
    PROVE  /\ BuildCall(ref, entities) \in McpCall
           /\ BuildCall(ref, entities) # Nil
           /\ BuildCall(ref, entities).tool = Resolve(ref.binding)
           /\ BuildCall(ref, entities).ready =>
                /\ Resolve(ref.binding) \in Live
                /\ tools[Resolve(ref.binding)].status = "active"
                /\ tools[Resolve(ref.binding)].schema.required \subseteq entities
<1> DEFINE i == Resolve(ref.binding)
           call == BuildCall(ref, entities)
<1>1. CASE i = Nil
  <2>1. call = [tool |-> Nil, missing |-> {}, ready |-> FALSE, unresolved |-> TRUE]
    BY <1>1 DEF BuildCall
  <2>2. call \in McpCall /\ call.tool = Nil /\ call.ready = FALSE
    BY <2>1 DEF McpCall
  <2>. QED
    BY <1>1, <2>2, NilAssumption
<1>2. CASE i # Nil
  <2> DEFINE missing == tools[i].schema.required \ (entities \cap tools[i].schema.properties)
             disabled == tools[i].status # "active"
  <2>1. i \in Live /\ tools[i] \in Tool /\ i \in Ids
    BY <1>2, ResolveFinds, LiveTools
  <2>2. call = [tool |-> i, missing |-> missing,
                ready |-> missing = {} /\ ~disabled, unresolved |-> disabled]
    BY <1>2 DEF BuildCall
  <2>3. tools[i].schema \in Schemas
    BY <2>1 DEF Tool
  <2>4. missing \subseteq UNION {schema.required : schema \in Schemas}
    BY <2>3
  <2>5. call \in McpCall
    <3> HIDE DEF i, missing
    <3>1. disabled \in BOOLEAN /\ (missing = {} /\ ~disabled) \in BOOLEAN
      OBVIOUS
    <3> HIDE DEF disabled
    <3>. QED
      BY <2>1, <2>2, <2>4, <3>1 DEF McpCall
  <2>6. call.tool = i /\ (call.ready => missing = {} /\ ~disabled)
    <3> DEFINE ready == missing = {} /\ ~disabled
    <3>1. call = [tool |-> i, missing |-> missing, ready |-> ready, unresolved |-> disabled]
      BY <2>2
    <3>2. ready \in BOOLEAN /\ (ready => missing = {} /\ ~disabled)
      OBVIOUS
    <3> HIDE DEF ready, i, missing, disabled, call
    <3>3. call.ready = ready /\ call.tool = i
      BY <3>1
    <3>. QED
      BY <3>2, <3>3
  <2>7. call # Nil
    BY <2>5, NilAssumption
  <2>8. call.ready => tools[i].status = "active"
    BY <2>6
  <2>9. call.ready => tools[i].schema.required \subseteq entities
    <3>1. missing = {} => tools[i].schema.required \subseteq entities
      OBVIOUS
    <3> HIDE DEF missing, call
    <3>. QED
      BY <2>6, <3>1
  <2> HIDE DEF i, call
  <2>. QED
    BY <2>1, <2>5, <2>6, <2>7, <2>8, <2>9 DEF i, call
<1>. QED
  BY <1>1, <1>2

\* What is reported for an intent that is bound carries the call of its binding.
LEMMA RouteReports ==
    ASSUME TypeOK, NEW ref, NEW entities
    PROVE  /\ ref.binding = Nil =>
                Route(ref, entities) = Nil \/ Route(ref, entities).mcp = Nil
           /\ ref.binding # Nil =>
                /\ Route(ref, entities) # Nil
                /\ Route(ref, entities).mcp = BuildCall(ref, entities)
                /\ Route(ref, entities).ready => BuildCall(ref, entities).ready
<1> DEFINE call == BuildCall(ref, entities)
           answer == Route(ref, entities)
           missing == Required \ (entities \cap Declared)
<1>1. CASE ref.binding = Nil
  <2>1. call = Nil
    BY <1>1 DEF BuildCall
  <2>. QED
    BY <1>1, <2>1 DEF Route
<1>2. CASE ref.binding # Nil
  <2>1. call \in McpCall /\ call # Nil /\ call.ready \in BOOLEAN
    <3>1. call \in McpCall /\ call # Nil
      BY <1>2, CallBuilt
    <3> HIDE DEF call
    <3>. QED
      BY <3>1 DEF McpCall
  <2>2. \/ answer = [ready |-> call.ready, mcp |-> call]
        \/ answer = [ready |-> missing = {} /\ (call = Nil \/ call.ready), mcp |-> call]
    BY <2>1 DEF Route
  <2> HIDE DEF call, answer
  <2>3. answer \in ToolCall /\ answer.mcp = call /\ (answer.ready => call.ready)
    <3>1. CASE answer = [ready |-> call.ready, mcp |-> call]
      BY <2>1, <3>1 DEF ToolCall
    <3>2. CASE answer = [ready |-> missing = {} /\ (call = Nil \/ call.ready), mcp |-> call]
      <4> HIDE DEF missing
      <4>1. (missing = {} /\ (call = Nil \/ call.ready)) \in BOOLEAN
        OBVIOUS
      <4>2. answer \in ToolCall
        BY <2>1, <3>2, <4>1 DEF ToolCall
      <4>3. answer.ready => call.ready
        BY <2>1, <3>2
      <4>. QED
        BY <3>2, <4>2, <4>3
    <3>. QED
      BY <2>2, <3>1, <3>2
  <2>. QED
    BY <1>2, <2>3, NilAssumption DEF call, answer
<1>. QED
  BY <1>1, <1>2

\* Whatever happened to a tool between the match and the answer, a bound intent
\* reports a call, ready only for a tool that is there, active and given all it
\* requires; and no classification calls a tool nothing is bound to
\* (ToolRouter.route, McpToolService.build_call, _bound_counts).
THEOREM ReportedCallsAreHonest == Spec => []CallsHonest
<1>1. ASSUME TypeOK PROVE CallsHonest
  <2>1. ASSUME NEW n \in Intents, NEW entities \in SUBSET Entities, NEW i \in Live,
               Route(intents[n], entities) # Nil, Route(intents[n], entities).mcp # Nil,
               Route(intents[n], entities).mcp.tool = i
        PROVE  n \in BoundTo(i) /\ BoundCount(i) > 0
    <3>1. intents[n].binding # Nil
      BY <1>1, <2>1, RouteReports
    <3>2. Resolve(intents[n].binding) = i
      BY <1>1, <2>1, <3>1, RouteReports, CallBuilt
    <3>3. n \in BoundTo(i) /\ BoundTo(i) \subseteq Intents
      BY <3>1, <3>2 DEF BoundTo
    <3>4. IsFiniteSet(BoundTo(i))
      BY <3>3, IntentAssumption, FS_Subset
    <3>5. Cardinality(BoundTo(i)) \in Nat /\ Cardinality(BoundTo(i)) # 0
      BY <3>3, <3>4, FS_CardinalityType, FS_EmptySet
    <3>. QED
      BY <3>3, <3>5 DEF BoundCount
  <2>2. ASSUME NEW entities \in SUBSET Entities, NEW ref, ref.binding # Nil
        PROVE  /\ Route(ref, entities) # Nil /\ Route(ref, entities).mcp # Nil
               /\ Route(ref, entities).ready =>
                    \E i \in Live : /\ i = Resolve(ref.binding)
                                    /\ tools[i].status = "active"
                                    /\ tools[i].schema.required \subseteq entities
    BY <1>1, <2>2, RouteReports, CallBuilt
  <2>. QED
    BY <2>1, <2>2 DEF CallsHonest
<1>. QED
  BY <1>1, TypeCorrect, PTL
=============================================================================
