------------------------------ MODULE Registry ------------------------------
(***************************************************************************)
(* The MCP tool registry (services/mcp_service.py over                     *)
(* repositories/chroma_mcp.py), the routes and pages that change it, the   *)
(* binding of intents to its tools, and the call a classification reports  *)
(* for an intent (services/tool_router.py).                                *)
(*                                                                         *)
(* A mutation holds the store's lock from its check to its only write, so  *)
(* it is one step.  An import holds the lock over many writes, any of      *)
(* which may raise and between any two of which the process may die: it    *)
(* is a job with one step per entry and per removal, and nothing else      *)
(* touches the store meanwhile.  What a request does after the service     *)
(* returned - a page is rendered, or an audit entry written - is a step of *)
(* its own, and so are a binding's read and write of the intent and the    *)
(* stretch of a classification from its copy of the intent to the routing. *)
(*                                                                         *)
(* A name is a sequence of tokens - an underscore, "::", "/", ".", and the *)
(* text between them - so that a reference is taken apart as the code does *)
(* it: at the first "::", "/" or ".", and at the first two underscores,    *)
(* even when one of them ends a server's name.                             *)
(***************************************************************************)
EXTENDS Naturals, Sequences, FiniteSets

CONSTANTS
    Ids,        \* identifiers new_id may return
    Servers,    \* server names, each a sequence of tokens
    Names,      \* tool names, each a sequence of tokens
    Fold,       \* token -> token with its case folded
    Schemas,    \* input schemas, each [properties, required]
    Entities,   \* entity names
    Intents,    \* the intents that may be bound
    Labels,     \* the caller's own names for a tool (ToolRef.name), or Nil
    Bindings,   \* references an intent may be bound by, or Nil
    Required,   \* the entities an intent's schema requires
    Declared,   \* the entities an intent's schema declares
    Payloads,   \* tools/list payloads: sequences of [name, schema]
    Callers,    \* concurrent requests
    Doors,      \* "api" and "ui", the ways in
    MaxFaults,  \* bound: writes that raise
    Nil

ASSUME PayloadAssumption ==
    \A p \in Payloads : p \in Seq([name : Names, schema : Schemas])
ASSUME FaultAssumption == MaxFaults \in Nat
ASSUME IntentAssumption == IsFiniteSet(Intents)

Underscore == "underscore"

\* SERVER_PATTERN and TOOL_PATTERN admit no ":" and no "/", an identifier from
\* new_id is hexadecimal, and folding case leaves a separator as it is.
ASSUME SpellingAssumption ==
    /\ Servers \cup Names \cup (Bindings \ {Nil}) \subseteq Seq(DOMAIN Fold)
    /\ {"::", "/", ".", Underscore, "mcp"} \subseteq DOMAIN Fold
    /\ Fold["::"] = "::" /\ Fold["/"] = "/"
    /\ \A name \in Servers \cup Names : \A k \in DOMAIN name : Fold[name[k]] \notin {"::", "/"}
    /\ Ids \cap {"::", "/", "."} = {}

VARIABLES
    tools,      \* id -> the stored tool, or Nil
    issued,     \* identifiers already handed out
    intents,    \* intent -> its ToolRef: [label, binding]
    importing,  \* the import that holds the store's lock, or Nil
    request,    \* caller -> where its request stands
    faults      \* writes that have raised

vars == <<tools, issued, intents, importing, request, faults>>

Tool == [server : Servers, name : Names, schema : Schemas,
         status : {"active", "disabled"}]

\* What a classification reports: a call, and the MCP call in it.
McpCall == [tool : Ids \cup {Nil}, ready : BOOLEAN, unresolved : BOOLEAN,
            missing : SUBSET UNION {schema.required : schema \in Schemas}]
ToolCall == [ready : BOOLEAN, mcp : McpCall \cup {Nil}]

\* Nil stands where nothing does.
ASSUME NilAssumption ==
    /\ Nil \notin Ids /\ Nil \notin Callers /\ Nil \notin Tool
    /\ Nil \notin McpCall /\ Nil \notin ToolCall

ToolRef == [label : Labels, binding : Bindings]
Idle == [at |-> "idle"]
Recording == [at |-> "recording"]
Rendering == [at |-> "rendering"]
Request ==
    {Idle, Recording, Rendering}
      \cup [at : {"binding", "routing"}, intent : Intents, copy : ToolRef]

Folded(name) == [i \in DOMAIN name |-> Fold[name[i]]]
Key(server, name) == <<Folded(server), Folded(name)>>
KeyOf(tool) == Key(tool.server, tool.name)
Live == {i \in Ids : tools[i] # Nil}

FindByKey(server, name) ==
    IF \E i \in Live : KeyOf(tools[i]) = Key(server, name)
    THEN CHOOSE i \in Live : KeyOf(tools[i]) = Key(server, name)
    ELSE Nil

Init ==
    /\ tools = [i \in Ids |-> Nil]
    /\ issued = {}
    /\ intents \in [Intents -> ToolRef]
    /\ importing = Nil
    /\ request = [c \in Callers |-> Idle]
    /\ faults = 0

Unlocked == importing = Nil

-----------------------------------------------------------------------------
(* The service's single writes.                                            *)

\* Mutant: the identifier is not recorded as given out.
AddToolUnissued(tool) ==
    \E i \in Ids \ issued :
        /\ tools' = [tools EXCEPT ![i] = tool]
        /\ UNCHANGED issued

\* Saves a tool that was not there, under a fresh identifier.
AddTool(tool) ==
    \E i \in Ids \ issued :
        /\ tools' = [tools EXCEPT ![i] = tool]
        /\ issued' = issued \cup {i}

Create(tool) ==
    /\ FindByKey(tool.server, tool.name) = Nil
    /\ AddTool(tool)

\* Mutant: a rename is not checked against the other tools.
UpdateUnchecked(i, tool) ==
    /\ i \in Live
    /\ tools' = [tools EXCEPT ![i] = tool]
    /\ UNCHANGED issued

Update(i, tool) ==
    /\ i \in Live
    /\ \/ <<tool.server, tool.name>> = <<tools[i].server, tools[i].name>>
       \/ FindByKey(tool.server, tool.name) \in {Nil, i}
    /\ tools' = [tools EXCEPT ![i] = tool]
    /\ UNCHANGED issued

Delete(i) ==
    /\ i \in Live
    /\ tools' = [tools EXCEPT ![i] = Nil]
    /\ UNCHANGED issued

-----------------------------------------------------------------------------
(* Taking a reference apart, and the call an intent maps to.               *)

StandsAt(separator, text, k) ==
    /\ k + Len(separator) <= Len(text) + 1
    /\ \A j \in DOMAIN separator : text[k + j - 1] = separator[j]

\* Where separator first stands in text from the place first on: one place, or
\* none.
FirstPlace(text, first, separator) ==
    {k \in first .. Len(text) :
        /\ StandsAt(separator, text, k)
        /\ \A j \in first .. k - 1 : ~StandsAt(separator, text, j)}

\* The tool found by splitting what text holds from first on at the first
\* separator in it, or Nil.
FindSplit(text, first, separator) ==
    LET found == {FindByKey(SubSeq(text, first, k - 1),
                            SubSeq(text, k + Len(separator), Len(text))) :
                    k \in FirstPlace(text, first, separator)}
    IN  IF found = {} THEN Nil ELSE CHOOSE i \in found : TRUE

Underscores == <<Underscore, Underscore>>
Prefix == <<"mcp">> \o Underscores
QualifiedName(tool) == Prefix \o tool.server \o Underscores \o tool.name

\* Taken apart as a qualified name: a "__" follows "mcp__".
Qualified(text) == StandsAt(Prefix, text, 1) /\ FirstPlace(text, 4, Underscores) # {}

\* Mutant: a qualified name is split at its last "__".
ResolveLastSplit(text) ==
    LET k == CHOOSE p \in 4 .. Len(text) :
                /\ StandsAt(Underscores, text, p)
                /\ \A q \in p + 1 .. Len(text) : ~StandsAt(Underscores, text, q)
    IN  CASE Len(text) = 1 /\ text[1] \in Live -> text[1]
          [] Qualified(text) ->
                FindByKey(SubSeq(text, 4, k - 1), SubSeq(text, k + 2, Len(text)))
          [] OTHER -> FindSplit(text, 1, <<"::">>)

\* Mutant: when the first "." finds nothing, the later ones are tried.
ResolveEverySplit(text) ==
    LET found == {i \in Live : tools[i].server \o <<".">> \o tools[i].name = text}
    IN  CASE Len(text) = 1 /\ text[1] \in Live -> text[1]
          [] Qualified(text) -> FindSplit(text, 4, Underscores)
          [] OTHER -> IF found = {} THEN FindSplit(text, 1, <<"::">>)
                      ELSE CHOOSE i \in found : TRUE

Resolve(text) ==
    LET found == {s \in {"::", "/", "."} : FindSplit(text, 1, <<s>>) # Nil}
    IN  CASE Len(text) = 1 /\ text[1] \in Live -> text[1]
          [] Qualified(text) -> FindSplit(text, 4, Underscores)
          [] OTHER -> IF "::" \in found THEN FindSplit(text, 1, <<"::">>)
                      ELSE IF "/" \in found THEN FindSplit(text, 1, <<"/">>)
                      ELSE FindSplit(text, 1, <<".">>)

\* The MCP call an intent's binding maps to; Nil when it has none.
BuildCall(ref, entities) ==
    IF ref.binding = Nil THEN Nil
    ELSE IF Resolve(ref.binding) = Nil
    THEN [tool |-> Nil, missing |-> {}, ready |-> FALSE, unresolved |-> TRUE]
    ELSE LET i == Resolve(ref.binding)
             missing == tools[i].schema.required
                          \ (entities \cap tools[i].schema.properties)
             disabled == tools[i].status # "active"
         IN  [tool |-> i, missing |-> missing,
              ready |-> missing = {} /\ ~disabled, unresolved |-> disabled]

\* Mutant: an unresolved binding is dropped when the intent has a label.
RouteDropsUnresolved(ref, entities) ==
    LET call == BuildCall(ref, entities)
        missing == Required \ (entities \cap Declared)
    IN  IF ref.label = Nil
        THEN IF call = Nil THEN Nil ELSE [ready |-> call.ready, mcp |-> call]
        ELSE [ready |-> missing = {} /\ (call = Nil \/ call.ready \/ call.tool = Nil),
              mcp |-> call]

\* What a classification reports for an intent and the entities it found.
Route(ref, entities) ==
    LET call == BuildCall(ref, entities)
        missing == Required \ (entities \cap Declared)
    IN  IF ref.label = Nil
        THEN IF call = Nil THEN Nil ELSE [ready |-> call.ready, mcp |-> call]
        ELSE [ready |-> missing = {} /\ (call = Nil \/ call.ready), mcp |-> call]

\* What a tool's page lists, and the number the listings give for it.
BoundTo(i) == {n \in Intents : intents[n].binding # Nil /\ Resolve(intents[n].binding) = i}
BoundCount(i) == Cardinality(BoundTo(i))

-----------------------------------------------------------------------------
(* Requests.  The routes write an audit entry after the service returned;  *)
(* the pages do not, and render their rows anew.                           *)

Free(c, door) ==
    /\ request[c] = Idle
    /\ door \in Doors
    /\ Unlocked

Changed(c, next) ==
    /\ request' = [request EXCEPT ![c] = next]
    /\ UNCHANGED <<intents, importing, faults>>

CreateTool(c) ==
    /\ Free(c, "api")
    /\ \E tool \in Tool : Create(tool)
    /\ Changed(c, Recording)

UpdateTool(c) ==
    /\ Free(c, "api")
    /\ \E i \in Ids, tool \in Tool : Update(i, tool)
    /\ Changed(c, Recording)

DeleteTool(c) ==
    /\ Free(c, "api")
    /\ \E i \in Ids : Delete(i)
    /\ Changed(c, Recording)

\* The form has no field for the status: a tool registered here is active.
UiRegisterTool(c) ==
    /\ Free(c, "ui")
    /\ \E tool \in Tool : tool.status = "active" /\ Create(tool)
    /\ Changed(c, Rendering)

UiDeleteTool(c) ==
    /\ Free(c, "ui")
    /\ \E i \in Ids : Delete(i)
    /\ Changed(c, Rendering)

RecordAudit(c) ==
    /\ request[c] = Recording
    /\ request' = [request EXCEPT ![c] = Idle]
    /\ UNCHANGED <<tools, issued, intents, importing, faults>>

Render(c) ==
    /\ request[c] = Rendering
    /\ Unlocked
    /\ request' = [request EXCEPT ![c] = Idle]
    /\ UNCHANGED <<tools, issued, intents, importing, faults>>

-----------------------------------------------------------------------------
(* Importing a server's catalogue.                                         *)

\* Takes the lock and begins on a payload, through either door.
BeginImport(c) ==
    /\ request[c] = Idle
    /\ Unlocked
    /\ \E server \in Servers, payload \in Payloads, replace \in BOOLEAN :
        importing' = [caller |-> c, server |-> server, todo |-> payload,
                      replace |-> replace,
                      seen |-> {}, doomed |-> {}, phase |-> "entries"]
    /\ UNCHANGED <<tools, issued, intents, request, faults>>

AtEntry == importing # Nil /\ importing.phase = "entries" /\ importing.todo # <<>>
AtRemoval == importing # Nil /\ importing.phase = "removal"

\* One entry is saved: over the tool of its key, whose status it keeps, or anew.
ImportEntry ==
    LET entry == Head(importing.todo)
        known == FindByKey(importing.server, entry.name)
        tool == [server |-> importing.server, name |-> entry.name,
                 schema |-> entry.schema,
                 status |-> IF known = Nil THEN "active" ELSE tools[known].status]
    IN  /\ AtEntry
        /\ IF known = Nil
           THEN AddTool(tool)
           ELSE tools' = [tools EXCEPT ![known] = tool] /\ UNCHANGED issued
        /\ importing' = [importing EXCEPT !.todo = Tail(@),
                                          !.seen = @ \cup {Folded(entry.name)}]
        /\ UNCHANGED <<intents, request, faults>>

\* An entry that raises, a name out of pattern or a failed write, is skipped.
SkipEntry ==
    /\ AtEntry
    /\ faults < MaxFaults
    /\ faults' = faults + 1
    /\ importing' = [importing EXCEPT !.todo = Tail(@)]
    /\ UNCHANGED <<tools, issued, intents, request>>

\* Mutant: the tools to remove are looked for on every server.
BeginRemovalEverywhere ==
    /\ importing # Nil
    /\ importing.phase = "entries" /\ importing.todo = <<>> /\ importing.replace
    /\ importing' = [importing EXCEPT
            !.phase = "removal",
            !.doomed = {i \in Live : Folded(tools[i].name) \notin importing.seen}]
    /\ UNCHANGED <<tools, issued, intents, request, faults>>

\* With replace, the server's tools not seen among the entries are listed ...
BeginRemoval ==
    /\ importing # Nil
    /\ importing.phase = "entries" /\ importing.todo = <<>> /\ importing.replace
    /\ importing' = [importing EXCEPT
            !.phase = "removal",
            !.doomed = {i \in Live :
                          /\ Folded(tools[i].server) = Folded(importing.server)
                          /\ Folded(tools[i].name) \notin importing.seen}]
    /\ UNCHANGED <<tools, issued, intents, request, faults>>

\* ... and removed one by one.
RemoveTool ==
    /\ AtRemoval
    /\ \E i \in importing.doomed :
        /\ tools' = [tools EXCEPT ![i] = Nil]
        /\ importing' = [importing EXCEPT !.doomed = @ \ {i}]
    /\ UNCHANGED <<issued, intents, request, faults>>

FinishImport ==
    /\ importing # Nil
    /\ importing.todo = <<>>
    /\ importing.replace => importing.phase = "removal" /\ importing.doomed = {}
    /\ \E door \in Doors :
        request' = [request EXCEPT ![importing.caller] =
                      IF door = "api" THEN Recording ELSE Rendering]
    /\ importing' = Nil
    /\ UNCHANGED <<tools, issued, intents, faults>>

\* A removal that raises ends the request; what was written stays.
AbortImport ==
    /\ AtRemoval
    /\ importing.doomed # {}
    /\ faults < MaxFaults
    /\ faults' = faults + 1
    /\ importing' = Nil
    /\ UNCHANGED <<tools, issued, intents, request>>

\* The process dies: the lock and every request are gone, the store is kept.
Crash ==
    /\ importing # Nil
    /\ faults < MaxFaults
    /\ faults' = faults + 1
    /\ importing' = Nil
    /\ request' = [c \in Callers |-> Idle]
    /\ UNCHANGED <<tools, issued, intents>>

-----------------------------------------------------------------------------
(* Intents: edited, bound to a tool from their page, and routed.           *)

EditIntent(c) ==
    /\ Free(c, "api")
    /\ \E i \in Intents, ref \in ToolRef : intents' = [intents EXCEPT ![i] = ref]
    /\ UNCHANGED <<tools, issued, importing, request, faults>>

UiBindRead(c, i) ==
    /\ Free(c, "ui")
    /\ request' = [request EXCEPT ![c] =
                     [at |-> "binding", intent |-> i, copy |-> intents[i]]]
    /\ UNCHANGED <<tools, issued, intents, importing, faults>>

UiBindWrite(c) ==
    /\ request[c].at = "binding"
    /\ Unlocked
    /\ \E binding \in Bindings :
        intents' = [intents EXCEPT ![request[c].intent] =
                      [label |-> request[c].copy.label, binding |-> binding]]
    /\ request' = [request EXCEPT ![c] = Rendering]
    /\ UNCHANGED <<tools, issued, importing, faults>>

\* A classification holds the intent as it was when the match was made.
BeginRouting(c, i) ==
    /\ Free(c, "api")
    /\ request' = [request EXCEPT ![c] =
                     [at |-> "routing", intent |-> i, copy |-> intents[i]]]
    /\ UNCHANGED <<tools, issued, intents, importing, faults>>

AnswerRouting(c) ==
    /\ request[c].at = "routing"
    /\ Unlocked
    /\ request' = [request EXCEPT ![c] = Idle]
    /\ UNCHANGED <<tools, issued, intents, importing, faults>>

Next ==
    \/ \E c \in Callers :
        \/ CreateTool(c) \/ UpdateTool(c) \/ DeleteTool(c)
        \/ UiRegisterTool(c) \/ UiDeleteTool(c)
        \/ RecordAudit(c) \/ Render(c) \/ BeginImport(c)
        \/ EditIntent(c) \/ UiBindWrite(c) \/ AnswerRouting(c)
        \/ \E i \in Intents : UiBindRead(c, i) \/ BeginRouting(c, i)
    \/ ImportEntry \/ SkipEntry \/ BeginRemoval \/ RemoveTool
    \/ FinishImport \/ AbortImport \/ Crash

Spec == Init /\ [][Next]_vars

-----------------------------------------------------------------------------
(* Properties.                                                             *)

FoldedNames == {Folded(name) : name \in Names}
Job == [caller : Callers, server : Servers,
        todo : Seq([name : Names, schema : Schemas]), replace : BOOLEAN,
        seen : SUBSET FoldedNames, doomed : SUBSET Ids, phase : {"entries", "removal"}]

\* Every variable has its type, and a stored tool's identifier was issued.
TypeOK ==
    /\ tools \in [Ids -> Tool \cup {Nil}]
    /\ issued \subseteq Ids
    /\ Live \subseteq issued
    /\ intents \in [Intents -> ToolRef]
    /\ importing \in Job \cup {Nil}
    /\ request \in [Callers -> Request]
    /\ faults \in 0..MaxFaults

\* No two stored tools have one server and name, case folded, whatever is
\* created, renamed or imported, with entries skipped and imports cut short
\* (McpToolService.create, update and import_tools under store.lock).
UniqueKeys ==
    \A i, j \in Live : KeyOf(tools[i]) = KeyOf(tools[j]) => i = j

\* A binding that resolves to a tool means that tool until the tool itself is
\* renamed or deleted: no other registration, rename or import diverts it
\* (McpToolService.resolve).
BindingsStable ==
    [][\A text \in Bindings \ {Nil}, i \in Live :
        /\ Resolve(text) = i
        /\ tools'[i] # Nil /\ KeyOf(tools'[i]) = KeyOf(tools[i])
        => Resolve(text)' = i]_vars

\* While an import runs, only tools of its server change; a tool it has found
\* keeps its identifier and its name; and a tool goes only if the payload leaves
\* it out or its entry was skipped (import_tools).
ImportConfined ==
    [][importing # Nil =>
        \A i \in Live : tools'[i] # tools[i] =>
            /\ Folded(tools[i].server) = Folded(importing.server)
            /\ tools'[i] # Nil => KeyOf(tools'[i]) = KeyOf(tools[i])
            /\ tools'[i] = Nil => Folded(tools[i].name) \notin importing.seen]_vars

\* What a tool can be called by leads to it: its identifier, "server::tool",
\* and its qualified name, unless its server holds "__" or ends in "_": then the
\* first "__" after the prefix is not the one between server and tool (resolve,
\* qualified_name).
NamesLeadBack ==
    \A i \in Live :
        /\ Resolve(<<i>>) = i
        /\ Resolve(tools[i].server \o <<"::">> \o tools[i].name) = i
        /\ FirstPlace(tools[i].server \o <<Underscore>>, 1, Underscores) = {} =>
              Resolve(QualifiedName(tools[i])) = i

\* A classification of an intent that is bound reports a call for the binding,
\* even when the intent was copied before the tool was deleted or disabled, and
\* calls it ready only if the tool is there, active and given all it requires
\* (ToolRouter.route, McpToolService.build_call); and a tool that nothing is
\* said to be bound to is called by no classification (_bound_counts).
CallsHonest ==
    /\ \A n \in Intents, entities \in SUBSET Entities :
           \A answer \in {Route(intents[n], entities)} :
               answer # Nil /\ answer.mcp # Nil /\ answer.mcp.tool \in Live =>
                   n \in BoundTo(answer.mcp.tool) /\ BoundCount(answer.mcp.tool) > 0
    /\ \A c \in Callers : request[c].at = "routing" =>
           LET ref == request[c].copy
           IN  ref.binding # Nil =>
                 \A entities \in SUBSET Entities : \A answer \in {Route(ref, entities)} :
                     /\ answer # Nil /\ answer.mcp # Nil
                     /\ answer.ready =>
                          \E i \in Live : /\ i = Resolve(ref.binding)
                                          /\ tools[i].status = "active"
                                          /\ tools[i].schema.required \subseteq entities

-----------------------------------------------------------------------------
(* The registry implements the directory of ToolDirectory.                 *)

AllKeys == {Key(server, name) : server \in Servers, name \in Names}
AllBodies == [status : {"active", "disabled"}, schema : Schemas]
EntryOf(i) == [id |-> i, key |-> KeyOf(tools[i]),
               body |-> [status |-> tools[i].status, schema |-> tools[i].schema]]

Directory == INSTANCE ToolDirectory WITH
    Keys <- AllKeys,
    Bodies <- AllBodies,
    directory <- {EntryOf(i) : i \in Live}

\* Every step of the registry registers, revises or removes one tool of a
\* directory with unique keys, or leaves it alone: an import is a run of such
\* steps, wherever it is cut short.
DirectorySpec == Directory!Spec
=============================================================================
