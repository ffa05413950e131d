----------------------------- MODULE Lifecycle -----------------------------
(***************************************************************************)
(* The processes that open the store, one after the other: the server      *)
(* (app/main.py: seed an empty store, warm the indexes, serve) and the     *)
(* catalogue script (scripts/seed.py: seed, reset, export, import).        *)
(* Embedded Chroma is single-writer, and as the script's own warning asks, *)
(* the script runs only while the server is down.  A process may crash at  *)
(* any step and any Chroma call may raise.                                 *)
(*                                                                         *)
(* A domain is its name and an intent a pair of names (module Catalogue    *)
(* says why they are unique).  What a running server does to the           *)
(* catalogue is Catalogue's subject; a few whole edits stand for it here.  *)
(***************************************************************************)
EXTENDS Naturals, Sequences, FiniteSets, SequencesExt

CONSTANTS
    Domains,        \* domain names
    Intents,        \* intents: pairs of a domain name and an intent name
    Texts,          \* example texts
    Contents,       \* what descriptions, instructions, schemas and hints say
    Demo,           \* scripts.seed.CATALOGUE, as it ships
    SeedOnStartup,  \* settings.seed_on_startup
    MaxEdits,       \* bound: edits through the server
    MaxFaults,      \* bound: Chroma calls that raise
    MaxCrashes,     \* bound: processes that die
    Broken,         \* a file cut short
    Nil

DomainOf(i) == i[1]
Stored == Intents \X Texts

\* Intents are listed within their domain, examples within their intent.
Nested(catalogue) ==
    /\ \A i \in Intents : catalogue.intents[i] # Nil => catalogue.domains[DomainOf(i)] # Nil
    /\ \A e \in catalogue.examples : catalogue.intents[e[1]] # Nil

\* A catalogue file: what export_catalogue writes.
Catalogues ==
    {catalogue \in [domains : [Domains -> Contents \cup {Nil}],
                   intents : [Intents -> Contents \cup {Nil}],
                   examples : SUBSET Stored] : Nested(catalogue)}

DomainRow == [content : Contents, status : {"active", "inactive"}]
IntentRow == [content : Contents, status : {"active", "inactive"}, bound : BOOLEAN]

ASSUME LifecycleAssumption ==
    /\ \A i \in Intents : DomainOf(i) \in Domains
    /\ Demo \in Catalogues
    /\ SeedOnStartup \in BOOLEAN
    /\ MaxEdits \in Nat /\ MaxFaults \in Nat /\ MaxCrashes \in Nat

\* A store, and so a file, lists finitely many rows.
ASSUME FiniteAssumption ==
    IsFiniteSet(Domains) /\ IsFiniteSet(Intents) /\ IsFiniteSet(Texts)

\* Nil stands where nothing does.
ASSUME NilAssumption ==
    /\ Nil \notin Contents /\ Nil \notin DomainRow /\ Nil \notin IntentRow
    /\ Nil \notin {"server", "export", "seed", "reset+seed", "import", "reset+import"}
    /\ {Nil, Broken} \cap Catalogues = {}

VARIABLES
    domains,    \* stored: domain -> [content, status], or Nil
    intents,    \* stored: intent -> [content, status, bound], or Nil
    examples,   \* stored: pairs of an intent and a text
    tools,      \* stored: are there registered MCP tools
    index,      \* server memory: domain -> its indexed examples, or Nil
    dirty,      \* server memory: domains marked dirty
    torn,       \* ghost: domains a request has written to and left unmarked
    file,       \* the exported file: a catalogue, Broken or Nil
    job,        \* the running process, or Nil
    at,         \* where it stands
    todo,       \* what it has still to do
    found,      \* ghost: the store as a start or a restore found it
    edits, faults, crashes

store == <<domains, intents, examples, tools>>
memory == <<index, dirty, torn>>
process == <<job, at, todo, found>>
counters == <<edits, faults, crashes>>
vars == <<store, memory, file, process, counters>>

Jobs == {"server", "export", "seed", "reset+seed", "import", "reset+import"}
Resetting == {"reset+seed", "reset+import"}

HasDomain(d) == domains[d] # Nil
HasIntent(i) == intents[i] # Nil
ExamplesOf(d) == {e \in examples : DomainOf(e[1]) = d}

\* What build() indexes: the examples of the domain's active intents.
Searchable(d) ==
    {e \in ExamplesOf(d) : HasIntent(e[1]) /\ intents[e[1]].status = "active"}

Store == [domains |-> domains, intents |-> intents, examples |-> examples, tools |-> tools]

-----------------------------------------------------------------------------
(* Processes.                                                              *)

Listed == SetToSeq(Domains)
NoIndex == [d \in Domains |-> Nil]

Start(name, place, plan) ==
    /\ job = Nil
    /\ job' = name /\ at' = place /\ todo' = plan
    /\ found' = IF name \in {"server", "reset+import"} THEN Store ELSE Nil
    /\ UNCHANGED <<store, memory, file, counters>>

\* Whatever a process held in memory goes with it.
Ends ==
    /\ job' = Nil /\ at' = "off" /\ todo' = <<>> /\ found' = Nil
    /\ index' = NoIndex /\ dirty' = {} /\ torn' = {}

Goes(place, plan) ==
    /\ at' = place /\ todo' = plan
    /\ UNCHANGED <<job, found>>

Raises == faults < MaxFaults /\ faults' = faults + 1
Fault == Raises /\ UNCHANGED <<edits, crashes>>

Crash ==
    /\ job # Nil
    /\ crashes < MaxCrashes /\ crashes' = crashes + 1
    /\ Ends
    /\ file' = IF job = "export" THEN Broken ELSE file
    /\ UNCHANGED <<store, edits, faults>>

-----------------------------------------------------------------------------
(* Seeding: scripts.seed.seed over a catalogue, call by call.              *)

\* The calls for one domain: itself, each intent followed by its examples,
\* and a last rebuild.
Plan(catalogue) ==
    LET listed(d) == {i \in Intents : DomainOf(i) = d /\ catalogue.intents[i] # Nil}
        texts(i) == SetToSeq({e \in catalogue.examples : e[1] = i})
        ofIntent(i) ==
            <<[call |-> "intent", of |-> i, content |-> catalogue.intents[i]]>> \o
            [k \in DOMAIN texts(i) |-> [call |-> "example", of |-> texts(i)[k], content |-> Nil]]
        ofIntents(d) ==
            LET order == SetToSeq(listed(d))
            IN  FlattenSeq([k \in DOMAIN order |-> ofIntent(order[k])])
        ofDomain(d) ==
            <<[call |-> "domain", of |-> d, content |-> catalogue.domains[d]]>>
              \o ofIntents(d) \o <<[call |-> "rebuild", of |-> d, content |-> Nil]>>
        order == SetToSeq({d \in Domains : catalogue.domains[d] # Nil})
    IN  FlattenSeq([k \in DOMAIN order |-> ofDomain(order[k])])

DemoPlan == Plan(Demo)

Call(name) == at = "seeding" /\ todo # <<>> /\ Head(todo).call = name
Entry == Head(todo)
Rebuilt(d, newExamples, newIntents) ==
    /\ index' = [index EXCEPT ![d] =
           {e \in newExamples : /\ DomainOf(e[1]) = d
                                /\ newIntents[e[1]].status = "active"}]
    /\ dirty' = dirty \ {d} /\ torn' = torn \ {d}

\* Mutant: a domain that exists is not expected.
SeedDomainFresh ==
    /\ Call("domain") /\ ~HasDomain(Entry.of)
    /\ domains' = [domains EXCEPT ![Entry.of] = [content |-> Entry.content, status |-> "active"]]
    /\ Goes("seeding", Tail(todo))
    /\ UNCHANGED <<intents, examples, tools, memory, file, counters>>

\* A domain that exists is reused as it is.
SeedDomain ==
    /\ Call("domain")
    /\ domains' = IF HasDomain(Entry.of) THEN domains
                  ELSE [domains EXCEPT ![Entry.of] =
                          [content |-> Entry.content, status |-> "active"]]
    /\ Goes("seeding", Tail(todo))
    /\ UNCHANGED <<intents, examples, tools, memory, file, counters>>

\* Active, at version v1 of its tool and bound to no MCP tool.
NewIntent(content) == [content |-> content, status |-> "active", bound |-> FALSE]

\* Mutant: an intent that exists is written over.
SeedIntentOver ==
    /\ Call("intent")
    /\ intents' = [intents EXCEPT ![Entry.of] = NewIntent(Entry.content)]
    /\ Rebuilt(DomainOf(Entry.of), examples, intents')
    /\ Goes("seeding", Tail(todo))
    /\ UNCHANGED <<domains, examples, tools, file, counters>>

\* The domain of a new intent is reindexed; one that exists is reused as it is.
SeedIntent ==
    /\ Call("intent")
    /\ IF HasIntent(Entry.of) THEN UNCHANGED <<intents, memory>>
       ELSE /\ intents' = [intents EXCEPT ![Entry.of] = NewIntent(Entry.content)]
            /\ Rebuilt(DomainOf(Entry.of), examples, intents')
    /\ Goes("seeding", Tail(todo))
    /\ UNCHANGED <<domains, examples, tools, file, counters>>

\* Mutant: an example that exists ends the intent's list, as one batch would.
SeedExampleBatch ==
    /\ Call("example")
    /\ IF Entry.of \in examples
       THEN /\ Goes("seeding", SelectSeq(Tail(todo), LAMBDA c :
                                  ~(c.call = "example" /\ c.of[1] = Entry.of[1])))
            /\ UNCHANGED <<examples, memory>>
       ELSE /\ examples' = examples \cup {Entry.of}
            /\ Rebuilt(DomainOf(Entry.of[1]), examples', intents)
            /\ Goes("seeding", Tail(todo))
    /\ UNCHANGED <<domains, intents, tools, file, counters>>

\* _add_new_examples: one by one, so that one that exists is passed over.
SeedExample ==
    /\ Call("example")
    /\ IF Entry.of \in examples THEN UNCHANGED <<examples, memory>>
       ELSE /\ examples' = examples \cup {Entry.of}
            /\ Rebuilt(DomainOf(Entry.of[1]), examples', intents)
    /\ Goes("seeding", Tail(todo))
    /\ UNCHANGED <<domains, intents, tools, file, counters>>

SeedRebuild ==
    /\ Call("rebuild")
    /\ Rebuilt(Entry.of, examples, intents)
    /\ Goes("seeding", Tail(todo))
    /\ UNCHANGED <<store, file, counters>>

\* What a call has written when the rebuild that ends it raises.
WriteHalf ==
    \/ /\ Call("intent") /\ ~HasIntent(Entry.of)
       /\ intents' = [intents EXCEPT ![Entry.of] = NewIntent(Entry.content)]
       /\ UNCHANGED <<domains, examples, tools>>
    \/ /\ Call("example") /\ Entry.of \notin examples
       /\ examples' = examples \cup {Entry.of}
       /\ UNCHANGED <<domains, intents, tools>>
    \/ Call("rebuild") /\ UNCHANGED store

Target ==
    IF Entry.call = "intent" THEN DomainOf(Entry.of)
    ELSE IF Entry.call = "example" THEN DomainOf(Entry.of[1]) ELSE Entry.of

-----------------------------------------------------------------------------
(* The server.                                                             *)

Boot == Start("server", IF SeedOnStartup THEN "checking" ELSE "warming", Listed)

\* _seed_if_empty: only a store without a single domain is seeded.
CheckEmpty ==
    /\ at = "checking"
    /\ IF \E d \in Domains : HasDomain(d)
       THEN Goes("warming", Listed)
       ELSE Goes("seeding", DemoPlan)
    /\ UNCHANGED <<store, memory, file, counters>>

\* Seeding is best-effort: whatever it raises, the start goes on.
FailStartupSeeding ==
    /\ job = "server" /\ at \in {"checking", "seeding"}
    /\ Fault
    /\ \/ UNCHANGED <<store, memory>>
       \/ WriteHalf /\ dirty' = dirty \cup {Target} /\ UNCHANGED <<index, torn>>
    /\ Goes("warming", Listed)
    /\ UNCHANGED <<file>>

Seeded ==
    /\ job = "server" /\ at = "seeding" /\ todo = <<>>
    /\ Goes("warming", Listed)
    /\ UNCHANGED <<store, memory, file, counters>>

\* Mutant: warming builds only what is missing.
WarmMissing ==
    /\ at = "warming" /\ todo # <<>>
    /\ IF HasDomain(Head(todo)) /\ index[Head(todo)] = Nil
       THEN Rebuilt(Head(todo), examples, intents) ELSE UNCHANGED memory
    /\ Goes("warming", Tail(todo))
    /\ UNCHANGED <<store, file, counters>>

\* warm(): every domain listed is built, whatever is there.
Warm ==
    /\ at = "warming" /\ todo # <<>>
    /\ IF HasDomain(Head(todo))
       THEN Rebuilt(Head(todo), examples, intents) ELSE UNCHANGED memory
    /\ Goes("warming", Tail(todo))
    /\ UNCHANGED <<store, file, counters>>

\* Nothing catches what warming raises: the process does not start.
FailWarm ==
    /\ at = "warming"
    /\ Fault
    /\ Ends
    /\ UNCHANGED <<store, file>>

Ready ==
    /\ at = "warming" /\ todo = <<>>
    /\ Goes("ready", <<>>)
    /\ UNCHANGED <<store, memory, file, counters>>

Shutdown ==
    /\ at = "ready"
    /\ Ends
    /\ UNCHANGED <<store, file, counters>>

-----------------------------------------------------------------------------
(* What a ready server is asked to do, one request at a time: all of it, or *)
(* what it has written by the call that raises.                            *)

Edit == at = "ready" /\ edits < MaxEdits /\ edits' = edits + 1

\* The rebuild after a write succeeds, or raises and leaves the domain dirty.
Reindexed(d, newExamples, newIntents) ==
    \/ Rebuilt(d, newExamples, newIntents) /\ UNCHANGED faults
    \/ Raises /\ dirty' = dirty \cup {d} /\ UNCHANGED <<index, torn>>

\* A call between two writes raises: no rebuild follows, and none is asked for.
Torn(d) == Raises /\ torn' = torn \cup {d} /\ UNCHANGED <<index, dirty>>

AddDomain ==
    /\ Edit
    /\ \E d \in Domains, c \in Contents :
        /\ ~HasDomain(d)
        /\ domains' = [domains EXCEPT ![d] = [content |-> c, status |-> "active"]]
    /\ UNCHANGED <<intents, examples, tools, memory, file, process, faults, crashes>>

\* An update that renames the intent, too, has its row saved when the renaming
\* of its examples raises; what names it then leaves is in module Catalogue.
SetIntent ==
    /\ Edit
    /\ \E i \in Intents, status \in {"active", "inactive"}, bound \in BOOLEAN :
        /\ HasIntent(i)
        /\ intents' = [intents EXCEPT ![i].status = status, ![i].bound = bound /\ tools]
        /\ Reindexed(DomainOf(i), examples, intents') \/ Torn(DomainOf(i))
    /\ UNCHANGED <<domains, examples, tools, file, process, crashes>>

TextsOf(i) == {e \in examples : e[1] = i}

\* The examples, the row, the rebuild.
RemoveIntent ==
    /\ Edit
    /\ \E i \in Intents :
        /\ HasIntent(i)
        /\ examples' = examples \ TextsOf(i)
        /\ \/ /\ intents' = [intents EXCEPT ![i] = Nil]
              /\ Reindexed(DomainOf(i), examples', intents')
           \/ UNCHANGED intents /\ Torn(DomainOf(i))
    /\ UNCHANGED <<domains, tools, file, process, crashes>>

IntentsWithout(d) == [i \in Intents |-> IF DomainOf(i) = d THEN Nil ELSE intents[i]]

\* The examples, the intents, the domain; its index is dropped.
RemoveDomain ==
    /\ Edit
    /\ \E d \in Domains :
        /\ HasDomain(d)
        /\ examples' = examples \ ExamplesOf(d)
        /\ \/ /\ intents' = IntentsWithout(d)
              /\ domains' = [domains EXCEPT ![d] = Nil]
              /\ index' = [index EXCEPT ![d] = Nil]
              /\ dirty' = dirty \ {d} /\ torn' = torn \ {d}
              /\ UNCHANGED faults
           \/ intents' \in {intents, IntentsWithout(d)} /\ UNCHANGED domains /\ Torn(d)
    /\ UNCHANGED <<tools, file, process, crashes>>

RemoveExample ==
    /\ Edit
    /\ \E e \in examples :
        /\ examples' = examples \ {e}
        /\ Reindexed(DomainOf(e[1]), examples', intents)
    /\ UNCHANGED <<domains, intents, tools, file, process, crashes>>

RegisterTools ==
    /\ Edit
    /\ tools' = TRUE
    /\ UNCHANGED <<domains, intents, examples, memory, file, process, faults, crashes>>

Indexed(d) == IF index[d] = Nil THEN {} ELSE index[d]

\* What the operations page calls in sync: as many documents as stored examples.
InSync(d) == Cardinality(Indexed(d)) = Cardinality(ExamplesOf(d))

\* index_health asks that the index is not dirty, too.
Healthy(d) == InSync(d) /\ ~(index[d] # Nil /\ d \in dirty)

-----------------------------------------------------------------------------
(* The script.                                                             *)

\* Mutant: whole rows are written.
SnapshotWhole(s) == [domains |-> s.domains, intents |-> s.intents, examples |-> s.examples]

\* No status, no tool version or binding and no tool is written.
Snapshot(s) ==
    [domains |-> [d \in Domains |-> IF s.domains[d] = Nil THEN Nil ELSE s.domains[d].content],
     intents |-> [i \in Intents |-> IF s.intents[i] = Nil THEN Nil ELSE s.intents[i].content],
     examples |-> s.examples]

BeginExport == Start("export", "writing", <<>>)

Export ==
    /\ at = "writing"
    /\ file' = Snapshot(Store)
    /\ Ends
    /\ UNCHANGED <<store, counters>>

\* Mutant: parents first.
ResetOrderReversed == <<"domains", "intents", "examples", "tools">>

\* Mutant: the vectors are left behind.
ResetOrderShort == <<"tools", "intents", "domains">>

\* The order reset_all() empties the collections in; sessions, the second of
\* them, are in module Conversation.
ResetOrder == <<"tools", "examples", "intents", "domains">>

BeginScript ==
    \E name \in Jobs \ {"server", "export"} :
        IF name \in Resetting
        THEN Start(name, "resetting", ResetOrder)
        ELSE Start(name, "reading", <<>>)

\* reset_all(), one collection at a time.
Reset ==
    /\ at = "resetting" /\ todo # <<>>
    /\ tools' = (tools /\ Head(todo) # "tools")
    /\ examples' = IF Head(todo) = "examples" THEN {} ELSE examples
    /\ intents' = IF Head(todo) = "intents" THEN [i \in Intents |-> Nil] ELSE intents
    /\ domains' = IF Head(todo) = "domains" THEN [d \in Domains |-> Nil] ELSE domains
    /\ IF Len(todo) = 1 THEN Goes("reading", <<>>) ELSE Goes("resetting", Tail(todo))
    /\ UNCHANGED <<memory, file, counters>>

\* The file is read after the reset; without a readable one the script dies.
ReadPlan ==
    /\ at = "reading"
    /\ IF job \in {"import", "reset+import"}
       THEN IF file \in {Nil, Broken} THEN Ends
            ELSE Goes("seeding", Plan(file)) /\ UNCHANGED memory
       ELSE Goes("seeding", DemoPlan) /\ UNCHANGED memory
    /\ UNCHANGED <<store, file, counters>>

FailScript ==
    /\ job \notin {Nil, "server"}
    /\ Fault
    /\ WriteHalf \/ UNCHANGED store
    /\ Ends
    /\ UNCHANGED <<file>>

ScriptDone ==
    /\ job \notin {Nil, "server"} /\ at = "seeding" /\ todo = <<>>
    /\ Ends
    /\ UNCHANGED <<store, file, counters>>

-----------------------------------------------------------------------------
(* Specification.                                                          *)

Init ==
    /\ domains = [d \in Domains |-> Nil]
    /\ intents = [i \in Intents |-> Nil]
    /\ examples = {} /\ tools = FALSE
    /\ index = NoIndex /\ dirty = {} /\ torn = {}
    /\ file = Nil
    /\ job = Nil /\ at = "off" /\ todo = <<>> /\ found = Nil
    /\ edits = 0 /\ faults = 0 /\ crashes = 0

Proceed ==
    \/ CheckEmpty \/ SeedDomain \/ SeedIntent \/ SeedExample \/ SeedRebuild \/ Seeded
    \/ Warm \/ Ready
    \/ Export \/ Reset \/ ReadPlan \/ ScriptDone

Request ==
    \/ AddDomain \/ RemoveDomain \/ SetIntent \/ RemoveIntent
    \/ RemoveExample \/ RegisterTools

Next ==
    \/ Boot \/ BeginExport \/ BeginScript
    \/ Proceed \/ Request \/ Shutdown
    \/ FailStartupSeeding \/ FailWarm \/ FailScript \/ Crash

Spec == Init /\ [][Next]_vars

\* A process that runs goes on; nobody has to start one, or to ask it anything.
FairSpec == Spec /\ WF_vars(Proceed)

-----------------------------------------------------------------------------
(* Properties.                                                             *)

\* Every variable has its type.
TypeOK ==
    /\ domains \in [Domains -> DomainRow \cup {Nil}]
    /\ intents \in [Intents -> IntentRow \cup {Nil}]
    /\ examples \subseteq Stored /\ tools \in BOOLEAN
    /\ DOMAIN index = Domains
    /\ \A d \in Domains : index[d] = Nil \/ index[d] \subseteq Stored
    /\ dirty \subseteq Domains /\ torn \subseteq Domains
    /\ file \in {Nil, Broken} \/ file \in Catalogues
    /\ job \in Jobs \cup {Nil}
    /\ job = Nil => index = NoIndex /\ dirty = {} /\ torn = {} /\ todo = <<>> /\ at = "off"

\* No row outlives its parent, whichever write a reset, a seeding or an edit
\* last made before the process died (reset_all and the services go children
\* first on the way down and parents first on the way up).
NoOrphans ==
    /\ \A e \in examples : HasIntent(e[1])
    /\ \A i \in Intents : HasIntent(i) => HasDomain(DomainOf(i))

\* Seeding adds, and changes nothing that is there: not the instructions of a
\* domain, not the status or the tool of an intent, whatever the file says of
\* them; and a start that found any domain adds nothing either, also to the half
\* of a catalogue that an interrupted reset or seeding left (scripts.seed.seed
\* reuses what conflicts, main._seed_if_empty leaves what it finds alone).
SeedingSpares ==
    [][/\ at = "seeding" =>
            /\ \A d \in Domains : HasDomain(d) => domains'[d] = domains[d]
            /\ \A i \in Intents : HasIntent(i) => intents'[i] = intents[i]
            /\ examples \subseteq examples'
       /\ job = "server" /\ at # "ready" /\ (\E d \in Domains : found.domains[d] # Nil)
            => UNCHANGED store]_vars

Source == IF job \in {"import", "reset+import"} THEN file ELSE Demo
SeedingDone == at = "seeding" /\ todo = <<>>

\* Seeding can be repeated until it succeeds: from whatever an interrupted one
\* left, one that runs to its end has everything its catalogue lists.
SeedingCompletes ==
    SeedingDone =>
        /\ \A d \in Domains : Source.domains[d] # Nil => HasDomain(d)
        /\ \A i \in Intents : Source.intents[i] # Nil => HasIntent(i)
        /\ Source.examples \subseteq examples

\* What the file holds survives a reset and an import, exactly: exporting again
\* would write the same file.
RestoreIsExact == job = "reset+import" /\ SeedingDone => Snapshot(Store) = file

\* Once warm, every index is what it would be if built now, also after a
\* seeding that stopped between a row and its reindexing (IndexManager.warm);
\* and later, when the two counts health compares agree and the index is not
\* dirty, it still is, and all that is stored is in it (health.index_health):
\* but for a domain that a failing call left half written and not marked, until
\* it is written to again.
ReportsFresh ==
    /\ at = "warming" /\ todo = <<>> =>
         /\ dirty = {} /\ torn = {}
         /\ \A d \in Domains : HasDomain(d) => index[d] = Searchable(d)
    /\ at = "ready" =>
         \A d \in Domains : HasDomain(d) /\ Healthy(d) /\ d \notin torn =>
             Indexed(d) = Searchable(d) /\ Indexed(d) = ExamplesOf(d)

\* A start ends in a ready server, and a script ends, unless the process dies.
JobsEnd == job # Nil ~> job = Nil \/ at = "ready"

\* Does not hold: the script's "backup story", a store "wiped and restored from
\* JSON" (scripts/seed.py), brings back what
\* was stored when the file was written.
RestoreBringsBack ==
    job = "reset+import" /\ SeedingDone /\ Snapshot(found) = file
        => domains = found.domains /\ intents = found.intents
=============================================================================
