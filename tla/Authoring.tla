----------------------------- MODULE Authoring -----------------------------
(***************************************************************************)
(* Drafting with a language model and writing the draft                    *)
(* (services/intent_authoring.py, services/llm/intent_generator.py and     *)
(* instruction_generator.py, and the routes and pages that call them).     *)
(*                                                                         *)
(* A job reads what exists, waits for the provider, cleans what came back  *)
(* against what it read BEFORE the wait, and then writes row by row, while *)
(* other requests edit the same domain.  Every write of a service is one   *)
(* step (Catalogue opens them up); what is between two of them is not.     *)
(* A reply of the model is one of a small set, an outage among them; the   *)
(* rule-based provider (llm/mock.py), which settings may select instead of *)
(* a model, answers by its table of operations.                            *)
(*                                                                         *)
(* Texts are told apart by what the code does with them: Norm is what a    *)
(* text's hash is taken of, and <<t, u>> is in Quotes when the message of  *)
(* a conflict about t contains u in quotation marks: t itself, unless t    *)
(* was cut off after a space, which the stored text and the message lack.  *)
(***************************************************************************)
EXTENDS Naturals, Sequences, FiniteSets

CONSTANTS
    Workers,    \* concurrent jobs
    Rows,       \* identifiers of intents
    Names,      \* intent names that fit the model's pattern
    Coerced,    \* proposed name -> the name made of it, or Nil
    Fold,       \* name -> name with its case folded
    Typed,      \* example texts a person or a model may write
    Texts,      \* these, and the phrasings of the rule-based provider
    Norm,       \* text -> its normal form
    Quotes,     \* pairs of texts: see above
    Tools,      \* qualified names of MCP tools
    Suits,      \* pairs of a tool and an operation its name seems to serve
    FieldKey,   \* proposed field name -> the key made of it, or Nil
    Pairs,      \* instructions a person or the provider may write: <<system, user>>
    Replies,    \* a model's replies to generate_intents: sequences of proposals
    Batches,    \* a model's replies to generate_examples: sequences of texts
    Settings,   \* what settings.llm_provider may be
    Count,      \* intents asked for
    PerIntent,  \* examples asked for
    MaxEdits,   \* bound: edits made beside the jobs
    MaxDomains, \* bound: times the domain is created
    MaxOperations,  \* bound: operations of the rule-based provider, 8 in the code
    MaxPhrasings,   \* bound: phrasings of each, 8 in the code
    Empty, Nil

NoText == [k \in 1..2 |-> Empty]    \* a pair with both blocks empty
NoSchema == <<>>            \* no field at all
Blocks == {Empty} \cup UNION {{pair[1], pair[2]} : pair \in Pairs}
WithInstructions(id, pair) == [id |-> id, instructions |-> pair, written |-> "whole"]

VARIABLES
    client,     \* the provider the process runs with
    domain,     \* Nil, or [id, instructions, written: last as a "whole" or in "part"]
    created,    \* domains created so far
    intents,    \* row -> [name, tool, schema], or Nil
    examples,   \* row -> the texts stored under it
    tools,      \* the tools registered and active
    job,        \* worker -> its job
    edits       \* edits made so far

catalogue == <<domain, created, intents, examples, tools, client>>
vars == <<domain, created, intents, examples, tools, client, job, edits>>

Idle == [at |-> "idle"]
Present == {r \in Rows : intents[r] # Nil}
Held == {job[w].row : w \in {v \in Workers : job[v].at \in {"texting", "storing"}}}
NewRow == CHOOSE r \in Rows : r \notin Present \cup Held    \* refers to nothing yet
Taken == {Fold[intents[r].name] : r \in Present}
Elements(s) == {s[k] : k \in DOMAIN s}
First(s, n) == SubSeq(s, 1, IF Len(s) < n THEN Len(s) ELSE n)

\* The members of a sequence that are in a set, in order.
Keep(s, S) ==
    LET kept[k \in 0..Len(s)] ==
            IF k = 0 THEN <<>>
            ELSE IF s[k] \in S THEN Append(kept[k - 1], s[k]) ELSE kept[k - 1]
    IN  kept[Len(s)]

IsSequence(s) == s \in Seq(Elements(s))

\* The provider follows the setting, "auto" the key; OpenAI without one is none.
SelectClient(setting, key) ==
    IF setting = "mock" THEN "mock"
    ELSE IF setting \in {"auto", "openai"} /\ key THEN "openai" ELSE "none"

Configured == client # "none"

Init ==
    /\ \E setting \in Settings, key \in BOOLEAN : client = SelectClient(setting, key)
    /\ domain = WithInstructions(1, NoText)
    /\ created = 1
    /\ intents = [r \in Rows |-> Nil]
    /\ examples = [r \in Rows |-> {}]
    /\ tools = Tools
    /\ job = [w \in Workers |-> Idle]
    /\ edits = 0

Here(w) == domain # Nil /\ domain.id = job[w].in    \* its domain is still there
Become(w, next) == job' = [job EXCEPT ![w] = next] /\ UNCHANGED edits
Fail(w) == Become(w, Idle) /\ UNCHANGED catalogue

-----------------------------------------------------------------------------
(* Cleaning a reply.                                                       *)

\* At most limit texts, in order, none equal in normal form to another or to
\* one of existing.
CleanExamples(items, limit, existing) ==
    LET kept[k \in 0..Len(items)] ==
            IF k = 0 THEN <<>>
            ELSE IF \/ Len(kept[k - 1]) >= limit
                    \/ Norm[items[k]] \in {Norm[t] : t \in existing \cup Elements(kept[k - 1])}
                 THEN kept[k - 1] ELSE Append(kept[k - 1], items[k])
    IN  kept[Len(items)]

KnownTypes == {"string", "integer", "number", "boolean", "date", "enum", "array"}

\* The fields with a usable name and a known type, the last of each name; Nil
\* when the values of an enum cannot be listed or the items of an array not
\* be looked into, which raises.
CleanEntitySchema(schema) ==
    LET known(f) == FieldKey[f.name] # Nil /\ f.type \in KnownTypes
        unreadable(f) == \/ f.type = "enum" /\ f.values = Nil
                         \/ f.type = "array" /\ f.items = Nil
        usable == {k \in DOMAIN schema :
                      known(schema[k]) /\ ~(schema[k].type = "enum" /\ schema[k].values = {})}
        key(k) == FieldKey[schema[k].name]
        last(name) == CHOOSE k \in usable :
                         key(k) = name /\ \A j \in usable : key(j) = name => j <= k
        cleaned(f) == [type |-> f.type, required |-> f.required,
                       values |-> IF f.type = "enum" THEN f.values ELSE {},
                       items |-> IF f.type = "array" /\ f.items \in KnownTypes
                                 THEN f.items ELSE "string"]
    IN  IF \E k \in DOMAIN schema : known(schema[k]) /\ unreadable(schema[k]) THEN Nil
        ELSE [name \in {key(k) : k \in usable} |-> cleaned(schema[last(name)])]

\* Mutant: a tool the provider made up is taken over.
CleanedAnyTool(item, offered) ==
    [name |-> Coerced[item.name], tool |-> item.tool,
     schema |-> CleanEntitySchema(item.schema),
     texts |-> CleanExamples(item.texts, PerIntent, {})]

\* One proposal; no tool but one on offer.
Cleaned(item, offered) ==
    [name |-> Coerced[item.name],
     tool |-> IF item.tool \in offered THEN item.tool ELSE Nil,
     schema |-> CleanEntitySchema(item.schema),
     texts |-> CleanExamples(item.texts, PerIntent, {})]

\* The usable proposals among the first Count: a name that can be made usable,
\* neither known nor proposed before.
CleanIntents(reply, known, offered) ==
    LET items == First(reply, Count)
        repeats(item, kept) ==
            Fold[Coerced[item.name]] \in known \cup {Fold[p.name] : p \in Elements(kept)}
        kept[k \in 0..Len(items)] ==
            IF k = 0 THEN <<>>
            ELSE IF Coerced[items[k].name] = Nil \/ repeats(items[k], kept[k - 1])
                 THEN kept[k - 1] ELSE Append(kept[k - 1], Cleaned(items[k], offered))
    IN  kept[Len(items)]

-----------------------------------------------------------------------------
(* The providers.                                                          *)

\* A model may give any reply, and none when it is out of reach, times out or
\* returns no object.
Answers(replies) == replies \cup {<<>>}

\* The rule-based provider: its operations, in order, each with phrasings,
\* told apart by their number.  A domain's intents are named after them.
Operations ==
    First(<<"SEARCH", "DETAILS", "SUMMARY", "STATUS", "COMPARE", "EXPIRY", "CREATE", "DELETE">>,
          MaxOperations)
Phrasings(operation) == [k \in 1..MaxPhrasings |-> <<operation, k>>]
Please(phrasing) == <<phrasing[1], phrasing[2], "please">>

Field(name, type) ==
    [name |-> name, type |-> type, required |-> FALSE, values |-> {}, items |-> "string"]
SchemaByOperation(operation) ==
    CASE operation = "SEARCH" ->
           <<Field("counterparty", "string"),
             [Field("status", "enum") EXCEPT !.values = {"ACTIVE", "EXPIRED", "DRAFT"}]>>
      [] operation = "EXPIRY" ->
           <<Field("counterparty", "string"), Field("expiration_year", "integer")>>
      [] operation = "CREATE" -> <<Field("counterparty", "string")>>
      [] OTHER -> <<[Field("record_id", "string") EXCEPT !.required = TRUE]>>

PickTool(offered, operation) ==
    LET suiting == {t \in offered : <<t, operation>> \in Suits}
    IN  IF suiting = {} THEN Nil ELSE CHOOSE t \in suiting : TRUE

\* The operations no intent is named after yet.
IntentsByRule(known, offered) ==
    LET fresh == First(Keep(Operations, {op \in Elements(Operations) : Fold[op] \notin known}), Count)
    IN  [k \in DOMAIN fresh |->
           [name |-> fresh[k], tool |-> PickTool(offered, fresh[k]),
            schema |-> SchemaByOperation(fresh[k]),
            texts |-> First(Phrasings(fresh[k]), PerIntent)]]

\* The phrasings of the intent's operation, the first one's when it has none,
\* and, if these run out, the same with a "please".
ExamplesByRule(name, known) ==
    LET named == {k \in DOMAIN Operations : Fold[Operations[k]] = Fold[name]}
        phrasings == Phrasings(Operations[IF named = {} THEN 1 ELSE CHOOSE k \in named : TRUE])
        polite == [k \in DOMAIN phrasings |-> Please(phrasings[k])]
        unseen(texts) == Keep(texts, {t \in Elements(texts) : Norm[t] \notin {Norm[u] : u \in known}})
        fresh == unseen(phrasings)
    IN  First(IF Len(fresh) < PerIntent THEN fresh \o unseen(polite) ELSE fresh, PerIntent)

\* Its draft of a domain's instructions always has both blocks.
DraftsByRule == {draft \in Pairs : draft[1] # Empty /\ draft[2] # Empty}

ProposedIntents(known, offered) ==
    IF client = "mock" THEN {IntentsByRule(known, offered)} ELSE Answers(Replies)
ProposedExamples(name, known) ==
    IF client = "mock" THEN {ExamplesByRule(name, known)} ELSE Answers(Batches)
ProposedDrafts == IF client = "mock" THEN DraftsByRule ELSE Pairs \cup {NoText}

\* A reply is a list of proposals whose schema and texts are lists, and a name
\* made usable is one that fits.
ASSUME ReplyAssumption ==
    /\ \A reply \in Replies :
         /\ IsSequence(reply)
         /\ \A item \in Elements(reply) :
              /\ Coerced[item.name] \in Names \cup {Nil}
              /\ IsSequence(item.schema)
              /\ item.texts \in Seq(Texts)
    /\ Batches \subseteq Seq(Texts)
    /\ Count \in Nat /\ PerIntent \in Nat

\* So is what the rule-based provider says.
ASSUME RuleAssumption ==
    /\ MaxOperations \in Nat \ {0} /\ MaxPhrasings \in Nat
    /\ \A op \in Elements(Operations) :
         /\ Coerced[op] \in Names \cup {Nil}
         /\ \A k \in 1..MaxPhrasings : {<<op, k>>, <<op, k, "please">>} \subseteq Texts
    /\ Typed \subseteq Texts

Folds == {Fold[n] : n \in Names}

\* Names are bounded in length, and identifiers do not run out.
ASSUME SupplyAssumption ==
    /\ IsFiniteSet(Folds) /\ IsFiniteSet(Workers)
    /\ \E some \in SUBSET Rows :
         IsFiniteSet(some) /\ Cardinality(some) >= Cardinality(Folds) + Cardinality(Workers)

\* Instructions are two blocks.
ASSUME PairAssumption == Pairs \subseteq [1..2 -> Blocks]

ASSUME BoundAssumption == MaxEdits \in Nat /\ MaxDomains \in Nat \ {0}

-----------------------------------------------------------------------------
(* Generating intents.                                                     *)

Asked == [at |-> "offering", in |-> domain.id, known |-> Taken, offered |-> {}, dry |-> FALSE,
          todo |-> <<>>, row |-> Nil, given |-> <<>>, rest |-> <<>>, noted |-> {}]

\* The route: refused when there is no domain or no provider.
RequestIntents(w) ==
    /\ job[w] = Idle
    /\ domain # Nil /\ Configured
    /\ \E dry \in BOOLEAN : Become(w, [Asked EXCEPT !.dry = dry])
    /\ UNCHANGED catalogue

\* The page: the same job, never a dry run.
UiGenerateIntents(w) ==
    /\ job[w] = Idle
    /\ domain # Nil /\ Configured
    /\ Become(w, Asked)
    /\ UNCHANGED catalogue

\* The active tools are listed after the intents, then the provider is asked.
OfferTools(w) ==
    /\ job[w].at = "offering"
    /\ Become(w, [job[w] EXCEPT !.at = "asking", !.offered = tools])
    /\ UNCHANGED catalogue

\* Nothing usable, or a proposal that cannot be cleaned, ends the request
\* before anything is written.
ReceiveIntents(w) ==
    /\ job[w].at = "asking"
    /\ \E reply \in ProposedIntents(job[w].known, job[w].offered) :
        LET usable == CleanIntents(reply, job[w].known, job[w].offered)
        IN  Become(w, IF usable = <<>> \/ \E k \in DOMAIN usable : usable[k].schema = Nil
                      THEN Idle
                      ELSE [job[w] EXCEPT !.at = "writing", !.todo = usable])
    /\ UNCHANGED catalogue

\* Mutant: a name that is taken is written over.
WriteIntentOver(w) ==
    LET proposal == Head(job[w].todo)
    IN  /\ job[w].at = "writing" /\ job[w].todo # <<>> /\ ~job[w].dry
        /\ Here(w)
        /\ \E r \in Rows :
            /\ IF Fold[proposal.name] \in Taken
               THEN r \in Present /\ Fold[intents[r].name] = Fold[proposal.name]
               ELSE r = NewRow
            /\ intents' = [intents EXCEPT ![r] =
                             [name |-> proposal.name, tool |-> proposal.tool,
                              schema |-> proposal.schema]]
            /\ examples' = [examples EXCEPT ![r] = {}]
            /\ Become(w, [job[w] EXCEPT !.at = "storing", !.row = r, !.noted = {},
                            !.given = proposal.texts, !.rest = proposal.texts,
                            !.todo = Tail(@)])
        /\ UNCHANGED <<domain, created, tools, client>>

\* Creates the next proposal; its examples follow.
WriteIntent(w) ==
    LET proposal == Head(job[w].todo)
    IN  /\ job[w].at = "writing" /\ job[w].todo # <<>> /\ ~job[w].dry
        /\ Here(w)
        /\ Fold[proposal.name] \notin Taken
        /\ LET r == NewRow IN
            /\ intents' = [intents EXCEPT ![r] =
                             [name |-> proposal.name, tool |-> proposal.tool,
                              schema |-> proposal.schema]]
            /\ Become(w, [job[w] EXCEPT !.at = "storing", !.row = r, !.noted = {},
                            !.given = proposal.texts, !.rest = proposal.texts,
                            !.todo = Tail(@)])
        /\ UNCHANGED <<domain, created, examples, tools, client>>

\* A dry run writes nothing; a name taken since the listing is reported.
PassOver(w) ==
    /\ job[w].at = "writing" /\ job[w].todo # <<>>
    /\ job[w].dry \/ (Here(w) /\ Fold[Head(job[w].todo).name] \in Taken)
    /\ Become(w, [job[w] EXCEPT !.todo = Tail(@)])
    /\ UNCHANGED catalogue

\* The domain went away: the request fails, what it wrote stays or is gone.
WriteFails(w) ==
    /\ job[w].at = "writing" /\ job[w].todo # <<>> /\ ~job[w].dry
    /\ ~Here(w)
    /\ Fail(w)

AnswerIntents(w) ==
    /\ job[w].at = "writing" /\ job[w].todo = <<>>
    /\ Fail(w)

-----------------------------------------------------------------------------
(* Generating examples for one intent.                                     *)

\* The route reads the intent and lists its texts before it asks.
RequestExamples(w) ==
    /\ job[w] = Idle
    /\ Configured
    /\ \E r \in Present, dry \in BOOLEAN :
        Become(w, [at |-> "texting", in |-> domain.id, row |-> r, name |-> intents[r].name,
                   known |-> examples[r], dry |-> dry])
    /\ UNCHANGED catalogue

UiGenerateExamples(w) ==
    /\ job[w] = Idle
    /\ Configured
    /\ \E r \in Present :
        Become(w, [at |-> "texting", in |-> domain.id, row |-> r, name |-> intents[r].name,
                   known |-> examples[r], dry |-> FALSE])
    /\ UNCHANGED catalogue

ReceiveExamples(w) ==
    /\ job[w].at = "texting"
    /\ \E batch \in ProposedExamples(job[w].name, job[w].known) :
        LET usable == CleanExamples(batch, PerIntent, job[w].known)
        IN  Become(w, IF usable = <<>> \/ job[w].dry THEN Idle
                      ELSE [at |-> "storing", in |-> job[w].in, row |-> job[w].row,
                            todo |-> <<>>, dry |-> FALSE, given |-> usable, rest |-> usable, noted |-> {}])
    /\ UNCHANGED catalogue

-----------------------------------------------------------------------------
(* Storing a batch of texts, and retrying it without its offender.         *)

\* The first text of the batch that repeats one before it or one stored.
Duplicates(batch, r) ==
    {k \in DOMAIN batch :
        Norm[batch[k]] \in {Norm[t] : t \in examples[r]}
                      \cup {Norm[batch[j]] : j \in 1..(k - 1)}}
Conflict(batch, r) ==
    batch[CHOOSE k \in Duplicates(batch, r) : \A j \in Duplicates(batch, r) : k <= j]

\* Mutant: the first text of the batch is taken for the offender.
OffenderFirst(text, batch) == Head(batch)

\* The first candidate the conflict's message quotes, if it quotes one.
Quoted(text, batch) == {k \in DOMAIN batch : <<text, batch[k]>> \in Quotes}
Offender(text, batch) ==
    batch[CHOOSE k \in Quoted(text, batch) : \A j \in Quoted(text, batch) : k <= j]

\* The intent is gone: NotFoundError ends the request.
StoreFails(w) ==
    /\ job[w].at = "storing" /\ job[w].rest # <<>>
    /\ job[w].row \notin Present
    /\ Fail(w)

\* The whole batch is stored, or nothing.
StoreBatch(w) ==
    /\ job[w].at = "storing" /\ job[w].rest # <<>>
    /\ job[w].row \in Present
    /\ Duplicates(job[w].rest, job[w].row) = {}
    /\ examples' = [examples EXCEPT ![job[w].row] = @ \cup Elements(job[w].rest)]
    /\ Become(w, [job[w] EXCEPT !.at = "stored"])
    /\ UNCHANGED <<domain, created, intents, tools, client>>

\* The batch repeats a text, and the message of the conflict names a candidate.
Offends(w) ==
    /\ job[w].at = "storing" /\ job[w].rest # <<>>
    /\ job[w].row \in Present
    /\ Duplicates(job[w].rest, job[w].row) # {}
    /\ Quoted(Conflict(job[w].rest, job[w].row), job[w].rest) # {}

\* Mutant: the offender is noted and the same batch tried again.
DropOffenderKept(w) ==
    /\ Offends(w)
    /\ LET offender == Offender(Conflict(job[w].rest, job[w].row), job[w].rest)
       IN  Become(w, [job[w] EXCEPT !.noted = @ \cup {offender}])
    /\ UNCHANGED catalogue

\* Mutant: everything from the offender on is given up.
DropFromOffender(w) ==
    /\ Offends(w)
    /\ LET offender == Offender(Conflict(job[w].rest, job[w].row), job[w].rest)
           k == CHOOSE j \in DOMAIN job[w].rest : job[w].rest[j] = offender
       IN  Become(w, [job[w] EXCEPT !.rest = SubSeq(@, 1, k - 1),
                                    !.noted = @ \cup {offender}])
    /\ UNCHANGED catalogue

DropOffender(w) ==
    /\ Offends(w)
    /\ LET offender == Offender(Conflict(job[w].rest, job[w].row), job[w].rest)
       IN  Become(w, [job[w] EXCEPT !.rest = Keep(@, Elements(@) \ {offender}),
                                    !.noted = @ \cup {offender}])
    /\ UNCHANGED catalogue

\* The message names none, of a text that ends in the space it was cut at: what
\* is left of the batch is not saved, and one note says so.
GiveUpBatch(w) ==
    /\ job[w].at = "storing" /\ job[w].rest # <<>>
    /\ job[w].row \in Present
    /\ Duplicates(job[w].rest, job[w].row) # {}
    /\ Quoted(Conflict(job[w].rest, job[w].row), job[w].rest) = {}
    /\ Become(w, [job[w] EXCEPT !.at = "stored", !.rest = <<>>,
                                !.noted = @ \cup Elements(job[w].rest)])
    /\ UNCHANGED catalogue

NothingToStore(w) ==
    /\ job[w].at = "storing" /\ job[w].rest = <<>>
    /\ Become(w, [job[w] EXCEPT !.at = "stored"])
    /\ UNCHANGED catalogue

\* The response is extended with the batch; a job of many intents goes on.
ReportBatch(w) ==
    /\ job[w].at = "stored"
    /\ Become(w, [job[w] EXCEPT !.at = "writing", !.row = Nil, !.given = <<>>,
                                !.rest = <<>>, !.noted = {}])
    /\ UNCHANGED catalogue

-----------------------------------------------------------------------------
(* Generating instructions.                                                *)

Drafting == [at |-> "drafting", in |-> domain.id, draft |-> NoText]

\* POST /domains: written instructions win over a draft, and without a
\* provider a draft is refused before anything is written.
CreateDomain(w) ==
    /\ job[w] = Idle
    /\ domain = Nil /\ created < MaxDomains
    /\ \E written \in Pairs \cup {NoText}, wants \in BOOLEAN :
        LET drafts == wants /\ written = NoText
        IN  /\ drafts => Configured
            /\ domain' = WithInstructions(created + 1, written)
            /\ Become(w, IF drafts
                         THEN [at |-> "drafting", in |-> created + 1, draft |-> NoText]
                         ELSE Idle)
    /\ created' = created + 1
    /\ UNCHANGED <<intents, examples, tools, client>>

RequestDraft(w) ==
    /\ job[w] = Idle
    /\ domain # Nil /\ Configured
    /\ Become(w, Drafting)
    /\ UNCHANGED catalogue

UiRequestDraft(w) ==
    /\ job[w] = Idle
    /\ domain # Nil /\ Configured
    /\ Become(w, Drafting)
    /\ UNCHANGED catalogue

\* A draft with one block is good enough; with none it failed.
ReceiveDraft(w) ==
    /\ job[w].at = "drafting"
    /\ \E draft \in ProposedDrafts :
        Become(w, IF draft = NoText THEN Idle
                  ELSE [job[w] EXCEPT !.at = "saving", !.draft = draft])
    /\ UNCHANGED catalogue

\* Mutant: only the blocks the provider returned are saved.
SaveDraftBlocks(w) ==
    /\ job[w].at = "saving"
    /\ domain' = IF Here(w)
                 THEN [domain EXCEPT !.written = "whole", !.instructions =
                         [k \in 1..2 |-> IF job[w].draft[k] = Empty THEN @[k]
                                         ELSE job[w].draft[k]]]
                 ELSE domain
    /\ Become(w, Idle)
    /\ UNCHANGED <<created, intents, examples, tools, client>>

\* Both blocks are saved, over whatever is there now.
SaveDraft(w) ==
    /\ job[w].at = "saving"
    /\ domain' = IF Here(w) THEN WithInstructions(domain.id, job[w].draft) ELSE domain
    /\ Become(w, Idle)
    /\ UNCHANGED <<created, intents, examples, tools, client>>

-----------------------------------------------------------------------------
(* What other requests do meanwhile, through the services of Catalogue.    *)

Edit == edits < MaxEdits /\ edits' = edits + 1 /\ UNCHANGED job

UiUpdateInstructions ==
    /\ Edit
    /\ domain # Nil
    /\ \E pair \in Pairs \cup {NoText} : domain' = WithInstructions(domain.id, pair)
    /\ UNCHANGED <<created, intents, examples, tools, client>>

\* PUT /domains/{id} changes what the request names, one block or both.
UpdateDomain ==
    /\ Edit
    /\ domain # Nil
    /\ \/ \E pair \in Pairs \cup {NoText} : domain' = WithInstructions(domain.id, pair)
       \/ \E k \in 1..2, block \in Blocks :
            domain' = [domain EXCEPT !.instructions[k] = block, !.written = "part"]
    /\ UNCHANGED <<created, intents, examples, tools, client>>

\* The page's form; a draft that goes with it is CreateDomain's, and one asked
\* for without a provider is found out after the domain is there.
UiCreateDomain ==
    /\ Edit
    /\ domain = Nil /\ created < MaxDomains
    /\ \E written \in Pairs \cup {NoText} :
        domain' = WithInstructions(created + 1, written)
    /\ created' = created + 1
    /\ UNCHANGED <<intents, examples, tools, client>>

UiDeleteDomain ==
    /\ Edit
    /\ domain # Nil
    /\ domain' = Nil
    /\ intents' = [r \in Rows |-> Nil]
    /\ examples' = [r \in Rows |-> {}]
    /\ UNCHANGED <<created, tools, client>>

UiCreateIntent ==
    /\ Edit
    /\ domain # Nil
    /\ \E name \in Names :
        /\ Fold[name] \notin Taken
        /\ intents' = [intents EXCEPT ![NewRow] =
                                      [name |-> name, tool |-> Nil, schema |-> NoSchema]]
    /\ UNCHANGED <<domain, created, examples, tools, client>>

UiDeleteIntent ==
    /\ Edit
    /\ \E r \in Present :
        /\ intents' = [intents EXCEPT ![r] = Nil]
        /\ examples' = [examples EXCEPT ![r] = {}]
    /\ UNCHANGED <<domain, created, tools, client>>

UiAddExample ==
    /\ Edit
    /\ \E r \in Present, text \in Typed :
        /\ Norm[text] \notin {Norm[t] : t \in examples[r]}
        /\ examples' = [examples EXCEPT ![r] = @ \cup {text}]
    /\ UNCHANGED <<domain, created, intents, tools, client>>

UiDeleteExample ==
    /\ Edit
    /\ \E r \in Present : \E text \in examples[r] :
        examples' = [examples EXCEPT ![r] = @ \ {text}]
    /\ UNCHANGED <<domain, created, intents, tools, client>>

ChangeTools ==
    /\ Edit
    /\ \E now \in SUBSET Tools : tools' = now
    /\ UNCHANGED <<domain, created, intents, examples, client>>

Editors ==
    \/ UiUpdateInstructions \/ UpdateDomain \/ UiCreateDomain \/ UiDeleteDomain
    \/ UiCreateIntent \/ UiDeleteIntent
    \/ UiAddExample \/ UiDeleteExample \/ ChangeTools

Request(w) ==
    \/ RequestIntents(w) \/ UiGenerateIntents(w) \/ RequestExamples(w)
    \/ UiGenerateExamples(w) \/ CreateDomain(w)
    \/ RequestDraft(w) \/ UiRequestDraft(w)

\* What a job does by itself once requested; the provider answers, or the
\* client's time-out and its bounded retries end the wait.
Proceed(w) ==
    \/ OfferTools(w) \/ ReceiveIntents(w) \/ WriteIntent(w) \/ PassOver(w)
    \/ WriteFails(w) \/ AnswerIntents(w) \/ ReceiveExamples(w)
    \/ StoreBatch(w) \/ StoreFails(w) \/ DropOffender(w) \/ GiveUpBatch(w)
    \/ NothingToStore(w) \/ ReportBatch(w) \/ ReceiveDraft(w) \/ SaveDraft(w)

Next == Editors \/ \E w \in Workers : Request(w) \/ Proceed(w)

Spec == Init /\ [][Next]_vars
FairSpec == Spec /\ \A w \in Workers : WF_vars(Proceed(w))

-----------------------------------------------------------------------------
(* Properties.                                                             *)

Where == {"idle", "offering", "asking", "writing", "texting", "storing", "stored",
          "drafting", "saving"}

\* Every variable has its type.
TypeOK ==
    /\ domain \in [id : 1..MaxDomains, instructions : [1..2 -> Blocks],
                   written : {"whole", "part"}] \cup {Nil}
    /\ created \in 1..MaxDomains
    /\ \A r \in Present :
         /\ intents[r].name \in Names /\ intents[r].tool \in Tools \cup {Nil}
         /\ \A key \in DOMAIN intents[r].schema :
              LET field == intents[r].schema[key]
              IN  /\ {field.type, field.items} \subseteq KnownTypes
                  /\ field.type = "enum" => field.values # {}
    /\ examples \in [Rows -> SUBSET Texts]
    /\ tools \subseteq Tools
    /\ client \in {"openai", "mock", "none"}
    /\ \A w \in Workers : job[w].at \in Where
    /\ edits \in 0..MaxEdits

\* However often a batch is retried, each of its texts is either still to be
\* stored or accounted for by a note, as skipped or as given up with the rest,
\* and never both (IntentAuthoringService._add_examples).
BatchAccounted ==
    \A w \in Workers : job[w].at \in {"storing", "stored"} =>
        /\ Elements(job[w].rest) \cup job[w].noted = Elements(job[w].given)
        /\ Elements(job[w].rest) \cap job[w].noted = {}

\* A text is reported as a duplicate only when it is one: of a text stored
\* under the intent by now, or of another in the batch (_offending_text).
OnlyDuplicatesSkipped ==
    [][\A w \in Workers : job[w].at = "storing" /\ job'[w].at = "storing" =>
        \A t \in job'[w].noted \ job[w].noted :
            \E u \in examples[job[w].row] \cup (Elements(job[w].rest) \ {t}) :
                Norm[u] = Norm[t]]_vars

\* A job adds: no step of one changes or removes an intent or an example that
\* was there, whoever made it and however the catalogue moved on while the
\* provider was asked; and a dry run writes nothing (generate_intents).
GenerationOnlyAdds ==
    [][edits' = edits =>
        /\ \A r \in Present : intents'[r] = intents[r] /\ examples[r] \subseteq examples'[r]
        /\ \A w \in Workers :
             job'[w] # job[w] /\ job[w].at = "writing" /\ job[w].dry =>
               UNCHANGED <<intents, examples>>]_vars

\* The two blocks of a domain's instructions come from one author, whatever was
\* written while a draft was asked for: a draft replaces both blocks, the parts
\* of an edit among them, and only a request that names one block alone leaves
\* it beside another author's (generate_instructions, ui_update_instructions;
\* DomainService.update).
InstructionsWhole ==
    domain # Nil /\ domain.written = "whole" => domain.instructions \in Pairs \cup {NoText}

\* Every generation ends: the provider answers or times out, and a batch that
\* keeps meeting conflicts is retried only finitely often.
JobsFinish == \A w \in Workers : job[w] # Idle ~> job[w] = Idle
=============================================================================
