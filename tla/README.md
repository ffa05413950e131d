# Intent classifier: a TLA+ verification project

The service classifies a sentence into one of a domain's *intents* by comparing it with
example sentences. Its state is a Chroma store on disk and indexes in memory; its clients
are concurrent HTTP requests. This directory models the parts of it whose correctness
depends on order (locks, awaits, cascades, retries, failures, restarts) and the decisions
whose arithmetic is easy to get wrong, checks them with TLC on small instances and proves
the safety properties with TLAPS for every instance.

Paths below are relative to `src/`.

## The system

| component | source | state it keeps | operations |
|---|---|---|---|
| Domain, intent and example services | `app/services/{domain,intent,example}_service.py` | none; they guard the rows | create, update, delete, add_many; uniqueness and cascades under the store lock, then an index rebuild |
| Chroma store and repositories | `app/db/chroma.py`, `app/repositories/` | collections `domains`, `intents`, `intent_examples`, `session_turns`, `mcp_tools`; one re-entrant lock | get, query, add, update, delete, each under the lock; reset_all |
| Index manager | `app/services/index_manager.py` | per domain a BM25 index, a dirty mark, a version; one re-entrant lock | get, build, mark_dirty, rebuild, warm, drop, status |
| Catalogue routes | `app/api/v1/` | none | the domain check before each service call |
| Startup and seeding | `app/main.py`, `app/services/container.py`, `scripts/seed.py` | a catalogue file | seed an empty store, warm every index; seed, reset, export, import |
| Retrieval and scoring | `app/services/classifier.py`, `rrf.py`, `aggregator.py`, `confidence.py`, `strategies.py` | none | fusion, aggregation, confidence, thresholds, reasons for UNKNOWN |
| Classification orchestration | `app/services/classification_service.py` | none | history, retrieval, automatic fall-back, contextual retry, extraction, carry-over, record |
| Sessions | `app/services/session_service.py`, `app/repositories/chroma_sessions.py` | `session_turns`; writes since the last sweep | history, record (append, prune, expire), clear |
| MCP registry and routing | `app/services/mcp_service.py`, `tool_router.py`, `app/repositories/chroma_mcp.py` | `mcp_tools` | create, update, delete, import, resolve; build_call, route |
| Generation and authoring | `app/services/llm/`, `intent_authoring.py`, `entity_schema.py` | none | ask a provider, clean its reply, write the draft, retry a batch |
| Evaluation | `app/services/evaluation.py` | none; a report | classify every case of a dataset |
| Operator UI | `app/ui/routes.py` | none | the same operations through forms, some with reads and writes of their own |
| Observability and configuration | `app/observability/`, `app/api/v1/health.py`, `app/config.py` | counters and a log | health, audit |
| Authentication and scope | `app/security/auth.py` | keys read from settings | authenticate, authorise a domain |

How they interact. A mutating route checks the domain, calls a service on a worker
thread, and the service takes the store lock, reads, checks, writes and asks the index
manager to rebuild while it still holds that lock. The index manager takes its own lock
and then, for each read, the store's. A classification resolves the domain, then reads
the intents, the index and the vectors, each in a critical section of its own. `POST
/classify` is a coroutine on the event loop: it reads the session, awaits retrieval and
extraction, and records the turn, so requests of one session overlap at the awaits. A
generation is a coroutine too: it reads the catalogue, awaits the provider, and writes its
draft through the services, row by row. An import of tools holds the store lock over many
writes. Server and catalogue script open the same directory, one after the other.

What is hard in it:

* two re-entrant locks taken in both orders;
* an index built from two separate reads while mutations run;
* checks made before the lock and used after it (`add_many` reads the intent first);
* cascades, imports and seedings of several Chroma calls, with no transaction, cut short by
  an error or a crash;
* a history, a turn number, a list of names, a copy of an intent read before an await and
  used after it;
* turns numbered by session *and* domain, but pruned and looked up by session;
* an expiry sweep counted in memory;
* a batch retried without an offender that is found in the wording of an error;
* references taken apart at the first of several separators;
* scores normalised by a ceiling computed elsewhere.

## Modules

| module | models | correspondence |
|---|---|---|
| `Catalogue` | services, store, index manager, catalogue routes | `domains`, `intents`, `examples` are the collections; `index`, `dirty`, `versions` the index manager's dictionaries; `storeLock`, `indexLock` own the two locks; `pc`, `req`, `actives`, `held` are a worker thread's locals |
| `CatalogueHistory` | what a classification sees of a changing corpus | extends `Catalogue` with two history variables that restrict nothing |
| `Conversation` | classify orchestration and sessions | `turns` is the collection; `writes` the sweep counter; `call` a coroutine's locals; `recorder` the request that is inside `record` |
| `ToolDirectory` | the abstract specification of the MCP registry | at most one tool under a key, an identifier never issued twice |
| `Registry` | MCP service, routes and pages, binding, routing | `tools` is the collection, `issued` what `new_id` has returned, `importing` the import that holds the lock, `request` what a caller still has to do |
| `Authoring` | generation with a language model, instructions | `client` the selected provider, `domain`, `intents`, `examples`, `tools` the rows as far as drafting looks at them, `job` a coroutine's locals |
| `Verdict` | one classification's decision and the automatic fall-back | `dense`, `lexical` the ranked lists, `queue` the strategies to try, `first` and `answer` the outcomes |
| `Evaluation` | the evaluation run, composed with `Verdict` | `known`, `next` the loop's locals, `results`, `skipped`, `problem` the report |
| `Lifecycle` | server start, catalogue script, health | `file` the exported catalogue, `job`, `at`, `todo` the process and where it stands, `index` and `dirty` its memory |
| `CatalogueProof`, `RowsProof`, `EvidenceProof` | theorems about `Catalogue` and `CatalogueHistory` | `EvidenceProof` extends `CatalogueProof`, whose invariants it builds on |
| `ConversationProof`, `RegistryProof`, `AuthoringProof`, `EvaluationProof`, `LifecycleProof` | theorems about the modules they are named for, `Verdict` with `Evaluation` | each extends its module |
| `MC...` | instances for TLC | batches, replies, names, schemas, symmetry sets |

Granularity of `Catalogue`. A step is one Chroma call, or one critical section no other
thread can see into: taking a lock, the checks made under it and the first write are one
step, because nobody reads or writes a row between them. `_lock` and `lock` are re-entrant,
so a repository call inside a service's section is free for its owner. Each call on Chroma
is atomic; `Fail` is a call that raises, which releases what its thread held and answers
the request. `Restart` loses threads, locks and indexes, keeps the rows, and ends with the
warm-up of `lifespan`. Everything a handler writes afterwards on its own account (audit,
metrics) is left out.

`Conversation`. A step is a stretch of a coroutine without an await, except that
`append`, `prune` and `expire` take the store lock separately: a `DELETE` of the session
runs on a worker thread and may fall between them. The event loop runs nothing else in
that time, which `recorder` expresses. Retrieval is a free choice of verdict. An entity's
value is the triple of session, domain and moment in which it was said. The extractor may
answer with anything (`Raw`); `Accepted` keeps what the intent declares and what can be
coerced to its type, `Fits` being a free choice since types are not told apart.

`Registry`. A mutation is one step, because it holds the lock from its check to its only
write. An import is a job with one step per entry and per removal, any of which may raise,
and a crash between any two. The audit entry or the page that follows a mutation, the two
halves of the page's binding and the stretch from a classification's copy of the intent to
the routing are steps of their own. A name is a sequence of tokens, each underscore one of
them, so that `Resolve` takes a reference apart where the code does: at the first two
underscores, even if one of them ends the server's name.

`Authoring`. Each service call is one step: `Catalogue` opens them up. A job reads, waits,
cleans the reply against what it read *before* the wait, and writes row by row while
`Editors` change the same domain. Replies are members of a small set, chosen to have a name
in another spelling, an unusable one, an unknown tool, repeated texts, fields with unknown
types, no name, or values that cannot be listed. An edit of the instructions writes both
blocks, as the page does, or the ones it names, as `PUT /domains/{id}` does; `domain.written`
says whether the last writer named them all. The rule-based provider answers by its
table, by a tool's name or from the texts it was shown. Example texts are told apart by
their normal form (`Norm`) and by what an error about them quotes (`Quotes`).

`Verdict`. Numbers are integers: percent for similarities and signals, `10^8 \div (k +
rank)` for a rank's weight. A score is rounded to a hundred of these, the sixth decimal of
`aggregate`; the ceiling is not, as in the code. The three reads may return anything they
could in the code, an index entry of an inactive intent included. Ties are broken either
way, since the code's order depends on the order of insertion. `Evaluation` runs an attempt
of `Verdict` per case, under the strategy it was asked for or, with A/B testing on, one of
the variants; a case that makes no request ends the run without a report.

`Lifecycle`. A step is one call of a service or one collection of `reset_all`. A domain is
its name and an intent a pair of names. A running server's mutations are whole edits, or
what one leaves that a failing call cuts short: between its writes, or in the rebuild after
them. `torn` records the domains cut short before the rebuild could mark them. The script
runs only while the server is down, as its warning demands (`SINGLE_WRITER_WARNING`).

## Runs

Passing runs end with the state space exhausted.

| run | instance | what it shows |
|---|---|---|
| `race` | 2 threads, 1 domain, 1 intent, 1 example, 2 names, all kinds of request, 1 failing call, 1 restart, 3 builds per domain | `LockDiscipline`; `IndexFresh`: an index handed out without a build equals the rows; `DirtyMeansFailed`; `TypeOK` |
| `sequential` | 1 thread, 2 domains, 2 intents, 1 example, 2 names, 1 failing call | `NoOrphans` and `NamesCurrent`, for one request at a time |
| `progress` | 2 threads, 1 domain, 2 intents, 2 names, mutations only, 2 builds | `UniqueNames`: creations and renames that race for a name; `RequestsFinish`, and the absence of deadlock |
| `evidence` | 2 threads, 1 intent, 2 examples, batches that repeat a text | `EvidenceIsCurrent`: a classification ranks every document that was there throughout and none that never was; `UniqueTexts` |
| `overlap` | 2 requests, 2 sessions, 2 domains, 1 failure, 1 restart, a limit of 1 turn, a sweep every 2 writes | `Isolation`; `SizeBounded`; `TypeOK`, by which a turn has only entities its intent declares |
| `dialogue` | 1 request at a time, 2 domains, a limit of 2 turns | `OldestFirst`, `PrunesInOrder`, `CarriesLatest` |
| `registry` | 2 callers, 2 servers (one with `.` inside and `_` at its end), 3 names with `__` (two equal but for case, one with `.`), a binding that a tool of either server could claim, 2 identifiers, imports that list a tool twice, 1 write that raises | `DirectorySpec`, the refinement; `NamesLeadBack`, `BindingsStable`: what a tool is called by leads to it and is not diverted; `CallsHonest`: a reported call is what the binding says now; `ImportConfined` |
| `drafts` | 1 job, 3 rows, 4 replies, 2 batches (one of them given up, since its repeated text is not quoted whole), both providers, 2 edits beside it, one block or both | `GenerationOnlyAdds`, `OnlyDuplicatesSkipped`, `BatchAccounted`, `InstructionsWhole`; `JobsFinish` |
| `verdicts` | 4 cases, one of them badly stated, automatic fall-back or A/B testing of two strategies, 2 intents, 3 examples, ranked lists of up to 2, one domain created or deleted meanwhile | `CeilingHolds` but for the rounding, `NumbersDoNotWin`, `RescueEarned`; `CasesAccounted`: every case is in the report, whose figures agree with each other |
| `startup` | 2 domains, a demo of 1 domain, 2 intents and 2 texts, 2 edits, whole or cut short, 1 failing call, 1 crash | `SeedingCompletes`, `SeedingSpares`, `RestoreIsExact`, `ReportsFresh`, `NoOrphans`; `JobsEnd` |
| `waits` | 2 threads | **violated**: `NoCircularWait` |
| `restore` | no failure, no crash | **violated**: `RestoreBringsBack` |

Bounds. Ids, names and texts are finite sets. In `Catalogue` uuids are never minted twice,
so an instance stops when they are spent; `MaxVersion` admits no request to a domain rebuilt
that often, `MaxClock` no arrival after that moment, `MaxFaults` and `MaxCrashes` count
failing calls and restarts, `MaxEdits` and `MaxChanges` what others do beside a job,
`MaxDomains` the domains ever created, `MaxOperations` and `MaxPhrasings` cut the rule-based
provider's table (eight operations of eight phrasings) to two. Two threads or requests are
enough for each race: a property relates one writer to one other actor. One generation and
two edits are enough for `drafts`, since a job only adds and a second one's writes are
among the edits. The limits of a session are as small as lets pruning and sweeping happen on
most writes (the defaults are 50 turns and 50 writes; the actions depend only on whether a
limit is reached). In `verdicts` similarities below and above the floor and `TopN = 1`
let one intent have more support than the aggregate counts. Threads, requests, callers, ids
and examples of one intent are compared for equality only, so permuting them is sound; runs
with liveness use no symmetry. `CHECK_DEADLOCK FALSE` is given wherever an instance may run
out of ids or of time, and in `race` and `evidence` also because readers are there: the
deadlock that `waits` isolates is part of the code's behaviour, and those runs check safety
up to it. `progress` and `startup` check for deadlock.

Fairness. `RequestsFinish` assumes weak fairness of each thread's next step: a worker
thread is runnable whenever the lock it waits for is free. It says nothing of a thread that
loses a lock again and again to new arrivals, because the load is finite (`MaxVersion`,
spent ids); the code's locks are not fair. It is checked for mutations alone, since with
readers the deadlock of `waits` is a counterexample. `JobsFinish` assumes weak fairness of a
requested job's own steps: the event loop runs what is ready, and the provider's client has
a time-out and bounded retries. `JobsEnd` assumes it of a started process's steps; a crash
or a failing call ends it otherwise. Nobody has to send a request or to start a process.

Refinement. `Registry!DirectorySpec` instantiates `ToolDirectory` with the set of stored
tools, each by identifier, folded key and the rest. Every step of the registry is one of the
directory's or a stutter; run `registry` checks it and `RegistryIsDirectory` proves it.

Each property of a passing run is paired in `PROJECT.json` with a mutant of the model, a
plausible bug of the code, under which TLC finds it violated. A mutant's operator stands
before the definition it would replace and no specification uses it.

## What the violated runs show

* `waits`. A mutation owns the store and wants the index manager; a status report, a
  reindex, or a classification of a domain whose index must be built owns the index
  manager and wants the store. Both stop, and every later request behind them. The README
  (671-672) speaks of "a single lock"; there are two.
* `restore`. `scripts/seed.py` calls export and import "the backup story". The file leaves
  out an intent's status, its tool's version and its MCP binding, a domain's status, and
  the registered tools, which `--reset` deletes: an intent that was switched off answers
  again after a restore. What the file does hold comes back exactly (`RestoreIsExact`).

## Where the code keeps less than one might expect

Met while modelling, and reachable in the models; the properties above are stated so as to
hold beside them.

* Examples that `add_many` adds while their intent or domain is deleted outlive it, and
  those added during a rename keep the old name: the intent is read before the lock. Hence
  `NoOrphans` and `NamesCurrent` are checked for one request at a time.
* A rename that fails after the row is saved leaves old names in the examples, and repeating
  it repairs nothing.
* Overlapping requests of one session take the same turn number, or store numbers out of
  order (`OldestFirst`, `CarriesLatest`: one request at a time).
* Turn numbers start again in each domain, and pruning sorts a session by them: the first
  turn about a new domain goes before older turns of the other. `PrunesInOrder` is about
  one domain. For the same reason the playground's page of a turn (`app/ui/routes.py:665`)
  never shows the second domain's turn of that number.
* A request in flight when its session is deleted stores carried values again.
* The TTL is not enforced on every write (README 333-334): the sweep comes every fifty
  writes, counted in memory and from nought after a restart, and no read looks at a turn's
  age.
* `carry_over` takes a value that fitted an earlier intent's type of that name and does not
  look at it again under the new one's.
* An offender is the first text of the batch that the error quotes: one contained in
  another's quotation can be dropped in its place. `drafts` has no such texts.
* The error quotes a repeated text as it was sent and `_offending_text` looks for it as it
  is. Where no text of the batch is found, as for one cut at 2000 characters after a space,
  the rest of the batch is given up with one note (`GiveUpBatch`;
  `app/services/intent_authoring.py:185-187`).
* `PUT /domains/{id}` with one instruction block leaves it beside another author's
  (`app/services/domain_service.py:79-85`). `InstructionsWhole` is about the other writers:
  what is written as a pair stays one until such an edit.
* `_clean_entity_schema` raises on `"items": "string"` or `"values": null` instead of
  skipping the field; the whole request fails, before any write.
* A tool whose server's name holds `__` or ends in `_` cannot be reached by its qualified
  name (`NamesLeadBack` leaves it out): `resolve` splits at the first `__` after the prefix,
  so `mcp__a___b`, the tool `b` of server `a_`, is looked up as `_b` of `a`. `server::tool`
  leads nowhere when the server is called
  `mcp__...` and another `__` follows, as in `mcp__a::get__all`: `resolve` takes it for a
  qualified name and does not come back (`PairsPlain`). An import with `replace` removes a
  tool whose entry it had to skip (`ImportConfined` allows it). Registry changes through the
  UI leave no audit entry. A binding set through the UI writes back the tool name and
  version read before.
* A domain with an inactive intent that has examples is reported degraded for ever, although
  its index is current; the UI's `in_sync` does not look at the dirty mark.
* An intent's update whose renaming of examples raises, and the deletion of an intent or a
  domain cut short between two writes (`app/services/intent_service.py:75-79`, `:85-87`,
  `app/services/domain_service.py:95-98`), reach neither rebuild nor dirty mark: the index
  stays READY and is stale until the next mutation or restart. Where an inactive intent has
  as many examples as went, health calls it ok (`app/api/v1/health.py:52`). `ReportsFresh`
  leaves out the domains of `torn`; without that TLC violates it.
* `aggregate` rounds a score to six decimals and `max_possible_score` is not rounded: at the
  default settings a perfect score is 0.096791 against a ceiling of 0.0967909815, and the
  clamp in `app/services/confidence.py:58-59` cuts the excess. `CeilingHolds` allows half a
  unit of the sixth decimal.
* A case of the evaluation dataset without a domain, or with a text no request may hold,
  raises outside the `try` (`app/services/evaluation.py:161`, `:166-171`): the run ends with
  no report. With A/B testing on and no variant asked for, the report is labelled with the
  default strategy, while each case is assigned a variant of its own
  (`app/services/strategies.py:135-145`).
* The demo catalogue reappears at the next start once every domain has been deleted; half a
  catalogue, left by an interrupted seeding, is not completed by a start. The script resets
  the store before it opens the file to import.

## Proofs

Every safety invariant and every action property of a passing run is a theorem, and so is
the registry's refinement. Theorems hold for every value of the constants under the named
assumptions of each module, which TLC evaluates in every run. Where a theorem has a
hypothesis of its own it is because the code does not keep the property without it.

Assumptions that say something of the code, besides kinds, naturals and `Nil` being no other
value:

* `Registry!SpellingAssumption`: names hold no `:` and no `/` (`SERVER_PATTERN`,
  `TOOL_PATTERN` in `app/models/mcp.py`), identifiers are hexadecimal (`new_id`), folding
  case leaves separators alone. `IntentAssumption`: a store holds finitely many intents.
* `Authoring!ReplyAssumption`, `RuleAssumption`: a coerced name fits the pattern or is none,
  a reply is a finite list. `SupplyAssumption`: `new_id` does not run dry.
  `PairAssumption`: instructions are two blocks.
* `Verdict!SettingsAssumption`: `retrieval_top_k`, `rrf_k` and `agg_top_n` are at least 1
  (`ge=1` in `app/config.py`), a similarity is a percentage between -100 and 100.
* `Evaluation!CasesAssumption`: no case expects an intent called `ERROR`, the mark of a case
  that raised. The name pattern admits such an intent; a case that expects it would be
  counted right when its classification fails.
* `Lifecycle!FiniteAssumption`, and that an intent's domain is a domain.

**The catalogue.** `CatalogueProof!TypeCorrect`: one lemma per operation; what could go
wrong is a field the payload leaves unset reaching a row. `LocksExclude`: `LockDiscipline`
from `LockInv`, which adds that a thread's label fits the kind of its request, because
labels shared by mutations and readers say who holds the store only together with the kind.

`IndexesStayFresh`: `IndexFresh` is not inductive. `FreshInv` adds `Homes` (an intent never
leaves its domain, so a mutation of one domain cannot touch another's corpus), `OthersFresh`
(while a thread owns the store, only the domain it mutates can be stale) and `BuildsCurrent`
(the intents a build has listed are still right unless another thread is mutating that
domain). The last is the heart of it: a build reads twice without the store lock in between,
and what saves it is that a mutation cannot finish before it has the index lock the build
holds. The same order is what makes the deadlock possible.

`EvidenceProof!DirtyOnlyAfterFailure` is inductive once one says which threads are on their
way to a rebuild. `EvidenceStaysCurrent` puts `EvidenceInv` over `FreshInv`: what an index
in hand held when it was handed out covers the documents recorded as stable, and every
mutation narrows those records as it changes the corpus.

`RowsProof!NamesStayUnique`, `TextsStayUnique` hold for any number of threads, where the runs
have one or two: the rows move by few kinds of change, and the two that could repeat a
value, a row named and a batch stored, carry the service's check in the same section of
the lock. `CascadesLeaveNoOrphans` (`RootedInv`: what a thread has read of a parent is still
so) has the hypothesis that requests do not overlap or that none deletes a domain or an
intent, and `RenamesReachExamples` (`NamedInv`) that they do not overlap or that none edits
an intent: `add_many` reads the intent before it has the lock, and without the hypothesis
TLC violates both.

**Sessions.** `ConversationProof!TypeCorrect` rests on `Timed` (turn numbers never run ahead
of the clock, turns are older than now), which bounds the sets a last turn is taken of, so
that `history[-1]` exists and `carry_over` finds a value for every entity it carries.
`ConversationsApart`: `Isolation` from `HistoryIsolated`, what a request read belongs to its
own conversation, and nothing else reaches a turn.

`SessionsStaySmall`: the turns are told apart by their moment, so the last `n` of a set are no
more than `n` (`LastOfSize`); the count of a session is then bounded by the limit, the
records cut short, and the one in the making (`Pending`), however many requests overlap.

`ReadInTheOrderStored`, `OldestGoFirst`, `LatestValueWins`, for requests that follow one
another, with any clearing, failure and restart between their steps: `OrderInv` says that
the number a waiting request was given is above every number of its conversation
(`Numbered`) and that the history it holds is that conversation's end or all of it is gone
(`HistoryLast`). `LastComeLater` and `LastIsLatest` are the facts about slices: what is cut
off comes first, and cutting does not lose the last. With two requests in flight
`OldestFirst` is false, since they may be given one number.

**The registry.** Whatever a request or an import does, the store sees one of four kinds of
step (`StepKinds`): a tool is added under a free key, changed to a key no other has, dropped,
or nothing happens. `KeysUnique` and `RegistryIsDirectory`, `Spec => DirectorySpec`, follow
from the kind alone. `ImportsStayConfined` adds that what is still to be removed was not seen
in the payload, which holds because nobody else writes while an import has the lock.

`BindingsKeepTheirMeaning`, for any reference at all: since names hold no `::` and no `/`, a
text that has one of these leads nowhere when it is split at another separator
(`OtherSplits`), so one separator at most leads anywhere (`OneSplit`) and the order in which
`resolve` tries them never matters. What a reference means then hangs on one key, and keys
are unique. `SplitAt` says when two names come apart as they were joined: no separator may
begin inside the server's name, not even one that ends behind it, which for `__` is exactly
that the name neither holds it nor ends in `_`. `ToolsAnswerToTheirNames` has the hypothesis
`PairsPlain`, exactly what its second conjunct needs (see above for the pairs that fail).
`ReportedCallsAreHonest` holds for every typed state: a call is built from the store as it
is when the answer is made.

**Authoring.** `DraftsTyped`, `NoTextUnaccounted`, `InstructionsFromOneAuthor` from one
invariant, `IInv`: what a job holds, by where it stands, and that no two intents have one
name (`NamesApart`). The latter is what bounds the identifiers in use, so that a row can
always be written. `OnlyDuplicatesReported` has the hypothesis that no text is quoted inside
the error about another (`QuotesOne`); `_offending_text` takes the first text of the batch
that the error contains. `DraftsOnlyAdd` is an action property over the same invariant.

**Verdict and evaluation.** `EvaluationTyped`, `NoneAboveTheCeiling`, `ManyWeakNeverWin`,
`FallBacksEarnTheAnswer` and `NoCaseLost` from `VerdictInv` (lists are read only where the
strategy asks for them; while a fall-back is tried, the first attempt placed nothing) and
`ReportInv` (every case before the next one has a result, or its domain is noted).
`NoneAboveTheCeiling` counts: a list gives an intent no more than its best `top_n` ranks,
one rank at most to each document (`ListGivesAtMost`), and rounding the sum adds no more than
half a digit. `ManyWeakNeverWin` compares sums term
by term.

**Start and script.** Three invariants, each over the one before: `Typed /\ RootInv`
(parents first in what is still to be seeded), `SeedInv` (what seeding has done, and from
what) and `FreshInv` (memory against the store, for the domains that are not `torn`). They
give `StoreWellTyped`, `NoProcessLeavesOrphans`, `SeedingSparesAll`,
`RepeatedSeedingCompletes`, `RestoreExact` and `ReportsStayFresh`. `PlanSound` says what the
calls of a seeding are, for every catalogue.

Folds and recursive functions. The theorems of induction take an operator as a parameter,
which the provers cannot instantiate. What the proofs need about folds is shown instead from
a least counterexample, by the well-foundedness of the naturals (`LeastNumber`, `Climbing`,
`Growing`).

Only model-checked: liveness, `RequestsFinish`, `JobsFinish` and `JobsEnd`, since fairness
and ENABLED are outside the prover's reach. The two violated properties are shown by their
counterexamples.

## Not modelled

* How a score or a vector comes about: BM25 arithmetic, embeddings, tokens. `Verdict` takes
  any ranked lists, with any similarity of the instance. Its weights are cut to 10^-8,
  and its confidence to whole percent.
* Authentication and domain scope: a function of a request's key, with no state to
  interleave. Requests of the models are those that were admitted.
* `mcp_executor`: one HTTP request to a tool, which changes nothing here.
* Batches that fail half way inside one Chroma call, and the metadata encoding.
* Prompt wording, HTTP retries (an answer or an outage), notes on what was skipped, the
  rule-based provider's extraction of entities, the coerced form of a value, the snapshot a
  turn keeps of its decision.
* Rendering of pages, the session list, metrics and spans; `scripts/demos`,
  `build_demo.py`, `build_api_docs.py` and the render scripts, which write documents and
  images. `IndexManager.clear`, which only tests call.
* Simplifications of `Authoring`: a name of the rule-based provider is written
  without its domain prefix, its texts as an operation and a number; an intent a person
  creates has no schema.

## Plan

Done: the store, its lock discipline and the derived index; the conversation across awaits;
the registry, with its refinement; authoring; the verdict and the evaluation; start and
script; and the proofs of every safety property the passing runs check.

Left, in this order:

1. *Refinement*: an abstract live index, one set of classifiable documents per domain changed
   atomically, and `Catalogue` shown to implement it where a classification responds.
2. *Operators*: what `CarryOver`, `Resolve` and the cleaning of a reply return, stated once
   as lemmas for a reader who changes them.
3. *Scope*: which key may reach which domain, as operators over keys, roles and domains.
