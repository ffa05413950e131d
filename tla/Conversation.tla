---------------------------- MODULE Conversation ----------------------------
(***************************************************************************)
(* Multi-turn sessions: what a classify request reads of a conversation,   *)
(* what it carries over, and the turn it records.                          *)
(*                                                                         *)
(* classify is a coroutine.  It reads the history, awaits retrieval, the   *)
(* contextual retry and entity extraction, and only then records: other    *)
(* requests of the session run in between.  A stretch without an await is  *)
(* one step, except that append, prune and expire take the store lock one  *)
(* by one and a clear, which runs on a worker thread, may come between     *)
(* them.  While a request records, the event loop runs no other coroutine. *)
(*                                                                         *)
(* Time is a counter: it moves when a request arrives, when a turn is      *)
(* stored and on its own, so created_at never ties.  An entity's value is  *)
(* known by the session, the domain and the moment in which it was said.   *)
(***************************************************************************)
EXTENDS Naturals, FiniteSets

CONSTANTS
    Requests,     \* classify requests in flight, one coroutine each
    Sessions, Domains,
    Intents,      \* intents a classification may land on
    Entities,     \* entity names
    Schema,       \* the entities each intent declares
    HistoryTurns, \* session_history_turns, 0 for no limit
    Keep,         \* session_max_turns
    Ttl,          \* session_ttl_seconds
    SweepEvery,   \* recorded turns between two expiry sweeps, 50 in the code
    Unknown,      \* the verdict that names no intent
    Nil,          \* nobody
    MaxClock, MaxFaults, MaxCrashes   \* bounds

ASSUME ConversationAssumption ==
    /\ Schema \in [Intents -> SUBSET Entities]
    /\ HistoryTurns \in Nat /\ Keep \in Nat \ {0} /\ Ttl \in Nat
    /\ SweepEvery \in Nat \ {0}
    /\ Unknown \notin Intents /\ Nil \notin Requests

VARIABLES
    turns,      \* the session_turns collection
    clock,
    writes,     \* SessionService._writes_since_expiry
    pc,         \* where each request stands
    call,       \* classify()'s locals: the conversation, when it was asked, the
                \* turns read, the turn number given, the intent landed on so far
    recorder,   \* the request inside SessionService.record, or Nil
    faults, crashes

stored == <<turns, writes>>
locals == <<pc, call>>
counters == <<faults, crashes>>
vars == <<stored, clock, locals, recorder, counters>>

(***************************** types ***************************************)

Value == [session : Sessions, domain : Domains, at : Nat]

\* The entities an answer may hold.
Declared(verdict) == IF verdict = Unknown THEN {} ELSE Schema[verdict]

\* A row of session_turns; carried is kept in its snapshot.
IsTurn(a) ==
    /\ a.session \in Sessions /\ a.domain \in Domains
    /\ a.turn \in Nat /\ a.at \in Nat
    /\ a.intent \in Intents \cup {Unknown}
    /\ DOMAIN a.entities \subseteq Declared(a.intent)
    /\ \A n \in DOMAIN a.entities : a.entities[n] \in Value
    /\ a.carried \subseteq DOMAIN a.entities

IsCall(c) ==
    /\ DOMAIN c = {"session", "domain", "asked", "hist", "number", "verdict"}
    /\ c.session \in Sessions /\ c.domain \in Domains
    /\ c.asked \in Nat /\ c.number \in Nat
    /\ \A a \in c.hist : IsTurn(a)
    /\ c.verdict \in Intents \cup {Unknown}

Labels == {"idle", "asked", "unplaced", "resolved", "appended", "sweeping"}

(*************************** repository ************************************)

\* Every sort of turns is by number, then by creation time.
Before(a, b) == a.turn < b.turn \/ (a.turn = b.turn /\ a.at < b.at)

OfSession(s) == {a \in turns : a.session = s}
Talk(s, d) == {a \in turns : a.session = s /\ a.domain = d}

\* The last n of a set of turns.
LastOf(S, n) == {a \in S : Cardinality({b \in S : Before(a, b)}) < n}
Latest(S) == CHOOSE a \in S : \A b \in S : ~Before(a, b)

\* Mutant: the where clause without its domain.
HistoryOfAnyDomain(s, d) ==
    IF HistoryTurns = 0 THEN OfSession(s) ELSE LastOf(OfSession(s), HistoryTurns)
History(s, d) ==
    IF HistoryTurns = 0 THEN Talk(s, d) ELSE LastOf(Talk(s, d), HistoryTurns)

\* Mutant: one turn too many survives.
BeyondOffByOne(s) == OfSession(s) \ LastOf(OfSession(s), Keep + 1)
\* Mutant: the slice taken from the wrong end.
BeyondNewest(s) ==
    {a \in OfSession(s) : Cardinality({b \in OfSession(s) : Before(b, a)}) >= Keep}
\* What prune deletes.
Beyond(s) == OfSession(s) \ LastOf(OfSession(s), Keep)

Expired == {a \in turns : a.at + Ttl < clock}

(************************* session service *********************************)

\* Mutant: turns counted instead of numbered on from the last.
NextTurnNumberByCount(S) == Cardinality(S) + 1
NextTurnNumber(S) == IF S = {} THEN 1 ELSE Latest(S).turn + 1

\* Entities the new intent declares, the new turn did not name, and an earlier
\* turn did.
Carried(h, said, schema) ==
    {n \in schema \ DOMAIN said : \E a \in h : n \in DOMAIN a.entities}

\* Mutant: the history read from its oldest turn.
CarryOverOldest(h, said, schema) ==
    [n \in DOMAIN said \cup Carried(h, said, schema) |->
        IF n \in DOMAIN said THEN said[n]
        ELSE LET with == {a \in h : n \in DOMAIN a.entities}
             IN (CHOOSE a \in with : \A b \in with : ~Before(b, a)).entities[n]]
\* The most recent of those turns supplies the value.
CarryOver(h, said, schema) ==
    [n \in DOMAIN said \cup Carried(h, said, schema) |->
        IF n \in DOMAIN said THEN said[n]
        ELSE Latest({a \in h : n \in DOMAIN a.entities}).entities[n]]

\* What the provider may return: any entities, each named by this request or,
\* because it is shown the history, by an earlier turn, or with a value that
\* fits no type, Nil.
NoEntities == [n \in {} |-> Nil]
Heard(h) == UNION {{a.entities[n] : n \in DOMAIN a.entities} : a \in h}
Raw(c) ==
    LET own == [session |-> c.session, domain |-> c.domain, at |-> c.asked]
    IN UNION {[names -> {own, Nil} \cup Heard(c.hist)] : names \in SUBSET Entities}

\* The intent's schema is the allowlist, and a value that cannot be coerced to
\* its declared type is dropped.
Fits(value) == value # Nil
Accepted(raw, schema) ==
    [n \in {m \in DOMAIN raw \cap schema : Fits(raw[m])} |-> raw[n]]

\* Extraction may also be switched off, or fail: nothing is accepted then.
Sayings(c) == {Accepted(raw, Schema[c.verdict]) : raw \in Raw(c)}

(*********************** one classify request ******************************)

Leave(r) == pc' = [pc EXCEPT ![r] = "idle"] /\ call' = [call EXCEPT ![r] = Nil]

\* The history and the turn number are read before the first await.  Without
\* context the history is set aside and the number follows the whole session.
Begin(r, s, d, useContext) ==
    /\ pc[r] = "idle" /\ recorder = Nil
    /\ clock < MaxClock
    /\ call' = [call EXCEPT ![r] =
           [session |-> s, domain |-> d, asked |-> clock,
            hist |-> IF useContext THEN History(s, d) ELSE {},
            number |-> NextTurnNumber(IF useContext THEN History(s, d) ELSE OfSession(s)),
            verdict |-> Unknown]]
    /\ clock' = clock + 1
    /\ pc' = [pc EXCEPT ![r] = "asked"]
    /\ UNCHANGED <<stored, recorder, counters>>

\* The playground always asks with the conversation as context.
UiClassify(r, s, d) == Begin(r, s, d, TRUE)

\* Retrieval, with the automatic fall-back inside it, lands on an intent or not.
Retrieve(r) ==
    /\ pc[r] = "asked"
    /\ \E v \in Intents \cup {Unknown} :
         /\ call' = [call EXCEPT ![r].verdict = v]
         /\ pc' = [pc EXCEPT ![r] = IF v = Unknown THEN "unplaced" ELSE "resolved"]
    /\ UNCHANGED <<stored, clock, recorder, counters>>

\* A follow-up with something before it is tried again with the question before
\* it prepended, and the answer kept if it clears the floor.
Retry(r) ==
    /\ pc[r] = "unplaced"
    /\ \E v \in Intents \cup {Unknown} :
         /\ v # Unknown => call[r].hist # {}
         /\ call' = [call EXCEPT ![r].verdict = v]
    /\ pc' = [pc EXCEPT ![r] = "resolved"]
    /\ UNCHANGED <<stored, clock, recorder, counters>>

\* Extraction returns, earlier entities are carried over, and the turn is
\* appended: nothing is awaited from the first of these to the last.
Append(r) ==
    /\ pc[r] = "resolved" /\ recorder = Nil
    /\ clock < MaxClock
    /\ LET c == call[r]
           matched == c.verdict # Unknown
           schema == Declared(c.verdict)
       IN \E said \in (IF matched THEN Sayings(c) ELSE {NoEntities}) :
            turns' = turns \cup
              {[session |-> c.session, domain |-> c.domain,
                turn |-> c.number, at |-> clock, intent |-> c.verdict,
                entities |-> CarryOver(c.hist, said, schema),
                carried |-> Carried(c.hist, said, schema)]}
    /\ clock' = clock + 1
    /\ recorder' = r
    /\ pc' = [pc EXCEPT ![r] = "appended"]
    /\ UNCHANGED <<writes, call, counters>>

\* Mutant: the count of writes never starts again.
PruneNoReset(r) ==
    /\ pc[r] = "appended"
    /\ turns' = turns \ Beyond(call[r].session)
    /\ writes' = writes + 1
    /\ Leave(r) /\ recorder' = Nil
    /\ UNCHANGED <<clock, counters>>

\* The session is cut to size, and every SweepEvery-th write goes on to expire.
Prune(r) ==
    /\ pc[r] = "appended"
    /\ turns' = turns \ Beyond(call[r].session)
    /\ \/ /\ writes + 1 < SweepEvery
          /\ writes' = writes + 1
          /\ Leave(r) /\ recorder' = Nil
       \/ /\ writes + 1 >= SweepEvery
          /\ writes' = 0
          /\ pc' = [pc EXCEPT ![r] = "sweeping"]
          /\ UNCHANGED <<call, recorder>>
    /\ UNCHANGED <<clock, counters>>

\* expire: every session at once.
Sweep(r) ==
    /\ pc[r] = "sweeping"
    /\ turns' = turns \ Expired
    /\ Leave(r) /\ recorder' = Nil
    /\ UNCHANGED <<writes, clock, counters>>

(************************* the rest of the world ***************************)

\* DELETE /sessions/{id}, on a worker thread.
Clear(s) ==
    /\ OfSession(s) # {}
    /\ turns' = turns \ OfSession(s)
    /\ UNCHANGED <<writes, clock, locals, recorder, counters>>

\* An exception in retrieval, in a write or in the sweep ends the request and
\* takes nothing back.
Fail(r) ==
    /\ pc[r] # "idle"
    /\ faults < MaxFaults
    /\ faults' = faults + 1
    /\ Leave(r)
    /\ recorder' = IF recorder = r THEN Nil ELSE recorder
    /\ UNCHANGED <<stored, clock, crashes>>

\* The turns survive; the requests in flight and the count of writes do not.
Restart ==
    /\ crashes < MaxCrashes
    /\ crashes' = crashes + 1
    /\ writes' = 0
    /\ pc' = [r \in Requests |-> "idle"]
    /\ call' = [r \in Requests |-> Nil]
    /\ recorder' = Nil
    /\ UNCHANGED <<turns, clock, faults>>

Tick ==
    /\ clock < MaxClock
    /\ clock' = clock + 1
    /\ UNCHANGED <<stored, locals, recorder, counters>>

(**************************** specification ********************************)

Init ==
    /\ turns = {} /\ clock = 0 /\ writes = 0
    /\ pc = [r \in Requests |-> "idle"]
    /\ call = [r \in Requests |-> Nil]
    /\ recorder = Nil
    /\ faults = 0 /\ crashes = 0

Step(r) == Retrieve(r) \/ Retry(r) \/ Append(r) \/ Prune(r) \/ Sweep(r)

Next ==
    \/ \E r \in Requests :
         \/ \E s \in Sessions, d \in Domains, useContext \in BOOLEAN : Begin(r, s, d, useContext)
         \/ \E s \in Sessions, d \in Domains : UiClassify(r, s, d)
         \/ Step(r) \/ Fail(r)
    \/ \E s \in Sessions : Clear(s)
    \/ Restart \/ Tick

Spec == Init /\ [][Next]_vars

(****************************** properties *********************************)

\* Every stored turn, history and request holds values of its kind, and a turn
\* no entity but the ones its intent declares, whatever the provider returned
\* and earlier turns of other intents held (entity_schema.validate); the count
\* of writes never passes the sweep it triggers, and a request inside record()
\* is alone there.
TypeOK ==
    /\ \A a \in turns : IsTurn(a)
    /\ clock \in Nat /\ writes \in 0 .. (SweepEvery - 1)
    /\ pc \in [Requests -> Labels]
    /\ DOMAIN call = Requests
    /\ \A r \in Requests : pc[r] # "idle" => IsCall(call[r])
    /\ recorder \in Requests \cup {Nil}
    /\ faults \in Nat /\ crashes \in Nat
    /\ \A r \in Requests : pc[r] \in {"appended", "sweeping"} <=> recorder = r

\* "Sessions are isolated by id and by domain" (README): whatever requests
\* overlap, fail, or are cleared, an entity value stored with a turn was said in
\* that turn's session and about that turn's domain.
Isolated(a) == \A n \in DOMAIN a.entities : /\ a.entities[n].session = a.session
                                            /\ a.entities[n].domain = a.domain
Isolation == \A a \in turns : Isolated(a)

\* What makes Isolation inductive: a history read for a request holds turns of
\* its own conversation only.
HistoryIsolated ==
    \A r \in Requests : pc[r] # "idle" =>
        \A a \in call[r].hist :
            Isolated(a) /\ a.session = call[r].session /\ a.domain = call[r].domain

\* "Per-session size [is] enforced on write": unless a record was cut short by
\* an exception or a crash, no session is left with more than Keep turns.
SizeBounded ==
    recorder = Nil =>
        \A s \in Sessions : Cardinality(OfSession(s)) <= Keep + faults + crashes

\* "Earlier turns in this session for this domain, oldest first"
\* (ChromaSessionRepository.history): the order turns are read in is the order
\* they were stored in, and no two have one number.
OldestFirst ==
    \A a, b \in turns :
        a.session = b.session /\ a.domain = b.domain /\ a.at < b.at => a.turn < b.turn

\* "Drop the oldest turns beyond keep" (prune): of the turns about one domain,
\* the ones that go were stored before any that stays.
PrunesInOrder ==
    [][\A r \in Requests : pc[r] = "appended" /\ pc'[r] # "appended" =>
          \A a \in turns \ turns', b \in turns' :
              a.session = b.session /\ a.domain = b.domain => a.at < b.at]_vars
\* "Most recent turn wins" (SessionService.carry_over): a carried value is the
\* one held by the last stored turn of the conversation that has the entity.
CarriesLatest ==
    [][\A r \in Requests : pc[r] = "resolved" /\ pc'[r] = "appended" =>
          \A c \in turns' \ turns : \A n \in c.carried :
              \A b \in Talk(c.session, c.domain) :
                  n \in DOMAIN b.entities =>
                      \/ b.entities[n] = c.entities[n]
                      \/ \E a \in Talk(c.session, c.domain) :
                            a.at > b.at /\ n \in DOMAIN a.entities]_vars
=============================================================================
