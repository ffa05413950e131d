-------------------------- MODULE ConversationProof --------------------------
(* Theorems about Conversation, for every set of requests, sessions, domains, *)
(* intents and entities, and every limit.                                     *)
EXTENDS Conversation, WellFoundedInduction, FiniteSetTheorems, TLAPS

(******************************* turns *************************************)

\* A set of naturals has a least member.
LEMMA LeastNat ==
  ASSUME NEW T, T \subseteq Nat, T # {}
  PROVE  \E x \in T : \A y \in T : x <= y
<1> DEFINE Less == {p \in Nat \X Nat : p[1] < p[2]}
<1>1. IsWellFoundedOn(Less, Nat)
  BY NatLessThanWellFounded DEF OpToRel
<1>2. PICK x \in T : \A y \in T : <<y, x>> \notin Less
  BY <1>1, WFMin
<1>3. \A y \in T : ~(y < x)
  <2> SUFFICES ASSUME NEW y \in T PROVE ~(y < x)
    OBVIOUS
  <2>1. <<y, x>> \in Nat \X Nat /\ <<y, x>> \notin Less
    BY <1>2
  <2> QED BY <2>1
<1> QED BY <1>3

\* Turns numbered and dated below a bound have a last one, the one sorted()
\* would put at the end: history[-1] is defined.
LEMMA LatestIsLast ==
  ASSUME NEW S, S # {}, NEW m \in Nat,
         \A a \in S : a.turn \in 0 .. m /\ a.at \in 0 .. m
  PROVE  Latest(S) \in S /\ \A b \in S : ~Before(Latest(S), b)
<1> DEFINE T == {m - a.turn : a \in S}
<1>1. T \subseteq Nat /\ T # {}
  OBVIOUS
<1>2. PICK a \in S : \A b \in S : m - a.turn <= m - b.turn
  <2>1. PICK x \in T : \A y \in T : x <= y
    BY <1>1, LeastNat
  <2> QED BY <2>1
<1>3. \A b \in S : b.turn <= a.turn
  BY <1>2
<1> DEFINE U == {m - b.at : b \in {c \in S : c.turn = a.turn}}
<1>4. U \subseteq Nat /\ U # {}
  OBVIOUS
<1>5. PICK c \in {b \in S : b.turn = a.turn} :
        \A b \in {e \in S : e.turn = a.turn} : m - c.at <= m - b.at
  <2>1. PICK x \in U : \A y \in U : x <= y
    BY <1>4, LeastNat
  <2> QED BY <2>1
<1>6. \A b \in S : ~Before(c, b)
  BY <1>3, <1>5 DEF Before
<1> QED BY <1>6 DEF Latest

\* A history holds turns of its own conversation and no others.
LEMMA HistoryOwn ==
  ASSUME NEW s, NEW d
  PROVE  History(s, d) \subseteq {a \in turns : a.session = s /\ a.domain = d}
BY DEF History, LastOf, Talk

(*************************** type correctness ******************************)

\* Turns are numbered no faster than the clock moves, and every turn a request
\* holds is older than now.  It bounds every set a last turn is taken of.
Dated(a) == a.turn <= a.at /\ a.at < clock
Timed ==
    /\ \A a \in turns : Dated(a)
    /\ \A r \in Requests : pc[r] # "idle" =>
         /\ call[r].asked < clock
         /\ call[r].number <= call[r].asked + 1
         /\ \A a \in call[r].hist : Dated(a)

TypeInv == TypeOK /\ Timed

\* The number given to a new turn.
LEMMA NumberTyped ==
  ASSUME NEW S, NEW m \in Nat,
         \A a \in S : a.turn \in 0 .. m /\ a.at \in 0 .. m /\ a.turn < m
  PROVE  NextTurnNumber(S) \in Nat /\ NextTurnNumber(S) <= m + 1
<1>1. CASE S = {}
  BY <1>1 DEF NextTurnNumber
<1>2. CASE S # {}
  <2>1. Latest(S) \in S
    BY <1>2, LatestIsLast
  <2> QED BY <1>2, <2>1 DEF NextTurnNumber
<1> QED BY <1>1, <1>2

\* Turns numbered and dated below a bound.
Bounded(h) == \E m \in Nat : \A a \in h : a.turn \in 0 .. m /\ a.at \in 0 .. m

\* Every value of carry_over is one said now, or one held by an earlier turn.
LEMMA CarryOverFrom ==
  ASSUME NEW h, NEW said, NEW schema, Bounded(h)
  PROVE  /\ \A n : n \in DOMAIN CarryOver(h, said, schema) <=>
                      n \in DOMAIN said \/ n \in Carried(h, said, schema)
         /\ \A n \in DOMAIN CarryOver(h, said, schema) :
              \/ n \in DOMAIN said /\ CarryOver(h, said, schema)[n] = said[n]
              \/ \E a \in h : /\ n \in DOMAIN a.entities
                              /\ CarryOver(h, said, schema)[n] = a.entities[n]
<1> DEFINE with(n) == {a \in h : n \in DOMAIN a.entities}
<1>1. DOMAIN CarryOver(h, said, schema) = DOMAIN said \cup Carried(h, said, schema)
  BY DEF CarryOver
<1>2. ASSUME NEW n \in DOMAIN said \cup Carried(h, said, schema), n \in DOMAIN said
      PROVE  CarryOver(h, said, schema)[n] = said[n]
  BY <1>2 DEF CarryOver
<1>3. ASSUME NEW n \in DOMAIN said \cup Carried(h, said, schema), n \notin DOMAIN said
      PROVE  \E a \in h : /\ n \in DOMAIN a.entities
                          /\ CarryOver(h, said, schema)[n] = a.entities[n]
  <2>1. with(n) # {}
    BY <1>3 DEF Carried
  <2>2. Latest(with(n)) \in with(n)
    BY <2>1, LatestIsLast DEF Bounded
  <2>3. CarryOver(h, said, schema)[n] = Latest(with(n)).entities[n]
    BY <1>3 DEF CarryOver
  <2> QED BY <2>2, <2>3
<1> QED BY <1>1, <1>2, <1>3

\* What extraction returns names entities of the schema, each with a value of
\* this request or of its history.
LEMMA SayingsFrom ==
  ASSUME NEW c, NEW said \in Sayings(c)
  PROVE  /\ DOMAIN said \subseteq Schema[c.verdict]
         /\ \A n \in DOMAIN said :
              \/ said[n] = [session |-> c.session, domain |-> c.domain, at |-> c.asked]
              \/ \E a \in c.hist : \E k \in DOMAIN a.entities : said[n] = a.entities[k]
<1> DEFINE own == [session |-> c.session, domain |-> c.domain, at |-> c.asked]
<1>1. PICK raw \in Raw(c) : said = Accepted(raw, Schema[c.verdict])
  BY DEF Sayings
<1>3. \A n \in DOMAIN raw : raw[n] \in {own, Nil} \cup Heard(c.hist)
  BY <1>1 DEF Raw
<1>4. /\ DOMAIN said \subseteq DOMAIN raw \cap Schema[c.verdict]
      /\ \A n \in DOMAIN said : said[n] = raw[n] /\ raw[n] # Nil
  BY <1>1 DEF Accepted, Fits
<1>2. \A v \in Heard(c.hist) : \E a \in c.hist : \E k \in DOMAIN a.entities : v = a.entities[k]
  BY DEF Heard
<1> QED BY <1>2, <1>3, <1>4

\* The initial state is typed.
LEMMA InitTyped == Init => TypeInv
BY ConversationAssumption DEF Init, TypeInv, TypeOK, Timed, Labels

\* A request arriving reads typed turns and is given a number the clock has
\* not reached.
LEMMA BeginTyped ==
  ASSUME TypeInv, NEW r \in Requests, NEW s \in Sessions, NEW d \in Domains,
         NEW useContext \in BOOLEAN, Begin(r, s, d, useContext)
  PROVE  TypeInv'
<1> USE DEF TypeInv
<1> DEFINE h == IF useContext THEN History(s, d) ELSE {}
           N == IF useContext THEN History(s, d) ELSE OfSession(s)
<1>1. h \subseteq turns /\ N \subseteq turns
  BY HistoryOwn DEF OfSession
<1>2. \A a \in N : a.turn \in 0 .. clock /\ a.at \in 0 .. clock /\ a.turn < clock
  BY <1>1 DEF TypeOK, IsTurn, Timed, Dated
<1>3. NextTurnNumber(N) \in Nat /\ NextTurnNumber(N) <= clock + 1
  BY <1>2, NumberTyped DEF TypeOK
<1> DEFINE c == [session |-> s, domain |-> d, asked |-> clock, hist |-> h,
                 number |-> NextTurnNumber(N), verdict |-> Unknown]
<1>4. call' = [call EXCEPT ![r] = c]
  BY DEF Begin
<1> HIDE DEF N
<1>5. IsCall(c)
  BY <1>1, <1>3 DEF IsCall, TypeOK
<1>6. /\ c.asked = clock /\ c.number <= c.asked + 1
      /\ \A a \in c.hist : Dated(a)
  BY <1>1, <1>3 DEF Timed
<1> HIDE DEF c
<1>7. /\ UNCHANGED <<turns, writes, recorder, faults, crashes>>
      /\ clock' = clock + 1 /\ recorder = Nil
      /\ pc' = [pc EXCEPT ![r] = "asked"]
  BY DEF Begin, stored, counters
<1>8. TypeOK'
  BY <1>4, <1>5, <1>7, ConversationAssumption DEF TypeOK, IsTurn, IsCall, Labels
<1>9. \A a : Dated(a) /\ clock \in Nat /\ a.at \in Nat => Dated(a)'
  BY <1>7 DEF Dated
<1>10. Timed'
  BY <1>1, <1>4, <1>5, <1>6, <1>7, <1>9 DEF TypeOK, IsTurn, IsCall, Timed
<1> QED BY <1>8, <1>10

\* The entities of an appended turn: those extraction named and those carried
\* over, each said now or held by a turn of the history read.
LEMMA AppendedFrom ==
  ASSUME TypeInv, NEW r \in Requests, pc[r] = "resolved", NEW schema, NEW said,
         \/ schema = Schema[call[r].verdict] /\ said \in Sayings(call[r])
         \/ schema = {} /\ said = NoEntities
  PROVE  LET c == call[r]
             e == CarryOver(c.hist, said, schema)
         IN /\ Carried(c.hist, said, schema) \subseteq DOMAIN e
            /\ DOMAIN e \subseteq schema
            /\ \A n \in DOMAIN e :
                 \/ e[n] = [session |-> c.session, domain |-> c.domain, at |-> c.asked]
                 \/ \E a \in c.hist : \E k \in DOMAIN a.entities : e[n] = a.entities[k]
<1> DEFINE c == call[r]
           e == CarryOver(c.hist, said, schema)
<1>1. IsCall(c) /\ \A a \in c.hist : IsTurn(a) /\ Dated(a)
  BY DEF TypeInv, TypeOK, Timed, IsCall
<1>2. Bounded(c.hist)
  BY <1>1 DEF Bounded, IsTurn, Dated, TypeInv, TypeOK
<1> HIDE DEF c
<1>4. /\ \A n : n \in DOMAIN e <=> n \in DOMAIN said \/ n \in Carried(c.hist, said, schema)
      /\ \A n \in DOMAIN e :
           \/ n \in DOMAIN said /\ e[n] = said[n]
           \/ \E a \in c.hist : n \in DOMAIN a.entities /\ e[n] = a.entities[n]
  BY <1>2, CarryOverFrom
<1>5. /\ DOMAIN said \subseteq schema
      /\ \A n \in DOMAIN said :
           \/ said[n] = [session |-> c.session, domain |-> c.domain, at |-> c.asked]
           \/ \E a \in c.hist : \E k \in DOMAIN a.entities : said[n] = a.entities[k]
  <2>1. CASE schema = Schema[c.verdict] /\ said \in Sayings(c)
    BY <2>1, SayingsFrom
  <2>2. CASE schema = {} /\ said = NoEntities
    BY <2>2 DEF NoEntities
  <2> QED BY <2>1, <2>2 DEF c
<1>6. Carried(c.hist, said, schema) \subseteq schema
  BY DEF Carried
<1> HIDE DEF e
<1> QED BY <1>4, <1>5, <1>6 DEF e, c

\* Appending stores a typed turn, dated now and numbered no later.
LEMMA AppendTyped ==
  ASSUME TypeInv, NEW r \in Requests, Append(r)
  PROVE  TypeInv'
<1> DEFINE c == call[r]
           matched == c.verdict # Unknown
           schema == Declared(c.verdict)
           new(said) == [session |-> c.session, domain |-> c.domain,
                         turn |-> c.number, at |-> clock, intent |-> c.verdict,
                         entities |-> CarryOver(c.hist, said, schema),
                         carried |-> Carried(c.hist, said, schema)]
<1>1. PICK said \in (IF matched THEN Sayings(c) ELSE {NoEntities}) :
        turns' = turns \cup {new(said)}
  BY DEF Append
<1>2. /\ pc[r] = "resolved" /\ IsCall(c) /\ clock \in Nat
      /\ c.asked < clock /\ c.number <= c.asked + 1
      /\ \A a \in c.hist : IsTurn(a)
  BY DEF Append, TypeInv, TypeOK, Timed, IsCall
<1>3. /\ UNCHANGED <<writes, call, faults, crashes>>
      /\ clock' = clock + 1 /\ recorder' = r /\ recorder = Nil
      /\ pc' = [pc EXCEPT ![r] = "appended"]
  BY DEF Append, counters
<1> DEFINE e == CarryOver(c.hist, said, schema)
<1>4. /\ Carried(c.hist, said, schema) \subseteq DOMAIN e
      /\ DOMAIN e \subseteq schema
      /\ \A n \in DOMAIN e :
           \/ e[n] = [session |-> c.session, domain |-> c.domain, at |-> c.asked]
           \/ \E a \in c.hist : \E k \in DOMAIN a.entities : e[n] = a.entities[k]
  <2>1. \/ schema = Schema[c.verdict] /\ said \in Sayings(c)
        \/ schema = {} /\ said = NoEntities
    BY <1>1 DEF Declared
  <2> HIDE DEF schema
  <2> QED BY <1>2, <2>1, AppendedFrom
<1>6. \A n \in DOMAIN e : e[n] \in Value
  <2>1. [session |-> c.session, domain |-> c.domain, at |-> c.asked] \in Value
    BY <1>2 DEF IsCall, Value
  <2>2. \A a \in c.hist : \A k \in DOMAIN a.entities : a.entities[k] \in Value
    BY <1>2 DEF IsTurn
  <2> HIDE DEF e
  <2> QED BY <1>4, <2>1, <2>2
<1> HIDE DEF e, schema
<1>7. IsTurn(new(said))
  BY <1>2, <1>4, <1>6 DEF IsTurn, IsCall, e, schema
<1>8. new(said).turn <= new(said).at /\ new(said).at < clock'
  BY <1>2, <1>3 DEF IsCall
<1> HIDE DEF new, c
<1>9. TypeOK'
  <2>1. \A a \in turns' : IsTurn(a)
    BY <1>1, <1>7 DEF TypeInv, TypeOK
  <2>2. \A q \in Requests : pc'[q] # "idle" => pc[q] # "idle" /\ call'[q] = call[q]
    BY <1>2, <1>3 DEF TypeInv, TypeOK
  <2>3. \A q \in Requests : pc'[q] # "idle" => IsCall(call'[q])
    BY <2>2 DEF TypeInv, TypeOK
  <2>4. \A q \in Requests : pc'[q] \in {"appended", "sweeping"} <=> recorder' = q
    BY <1>3, ConversationAssumption DEF TypeInv, TypeOK
  <2> QED BY <1>3, <2>1, <2>3, <2>4 DEF TypeInv, TypeOK, IsTurn, IsCall, Labels
<1>10. \A a : IsTurn(a) /\ Dated(a) => Dated(a)'
  BY <1>2, <1>3 DEF Dated, IsTurn
<1>11. Timed'
  BY <1>1, <1>2, <1>3, <1>8, <1>10 DEF TypeInv, TypeOK, Timed, IsCall, Dated
<1> QED BY <1>9, <1>11 DEF TypeInv

\* Dropping turns and leaving a request keep the invariant.
LEMMA DropTyped ==
  ASSUME TypeInv, clock' = clock, turns' \subseteq turns
  PROVE  /\ \A a \in turns' : IsTurn(a)
         /\ \A a \in turns' : Dated(a)'
BY DEF TypeInv, TypeOK, Timed, Dated

LEMMA LeaveTyped ==
  ASSUME TypeInv, clock' = clock, NEW r \in Requests, Leave(r),
         recorder' = IF recorder = r THEN Nil ELSE recorder
  PROVE  /\ pc' \in [Requests -> Labels] /\ DOMAIN call' = Requests
         /\ recorder' \in Requests \cup {Nil}
         /\ \A q \in Requests : pc'[q] # "idle" => pc[q] = pc'[q] /\ call'[q] = call[q]
         /\ \A q \in Requests : pc'[q] \in {"appended", "sweeping"} <=> recorder' = q
BY ConversationAssumption DEF TypeInv, TypeOK, Leave, Labels

\* A step that adds no turn, begins no request and leaves the time alone or
\* moves it on keeps the bounds.
LEMMA QuietTimed ==
  ASSUME TypeInv, turns' \subseteq turns, clock' \in Nat, clock' >= clock,
         \A q \in Requests : pc'[q] # "idle" =>
            /\ pc[q] # "idle"
            /\ call'[q].asked = call[q].asked
            /\ call'[q].number = call[q].number
            /\ call'[q].hist = call[q].hist
  PROVE  Timed'
<1>1. \A a : IsTurn(a) /\ Dated(a) => Dated(a)'
  BY DEF TypeInv, TypeOK, IsTurn, Dated
<1>2. \A a \in turns' : Dated(a)'
  BY <1>1 DEF TypeInv, TypeOK, Timed
<1>3. ASSUME NEW q \in Requests, pc'[q] # "idle"
      PROVE  /\ call'[q].asked < clock'
             /\ call'[q].number <= call'[q].asked + 1
             /\ \A a \in call'[q].hist : Dated(a)'
  <2>1. IsCall(call[q])
    BY <1>3 DEF TypeInv, TypeOK
  <2>2. /\ call[q].asked < clock /\ call[q].number <= call[q].asked + 1
        /\ \A a \in call[q].hist : IsTurn(a) /\ Dated(a)
    BY <1>3, <2>1 DEF TypeInv, Timed, IsCall
  <2> QED BY <1>1, <1>3, <2>1, <2>2 DEF TypeInv, TypeOK, IsCall
<1> QED BY <1>2, <1>3 DEF Timed

\* A verdict changes nothing else of a request.
LEMMA VerdictTyped ==
  ASSUME TypeInv, NEW r \in Requests, pc[r] # "idle",
         NEW v \in Intents \cup {Unknown}, call' = [call EXCEPT ![r].verdict = v]
  PROVE  /\ DOMAIN call' = Requests
         /\ \A q \in Requests : pc[q] # "idle" =>
              /\ IsCall(call'[q])
              /\ call'[q].asked = call[q].asked
              /\ call'[q].number = call[q].number
              /\ call'[q].hist = call[q].hist
              /\ call'[q].session = call[q].session
              /\ call'[q].domain = call[q].domain
<1>1. DOMAIN call = Requests /\ \A q \in Requests : pc[q] # "idle" => IsCall(call[q])
  BY DEF TypeInv, TypeOK
<1> DEFINE c == [call[r] EXCEPT !.verdict = v]
<1>2. call' = [call EXCEPT ![r] = c]
  OBVIOUS
<1>3. IsCall(c) /\ c.asked = call[r].asked /\ c.number = call[r].number /\ c.hist = call[r].hist
      /\ c.session = call[r].session /\ c.domain = call[r].domain
  BY <1>1 DEF IsCall
<1> HIDE DEF c
<1> QED BY <1>1, <1>2, <1>3

\* Every step keeps the types and the bounds.
LEMMA NextTyped == TypeInv /\ [Next]_vars => TypeInv'
<1> SUFFICES ASSUME TypeInv, [Next]_vars PROVE TypeInv'
  OBVIOUS
<1>a. TypeOK /\ Timed
  BY DEF TypeInv
<1>1. ASSUME NEW r \in Requests, Retrieve(r) PROVE TypeInv'
  <2>1. PICK v \in Intents \cup {Unknown} :
          /\ call' = [call EXCEPT ![r].verdict = v]
          /\ pc' = [pc EXCEPT ![r] = IF v = Unknown THEN "unplaced" ELSE "resolved"]
    BY <1>1 DEF Retrieve
  <2>2. pc[r] = "asked" /\ UNCHANGED <<turns, writes, clock, recorder, faults, crashes>>
    BY <1>1 DEF Retrieve, stored, counters
  <2>3. \A q \in Requests : pc'[q] # "idle" => pc[q] # "idle"
    BY <1>a, <2>1, <2>2 DEF TypeOK
  <2>4. TypeOK'
    BY <1>a, <2>1, <2>2, <2>3, VerdictTyped DEF TypeOK, Labels, IsTurn
  <2>5. Timed'
    BY <1>a, <2>1, <2>2, <2>3, VerdictTyped, QuietTimed DEF TypeOK
  <2> QED BY <2>4, <2>5 DEF TypeInv
<1>2. ASSUME NEW r \in Requests, Retry(r) PROVE TypeInv'
  <2>1. PICK v \in Intents \cup {Unknown} : call' = [call EXCEPT ![r].verdict = v]
    BY <1>2 DEF Retry
  <2>2. /\ pc[r] = "unplaced" /\ pc' = [pc EXCEPT ![r] = "resolved"]
        /\ UNCHANGED <<turns, writes, clock, recorder, faults, crashes>>
    BY <1>2 DEF Retry, stored, counters
  <2>3. \A q \in Requests : pc'[q] # "idle" => pc[q] # "idle"
    BY <1>a, <2>2 DEF TypeOK
  <2>4. TypeOK'
    BY <1>a, <2>1, <2>2, <2>3, VerdictTyped DEF TypeOK, Labels, IsTurn
  <2>5. Timed'
    BY <1>a, <2>1, <2>2, <2>3, VerdictTyped, QuietTimed DEF TypeOK
  <2> QED BY <2>4, <2>5 DEF TypeInv
<1>3. ASSUME NEW r \in Requests, Prune(r) \/ Sweep(r) PROVE TypeInv'
  <2>1. turns' \subseteq turns /\ UNCHANGED <<clock, faults, crashes>>
    BY <1>3 DEF Prune, Sweep, counters
  <2>2. writes' \in 0 .. (SweepEvery - 1)
    BY <1>3, <1>a, ConversationAssumption DEF Prune, Sweep, TypeOK
  <2>3. pc[r] \in {"appended", "sweeping"} /\ recorder = r
    BY <1>3, <1>a DEF Prune, Sweep, TypeOK
  <2>4. CASE Leave(r) /\ recorder' = Nil
    <3>1. TypeOK'
      BY <1>a, <2>1, <2>2, <2>3, <2>4, LeaveTyped DEF TypeOK, IsTurn, IsCall
    <3>2. Timed'
      BY <1>a, <2>1, <2>3, <2>4, LeaveTyped, QuietTimed DEF TypeOK
    <3> QED BY <3>1, <3>2 DEF TypeInv
  <2>5. CASE pc' = [pc EXCEPT ![r] = "sweeping"] /\ UNCHANGED <<call, recorder>>
    <3>1. TypeOK'
      BY <1>a, <2>1, <2>2, <2>3, <2>5 DEF TypeOK, IsTurn, IsCall, Labels
    <3>2. Timed'
      BY <1>a, <2>1, <2>3, <2>5, QuietTimed DEF TypeOK
    <3> QED BY <3>1, <3>2 DEF TypeInv
  <2> QED BY <1>3, <2>4, <2>5 DEF Prune, Sweep
<1>4. ASSUME NEW r \in Requests, Fail(r) PROVE TypeInv'
  <2>1. /\ Leave(r) /\ recorder' = IF recorder = r THEN Nil ELSE recorder
        /\ faults' = faults + 1 /\ UNCHANGED <<turns, writes, clock, crashes>>
    BY <1>4 DEF Fail, stored
  <2>2. TypeOK'
    BY <1>a, <2>1, LeaveTyped DEF TypeOK, IsTurn, IsCall
  <2>3. Timed'
    BY <1>a, <2>1, LeaveTyped, QuietTimed DEF TypeOK
  <2> QED BY <2>2, <2>3 DEF TypeInv
<1>5. ASSUME NEW s \in Sessions, Clear(s) PROVE TypeInv'
  <2>1. /\ turns' \subseteq turns
        /\ UNCHANGED <<writes, clock, pc, call, recorder, faults, crashes>>
    BY <1>5 DEF Clear, locals, counters
  <2>2. TypeOK'
    BY <1>a, <2>1 DEF TypeOK, IsTurn, IsCall
  <2>3. Timed'
    BY <1>a, <2>1, QuietTimed DEF TypeOK
  <2> QED BY <2>2, <2>3 DEF TypeInv
<1>6. ASSUME Restart PROVE TypeInv'
  <2>1. /\ writes' = 0 /\ crashes' = crashes + 1 /\ recorder' = Nil
        /\ pc' = [r \in Requests |-> "idle"] /\ call' = [r \in Requests |-> Nil]
        /\ UNCHANGED <<turns, clock, faults>>
    BY <1>6 DEF Restart
  <2>2. TypeOK'
    BY <1>a, <2>1, ConversationAssumption DEF TypeOK, IsTurn, Labels
  <2>3. Timed'
    BY <1>a, <2>1, QuietTimed DEF TypeOK
  <2> QED BY <2>2, <2>3 DEF TypeInv
<1>7. ASSUME Tick \/ UNCHANGED vars PROVE TypeInv'
  <2>1. /\ clock' \in {clock, clock + 1}
        /\ UNCHANGED <<turns, writes, pc, call, recorder, faults, crashes>>
    BY <1>7 DEF Tick, vars, stored, locals, counters
  <2>2. TypeOK'
    BY <1>a, <2>1 DEF TypeOK, IsTurn, IsCall
  <2>3. Timed'
    BY <1>a, <2>1, QuietTimed DEF TypeOK
  <2> QED BY <2>2, <2>3 DEF TypeInv
<1> QED BY <1>1, <1>2, <1>3, <1>4, <1>5, <1>6, <1>7, BeginTyped, AppendTyped
    DEF Next, Step, UiClassify

\* Every stored turn, history and request is of its kind, and a request inside
\* record() is alone there, whatever overlaps, fails or restarts.
THEOREM TypeCorrect == Spec => []TypeOK
<1>1. TypeInv => TypeOK
  BY DEF TypeInv
<1> QED BY <1>1, InitTyped, NextTyped, PTL DEF Spec

(****************************** isolation **********************************)

IsolationInv == TypeInv /\ Isolation /\ HistoryIsolated

\* The initial state holds no turn and no request.
LEMMA InitIsolated == Init => IsolationInv
BY InitTyped DEF Init, IsolationInv, Isolation, HistoryIsolated

\* A step that stores nothing and reads no history keeps conversations apart.
LEMMA QuietIsolated ==
  ASSUME IsolationInv, turns' \subseteq turns,
         \A q \in Requests : pc'[q] # "idle" =>
            /\ pc[q] # "idle"
            /\ call'[q].hist = call[q].hist
            /\ call'[q].session = call[q].session
            /\ call'[q].domain = call[q].domain
  PROVE  Isolation' /\ HistoryIsolated'
BY DEF IsolationInv, Isolation, HistoryIsolated

\* Every step keeps entity values inside their conversation.
LEMMA NextIsolated == IsolationInv /\ [Next]_vars => IsolationInv'
<1> SUFFICES ASSUME IsolationInv, [Next]_vars PROVE IsolationInv'
  OBVIOUS
<1>a. TypeInv /\ TypeOK /\ Timed /\ Isolation /\ HistoryIsolated
  BY DEF IsolationInv, TypeInv
<1>b. TypeInv'
  BY <1>a, NextTyped
<1>1. ASSUME NEW r \in Requests, NEW s \in Sessions, NEW d \in Domains,
             NEW useContext \in BOOLEAN, Begin(r, s, d, useContext)
      PROVE  Isolation' /\ HistoryIsolated'
  <2> DEFINE h == IF useContext THEN History(s, d) ELSE {}
  <2>1. PICK n : call' = [call EXCEPT ![r] =
                   [session |-> s, domain |-> d, asked |-> clock, hist |-> h,
                    number |-> n, verdict |-> Unknown]]
    BY <1>1 DEF Begin
  <2>2. h \subseteq {a \in turns : a.session = s /\ a.domain = d}
    BY HistoryOwn
  <2>3. turns' = turns /\ pc' = [pc EXCEPT ![r] = "asked"]
    BY <1>1 DEF Begin, stored
  <2> HIDE DEF h
  <2> QED BY <1>a, <2>1, <2>2, <2>3 DEF TypeOK, Isolation, HistoryIsolated
<1>2. ASSUME NEW r \in Requests, Retrieve(r) \/ Retry(r)
      PROVE  Isolation' /\ HistoryIsolated'
  <2>1. PICK v \in Intents \cup {Unknown} : call' = [call EXCEPT ![r].verdict = v]
    BY <1>2 DEF Retrieve, Retry
  <2>2. /\ pc[r] # "idle" /\ turns' = turns
        /\ \A q \in Requests : pc'[q] # "idle" => pc[q] # "idle"
    BY <1>2, <1>a DEF Retrieve, Retry, stored, TypeOK
  <2> QED BY <1>a, <2>1, <2>2, VerdictTyped, QuietIsolated
<1>3. ASSUME NEW r \in Requests, Append(r)
      PROVE  Isolation' /\ HistoryIsolated'
  <2> DEFINE c == call[r]
             matched == c.verdict # Unknown
             schema == Declared(c.verdict)
             e(said) == CarryOver(c.hist, said, schema)
  <2>1. PICK said \in (IF matched THEN Sayings(c) ELSE {NoEntities}) :
          turns' = turns \cup
            {[session |-> c.session, domain |-> c.domain,
              turn |-> c.number, at |-> clock, intent |-> c.verdict,
              entities |-> e(said), carried |-> Carried(c.hist, said, schema)]}
    BY <1>3 DEF Append
  <2>2. /\ pc[r] = "resolved" /\ call' = call
        /\ pc' = [pc EXCEPT ![r] = "appended"]
    BY <1>3 DEF Append
  <2>3. \/ schema = Schema[c.verdict] /\ said \in Sayings(c)
        \/ schema = {} /\ said = NoEntities
    BY <2>1 DEF Declared
  <2>4. \A n \in DOMAIN e(said) :
           \/ e(said)[n] = [session |-> c.session, domain |-> c.domain, at |-> c.asked]
           \/ \E a \in c.hist : \E k \in DOMAIN a.entities : e(said)[n] = a.entities[k]
    <3> HIDE DEF schema
    <3> QED BY <1>a, <2>2, <2>3, AppendedFrom
  <2>5. \A a \in c.hist : \A k \in DOMAIN a.entities :
           a.entities[k].session = c.session /\ a.entities[k].domain = c.domain
    BY <1>a, <2>2 DEF HistoryIsolated, Isolated
  <2>6. \A n \in DOMAIN e(said) :
           e(said)[n].session = c.session /\ e(said)[n].domain = c.domain
    <3> HIDE DEF e, c
    <3> QED BY <2>4, <2>5
  <2>7. Isolation'
    <3> HIDE DEF e, c, schema
    <3> QED BY <1>a, <2>1, <2>6 DEF Isolation, Isolated
  <2>8. HistoryIsolated'
    BY <1>a, <2>2 DEF HistoryIsolated, TypeOK
  <2> QED BY <2>7, <2>8
<1>4. ASSUME NEW r \in Requests, Prune(r) \/ Sweep(r) \/ Fail(r)
      PROVE  Isolation' /\ HistoryIsolated'
  <2>1. turns' \subseteq turns
    BY <1>4 DEF Prune, Sweep, Fail, stored
  <2>2. Leave(r) \/ (pc' = [pc EXCEPT ![r] = "sweeping"] /\ call' = call /\ pc[r] = "appended")
    BY <1>4 DEF Prune, Sweep, Fail
  <2>3. \A q \in Requests : pc'[q] # "idle" => pc[q] # "idle" /\ call'[q] = call[q]
    BY <1>a, <2>2 DEF Leave, TypeOK
  <2> QED BY <2>1, <2>3, QuietIsolated
<1>5. ASSUME (\E s \in Sessions : Clear(s)) \/ Restart \/ Tick \/ UNCHANGED vars
      PROVE  Isolation' /\ HistoryIsolated'
  <2>1. turns' \subseteq turns
    BY <1>5 DEF Clear, Restart, Tick, vars, stored
  <2>2. \A q \in Requests : pc'[q] # "idle" => pc[q] # "idle" /\ call'[q] = call[q]
    BY <1>5 DEF Clear, Restart, Tick, vars, locals
  <2> QED BY <2>1, <2>2, QuietIsolated
<1>6. Isolation' /\ HistoryIsolated'
  BY <1>1, <1>2, <1>3, <1>4, <1>5 DEF Next, Step, UiClassify
<1> QED BY <1>b, <1>6 DEF IsolationInv

\* "Sessions are isolated by id and by domain": no interleaving of requests,
\* clears, failures and restarts stores an entity value with a turn of another
\* session or of another domain.
THEOREM ConversationsApart == Spec => []Isolation
<1>1. IsolationInv => Isolation
  BY DEF IsolationInv
<1> QED BY <1>1, InitIsolated, NextIsolated, PTL DEF Spec

(**************************** order of turns *******************************)

\* No two turns are of one moment, so that sorting them never ties.
Untied(S) == \A a, b \in S : a.at = b.at => a = b

\* There are finitely many turns, all told apart by their moment.
TurnsInv == TypeInv /\ Untied(turns) /\ IsFiniteSet(turns)

LEMMA TotalOrder ==
  ASSUME TypeInv, NEW S, \A a \in S : IsTurn(a), Untied(S)
  PROVE  /\ \A a, b \in S : a = b \/ Before(a, b) \/ Before(b, a)
         /\ \A a, b, c \in S : Before(a, b) /\ Before(b, c) => Before(a, c)
         /\ \A a \in S : ~Before(a, a)
<1>1. \A a \in S : a.turn \in Nat /\ a.at \in Nat
  BY DEF IsTurn
<1> QED BY <1>1 DEF Before, Untied

\* A set of turns has a first one.
LEMMA FirstTurn ==
  ASSUME NEW S, S # {}, \A a \in S : IsTurn(a), Untied(S)
  PROVE  \E a \in S : \A b \in S : b = a \/ Before(a, b)
<1>1. \A a \in S : a.turn \in Nat /\ a.at \in Nat
  BY DEF IsTurn
<1> DEFINE T == {a.turn : a \in S}
<1>2. PICK x \in T : \A y \in T : x <= y
  <2>1. T \subseteq Nat /\ T # {}
    BY <1>1
  <2> HIDE DEF T
  <2> QED BY <2>1, LeastNat
<1>3. PICK e \in S : e.turn = x /\ \A b \in S : e.turn <= b.turn
  BY <1>2
<1> DEFINE U == {a.at : a \in {b \in S : b.turn = x}}
<1>4. PICK u \in U : \A y \in U : u <= y
  <2>1. U \subseteq Nat /\ U # {}
    BY <1>1, <1>3
  <2> HIDE DEF U
  <2> QED BY <2>1, LeastNat
<1>5. PICK a \in S : a.turn = x /\ a.at = u
  BY <1>4
<1>6. ASSUME NEW b \in S PROVE b = a \/ Before(a, b)
  <2>1. a.turn <= b.turn /\ a.turn \in Nat /\ b.turn \in Nat /\ a.at \in Nat /\ b.at \in Nat
    BY <1>1, <1>3, <1>5
  <2>2. CASE a.turn < b.turn
    BY <2>2 DEF Before
  <2>3. CASE a.turn = b.turn
    <3>1. u <= b.at
      BY <1>4, <1>5, <2>3
    <3> QED BY <1>5, <2>1, <2>3, <3>1 DEF Before, Untied
  <2> QED BY <2>1, <2>2, <2>3
<1> QED BY <1>6

\* The last n of a set of turns are no more than n.
LEMMA LastOfSize ==
  ASSUME NEW S, IsFiniteSet(S), \A a \in S : IsTurn(a), Untied(S), NEW n \in Nat
  PROVE  LastOf(S, n) \subseteq S /\ Cardinality(LastOf(S, n)) <= n
<1> DEFINE L == LastOf(S, n)
<1>1. L \subseteq S /\ IsFiniteSet(L) /\ Cardinality(L) \in Nat
  <2>1. L \subseteq S
    BY DEF LastOf
  <2> QED BY <2>1, FS_Subset, FS_CardinalityType
<1>2. CASE L = {}
  BY <1>1, <1>2, FS_EmptySet
<1>3. CASE L # {}
  <2>1. PICK a \in L : \A b \in L : b = a \/ Before(a, b)
    <3>1. \A a \in L : IsTurn(a)
      BY <1>1
    <3>2. Untied(L)
      BY <1>1 DEF Untied
    <3> HIDE DEF L
    <3> QED BY <1>3, <3>1, <3>2, FirstTurn
  <2> DEFINE Later == {b \in S : Before(a, b)}
  <2>2. Cardinality(Later) < n
    BY DEF LastOf
  <2>3. L \ {a} \subseteq Later /\ IsFiniteSet(Later)
    BY <1>1, <2>1, FS_Subset
  <2>4. Cardinality(L \ {a}) <= Cardinality(Later) /\ Cardinality(Later) \in Nat
    BY <2>3, FS_Subset, FS_CardinalityType
  <2>5. Cardinality(L \ {a}) = Cardinality(L) - 1
    BY <1>1, FS_RemoveElement
  <2> QED BY <1>1, <2>2, <2>4, <2>5
<1> QED BY <1>1, <1>2, <1>3

\* A record or a sweep only drops turns; an append adds one, of this moment.
LEMMA TurnsMove ==
  ASSUME TurnsInv, [Next]_vars
  PROVE  \/ turns' \subseteq turns
         \/ \E r \in Requests : Append(r)
BY DEF Next, Step, UiClassify, Begin, Retrieve, Retry, Prune, Sweep, Fail, Clear, Restart, Tick,
       stored, vars

\* The turn that a request appends.
Added(new, r) ==
    /\ turns' = turns \cup {new}
    /\ new.session = call[r].session /\ new.domain = call[r].domain
    /\ new.turn = call[r].number /\ new.at = clock

LEMMA AppendAdds ==
  ASSUME NEW r \in Requests, Append(r)
  PROVE  \E new : Added(new, r)
<1> DEFINE new(said) ==
             [session |-> call[r].session, domain |-> call[r].domain,
              turn |-> call[r].number, at |-> clock, intent |-> call[r].verdict,
              entities |-> CarryOver(call[r].hist, said, Declared(call[r].verdict)),
              carried |-> Carried(call[r].hist, said, Declared(call[r].verdict))]
<1>1. PICK said : turns' = turns \cup {new(said)}
  BY DEF Append
<1>2. /\ new(said).session = call[r].session /\ new(said).domain = call[r].domain
      /\ new(said).turn = call[r].number /\ new(said).at = clock
  OBVIOUS
<1> HIDE DEF new
<1> QED BY <1>1, <1>2 DEF Added

LEMMA InitTurns == Init => TurnsInv
BY InitTyped, FS_EmptySet DEF Init, TurnsInv, Untied

LEMMA NextTurns == TurnsInv /\ [Next]_vars => TurnsInv'
<1> SUFFICES ASSUME TurnsInv, [Next]_vars PROVE TurnsInv'
  OBVIOUS
<1>1. TypeInv'
  BY NextTyped DEF TurnsInv
<1>2. CASE turns' \subseteq turns
  BY <1>1, <1>2, FS_Subset DEF TurnsInv, Untied
<1>3. CASE \E r \in Requests : Append(r)
  <2>1. PICK r \in Requests : Append(r)
    BY <1>3
  <2>2. PICK new : Added(new, r)
    BY <2>1, AppendAdds
  <2>3. IsFiniteSet(turns')
    BY <2>2, FS_AddElement DEF TurnsInv, Added
  <2>4. \A a \in turns : a.at # new.at
    BY <2>2 DEF TurnsInv, TypeInv, TypeOK, IsTurn, Timed, Dated, Added
  <2>5. Untied(turns)'
    BY <2>2, <2>4 DEF TurnsInv, Untied, Added
  <2> QED BY <1>1, <2>3, <2>5 DEF TurnsInv
<1> QED BY <1>2, <1>3, TurnsMove

(**************************** size of a session ****************************)

\* While a request has stored its turn and not cut the session yet, the session
\* holds one more; what an exception or a crash cuts short leaves it there.
Pending(s) ==
    IF recorder # Nil /\ pc[recorder] = "appended" /\ call[recorder].session = s THEN 1 ELSE 0
Sized == \A s \in Sessions : Cardinality(OfSession(s)) <= Keep + faults + crashes + Pending(s)
SizeInv == TurnsInv /\ Sized

LEMMA SessionFinite ==
  ASSUME TurnsInv, NEW s
  PROVE  IsFiniteSet(OfSession(s)) /\ Cardinality(OfSession(s)) \in Nat
BY FS_Subset, FS_CardinalityType DEF TurnsInv, OfSession

LEMMA InitSized == Init => SizeInv
<1> SUFFICES ASSUME Init PROVE SizeInv
  OBVIOUS
<1>1. TurnsInv
  BY InitTurns
<1>2. \A s : OfSession(s) = {}
  BY DEF Init, OfSession
<1>3. Cardinality({}) = 0 /\ Keep \in Nat
  BY FS_EmptySet, ConversationAssumption
<1> QED BY <1>1, <1>2, <1>3 DEF Init, SizeInv, Sized, Pending

\* A step that adds no turn, and after which no fewer may be there.
LEMMA QuietSized ==
  ASSUME SizeInv, TurnsInv', turns' \subseteq turns,
         \A s \in Sessions : faults + crashes + Pending(s) <= faults' + crashes' + Pending(s)'
  PROVE  Sized'
<1> SUFFICES ASSUME NEW s \in Sessions
             PROVE  Cardinality(OfSession(s)') <= Keep + faults' + crashes' + Pending(s)'
  BY DEF Sized
<1>1. OfSession(s)' \subseteq OfSession(s)
  BY DEF OfSession
<1>2. Cardinality(OfSession(s)') <= Cardinality(OfSession(s)) /\ Cardinality(OfSession(s)') \in Nat
  BY <1>1, SessionFinite, FS_Subset, FS_CardinalityType DEF SizeInv
<1>3. Cardinality(OfSession(s)) <= Keep + faults + crashes + Pending(s)
  BY DEF SizeInv, Sized
<1>4. /\ Keep \in Nat /\ faults \in Nat /\ crashes \in Nat /\ faults' \in Nat /\ crashes' \in Nat
      /\ Pending(s) \in Nat /\ Pending(s)' \in Nat /\ Cardinality(OfSession(s)) \in Nat
  BY ConversationAssumption, SessionFinite DEF SizeInv, TurnsInv, TypeInv, TypeOK, Pending
<1>5. faults + crashes + Pending(s) <= faults' + crashes' + Pending(s)'
  OBVIOUS
<1> QED BY <1>2, <1>3, <1>4, <1>5

LEMMA AppendSized ==
  ASSUME SizeInv, TurnsInv', NEW r \in Requests, Append(r)
  PROVE  Sized'
<1> SUFFICES ASSUME NEW s \in Sessions
             PROVE  Cardinality(OfSession(s)') <= Keep + faults' + crashes' + Pending(s)'
  BY DEF Sized
<1>1. PICK new : Added(new, r)
  BY AppendAdds
<1>2. /\ recorder = Nil /\ recorder' = r /\ pc' = [pc EXCEPT ![r] = "appended"] /\ call' = call
      /\ faults' = faults /\ crashes' = crashes /\ DOMAIN pc = Requests /\ r # Nil
  BY ConversationAssumption DEF Append, counters, SizeInv, TurnsInv, TypeInv, TypeOK
<1>3. Pending(s) = 0
  BY <1>2 DEF Pending
<1>4. Pending(s)' = IF call[r].session = s THEN 1 ELSE 0
  BY <1>2 DEF Pending
<1>5. Cardinality(OfSession(s)) <= Keep + faults + crashes + 0
  BY <1>3 DEF SizeInv, Sized
<1>6. IsFiniteSet(OfSession(s)) /\ Cardinality(OfSession(s)) \in Nat
  BY SessionFinite DEF SizeInv
<1>7. Keep \in Nat /\ faults \in Nat /\ crashes \in Nat
  BY ConversationAssumption DEF SizeInv, TurnsInv, TypeInv, TypeOK
<1>8. CASE call[r].session = s
  <2>1. OfSession(s)' = OfSession(s) \cup {new}
    BY <1>1, <1>8 DEF OfSession, Added
  <2>2. Cardinality(OfSession(s) \cup {new}) <= Cardinality(OfSession(s)) + 1
    <3>1. CASE new \in OfSession(s)
      <4>1. OfSession(s) \cup {new} = OfSession(s)
        BY <3>1
      <4>2. Cardinality(OfSession(s) \cup {new}) = Cardinality(OfSession(s))
        BY <4>1
      <4> QED BY <1>6, <4>2
    <3>2. CASE new \notin OfSession(s)
      <4>1. Cardinality(OfSession(s) \cup {new}) = Cardinality(OfSession(s)) + 1
        BY <1>6, <3>2, FS_AddElement
      <4> QED BY <1>6, <4>1
    <3> QED BY <3>1, <3>2
  <2>3. Cardinality(OfSession(s) \cup {new}) \in Nat
    BY <1>6, FS_AddElement, FS_CardinalityType
  <2>4. Cardinality(OfSession(s)') = Cardinality(OfSession(s) \cup {new})
    BY <2>1
  <2>5. Pending(s)' = 1
    BY <1>4, <1>8
  <2> QED BY <1>2, <1>5, <1>6, <1>7, <2>2, <2>3, <2>4, <2>5
<1>9. CASE call[r].session # s
  <2>1. OfSession(s)' = OfSession(s)
    BY <1>1, <1>9 DEF OfSession, Added
  <2>2. Cardinality(OfSession(s)') = Cardinality(OfSession(s)) /\ Pending(s)' = 0
    BY <1>4, <1>9, <2>1
  <2> QED BY <1>2, <1>5, <2>2
<1> QED BY <1>8, <1>9

\* A session that has been cut holds Keep turns at most.
LEMMA PruneSized ==
  ASSUME SizeInv, TurnsInv', NEW r \in Requests, Prune(r)
  PROVE  Sized'
<1> SUFFICES ASSUME NEW s \in Sessions
             PROVE  Cardinality(OfSession(s)') <= Keep + faults' + crashes' + Pending(s)'
  BY DEF Sized
<1>1. /\ recorder = r /\ pc[r] = "appended" /\ turns' = turns \ Beyond(call[r].session)
      /\ faults' = faults /\ crashes' = crashes
  BY DEF Prune, counters, SizeInv, TurnsInv, TypeInv, TypeOK
<1>2. Pending(s)' \in Nat
  BY DEF Pending
<1>3. Keep \in Nat /\ faults \in Nat /\ crashes \in Nat
  BY ConversationAssumption DEF SizeInv, TurnsInv, TypeInv, TypeOK
<1>4. CASE call[r].session = s
  <2>1. \A a \in OfSession(s) : IsTurn(a)
    BY DEF SizeInv, TurnsInv, TypeInv, TypeOK, OfSession
  <2>2. Untied(OfSession(s))
    BY DEF SizeInv, TurnsInv, Untied, OfSession
  <2>3. /\ LastOf(OfSession(s), Keep) \subseteq OfSession(s)
        /\ Cardinality(LastOf(OfSession(s), Keep)) <= Keep
    BY <1>3, <2>1, <2>2, SessionFinite, LastOfSize DEF SizeInv
  <2>4. OfSession(s)' = LastOf(OfSession(s), Keep)
    <3> DEFINE L == LastOf(OfSession(s), Keep)
    <3>1. turns' = turns \ (OfSession(s) \ L) /\ L \subseteq OfSession(s)
      BY <1>1, <1>4, <2>3 DEF Beyond
    <3> HIDE DEF L
    <3>2. OfSession(s)' = L
      BY <3>1 DEF OfSession
    <3> QED BY <3>2 DEF L
  <2>5. Cardinality(OfSession(s)') <= Keep
    BY <2>3, <2>4
  <2>6. Cardinality(OfSession(s)') \in Nat
    <3>1. IsFiniteSet(turns') /\ OfSession(s)' \subseteq turns'
      BY DEF TurnsInv, OfSession
    <3>2. IsFiniteSet(OfSession(s)')
      BY <3>1, FS_Subset
    <3> QED BY <3>2, FS_CardinalityType
  <2> QED BY <1>1, <1>2, <1>3, <2>5, <2>6
<1>5. CASE call[r].session # s
  <2>1. OfSession(s)' = OfSession(s)
    BY <1>1, <1>5 DEF Beyond, OfSession
  <2>2. Pending(s) = 0
    BY <1>1, <1>5 DEF Pending
  <2>3. Cardinality(OfSession(s)) <= Keep + faults + crashes + 0 /\ Cardinality(OfSession(s)) \in Nat
    BY <2>2, SessionFinite DEF SizeInv, Sized
  <2>4. Cardinality(OfSession(s)') = Cardinality(OfSession(s))
    BY <2>1
  <2> QED BY <1>1, <1>2, <1>3, <2>3, <2>4
<1> QED BY <1>4, <1>5

LEMMA NextSized == SizeInv /\ [Next]_vars => SizeInv'
<1> SUFFICES ASSUME SizeInv, [Next]_vars PROVE SizeInv'
  OBVIOUS
<1>1. TurnsInv'
  BY NextTurns DEF SizeInv
<1>2. /\ faults \in Nat /\ crashes \in Nat /\ DOMAIN pc = Requests /\ DOMAIN call = Requests
      /\ recorder \in Requests \cup {Nil} /\ Nil \notin Requests
      /\ \A r \in Requests : pc[r] \in {"appended", "sweeping"} <=> recorder = r
  BY ConversationAssumption DEF SizeInv, TurnsInv, TypeInv, TypeOK
<1>3. \A s : Pending(s) \in 0..1
  BY DEF Pending
<1>4. ASSUME NEW r \in Requests,
             \/ Retrieve(r) \/ Retry(r)
             \/ \E s \in Sessions, d \in Domains, useContext \in BOOLEAN : Begin(r, s, d, useContext)
      PROVE  Sized'
  <2>1. /\ turns' = turns /\ faults' = faults /\ crashes' = crashes /\ recorder' = recorder
        /\ pc[r] \notin {"appended", "sweeping"}
    BY <1>4 DEF Retrieve, Retry, Begin, stored, counters
  <2>2. recorder # r
    BY <1>2, <2>1
  <2>3. recorder # Nil => pc'[recorder] = pc[recorder] /\ call'[recorder] = call[recorder]
    BY <1>2, <1>4, <2>2 DEF Retrieve, Retry, Begin
  <2>4. \A s : Pending(s)' = Pending(s)
    BY <2>1, <2>3 DEF Pending
  <2>5. \A s \in Sessions : faults + crashes + Pending(s) <= faults' + crashes' + Pending(s)'
    BY <1>2, <1>3, <2>1, <2>4
  <2> QED BY <1>1, <2>1, <2>5, QuietSized
<1>5. ASSUME NEW r \in Requests, Sweep(r) PROVE Sized'
  <2>1. turns' \subseteq turns /\ faults' = faults /\ crashes' = crashes /\ pc[r] = "sweeping"
    BY <1>5 DEF Sweep, counters
  <2>2. recorder = r
    BY <1>2, <2>1
  <2>3. \A s : Pending(s) = 0 /\ Pending(s)' \in 0..1
    BY <2>1, <2>2 DEF Pending
  <2>4. \A s \in Sessions : faults + crashes + Pending(s) <= faults' + crashes' + Pending(s)'
    BY <1>2, <2>1, <2>3
  <2> QED BY <1>1, <2>1, <2>4, QuietSized
<1>6. ASSUME NEW r \in Requests, Fail(r) PROVE Sized'
  <2>1. turns' = turns /\ faults' = faults + 1 /\ crashes' = crashes
    BY <1>6 DEF Fail, stored
  <2>2. \A s : Pending(s)' \in 0..1
    BY DEF Pending
  <2>3. \A s \in Sessions : faults + crashes + Pending(s) <= faults' + crashes' + Pending(s)'
    BY <1>2, <1>3, <2>1, <2>2
  <2> QED BY <1>1, <2>1, <2>3, QuietSized
<1>7. ASSUME Restart PROVE Sized'
  <2>1. turns' = turns /\ faults' = faults /\ crashes' = crashes + 1
    BY <1>7 DEF Restart
  <2>2. \A s : Pending(s)' \in 0..1
    BY DEF Pending
  <2>3. \A s \in Sessions : faults + crashes + Pending(s) <= faults' + crashes' + Pending(s)'
    BY <1>2, <1>3, <2>1, <2>2
  <2> QED BY <1>1, <2>1, <2>3, QuietSized
<1>8. ASSUME (\E s \in Sessions : Clear(s)) \/ Tick \/ UNCHANGED vars PROVE Sized'
  <2>1. /\ turns' \subseteq turns /\ faults' = faults /\ crashes' = crashes /\ recorder' = recorder
        /\ pc' = pc /\ call' = call
    BY <1>8 DEF Clear, Tick, vars, stored, locals, counters
  <2>2. \A s : Pending(s)' = Pending(s)
    BY <2>1 DEF Pending
  <2>3. \A s \in Sessions : faults + crashes + Pending(s) <= faults' + crashes' + Pending(s)'
    BY <1>2, <1>3, <2>1, <2>2
  <2> QED BY <1>1, <2>1, <2>3, QuietSized
<1>9. Sized'
  BY <1>1, <1>4, <1>5, <1>6, <1>7, <1>8, AppendSized, PruneSized DEF Next, Step, UiClassify
<1> QED BY <1>1, <1>9 DEF SizeInv

\* "Per-session size [is] enforced on write", for any number of overlapping
\* requests and any limit: only a record cut short by an exception or a crash
\* leaves a session a turn over it, and each of them one.
THEOREM SessionsStaySmall == Spec => []SizeBounded
<1>1. ASSUME SizeInv PROVE SizeBounded
  <2> SUFFICES ASSUME recorder = Nil, NEW s \in Sessions
               PROVE  Cardinality(OfSession(s)) <= Keep + faults + crashes
    BY DEF SizeBounded
  <2>1. Cardinality(OfSession(s)) <= Keep + faults + crashes + 0
    BY <1>1 DEF SizeInv, Sized, Pending
  <2>2. Keep \in Nat /\ faults \in Nat /\ crashes \in Nat
    BY <1>1, ConversationAssumption DEF SizeInv, TurnsInv, TypeInv, TypeOK
  <2> QED BY <2>1, <2>2
<1> QED BY <1>1, InitSized, NextSized, PTL DEF Spec

(***************************** order of storing ****************************)

\* Requests that never overlap: two that do may be given one number, and be
\* stored in the other order.
Sequential == \A q, r \in Requests : q = r

Waiting(r) == pc[r] \in {"asked", "unplaced", "resolved"}
TalkOf(r) == Talk(call[r].session, call[r].domain)

\* The number a request was given is above every number of its conversation.
Numbered == \A r \in Requests : Waiting(r) => \A a \in TalkOf(r) : a.turn < call[r].number

\* The history a request holds is the end of its conversation, unless that was
\* cleared since.
HistoryLast ==
    \A r \in Requests : Waiting(r) =>
        \/ TalkOf(r) = {}
        \/ /\ call[r].hist \subseteq TalkOf(r)
           /\ \A b \in TalkOf(r) \ call[r].hist, a \in call[r].hist : Before(b, a)

OrderInv == TurnsInv /\ OldestFirst /\ Numbered /\ HistoryLast

\* What all turns of the store have, any set of them has.
LEMMA SomeTurns ==
  ASSUME TurnsInv, NEW S, S \subseteq turns
  PROVE  /\ \A a \in S : IsTurn(a) /\ a.turn \in Nat /\ a.at \in Nat
         /\ Untied(S) /\ IsFiniteSet(S)
         /\ clock \in Nat /\ \A a \in S : a.turn \in 0 .. clock /\ a.at \in 0 .. clock
BY FS_Subset DEF TurnsInv, TypeInv, TypeOK, Timed, Dated, IsTurn, Untied

\* What is not among the last n comes before what is.
LEMMA LastComeLater ==
  ASSUME TurnsInv, NEW S, S \subseteq turns, NEW n \in Nat,
         NEW a \in LastOf(S, n), NEW b \in S \ LastOf(S, n)
  PROVE  Before(b, a)
<1>1. /\ \A x, y \in S : x = y \/ Before(x, y) \/ Before(y, x)
      /\ \A x, y, z \in S : Before(x, y) /\ Before(y, z) => Before(x, z)
  BY SomeTurns, TotalOrder DEF TurnsInv
<1>2. a \in S /\ a # b
  BY DEF LastOf
<1>3. SUFFICES ASSUME Before(a, b) PROVE FALSE
  BY <1>1, <1>2
<1> DEFINE After(x) == {y \in S : Before(x, y)}
<1>4. Cardinality(After(a)) < n /\ ~(Cardinality(After(b)) < n)
  BY DEF LastOf
<1>5. After(b) \subseteq After(a)
  BY <1>1, <1>2, <1>3
<1>6. IsFiniteSet(After(a))
  <2>1. IsFiniteSet(S) /\ After(a) \subseteq S
    BY SomeTurns
  <2> QED BY <2>1, FS_Subset
<1>7. Cardinality(After(b)) <= Cardinality(After(a)) /\ Cardinality(After(a)) \in Nat
      /\ Cardinality(After(b)) \in Nat
  BY <1>5, <1>6, FS_Subset, FS_CardinalityType
<1> QED BY <1>4, <1>7

\* The last of the last n is the last of all.
LEMMA LastIsLatest ==
  ASSUME TurnsInv, NEW S, S \subseteq turns, S # {}, NEW n \in Nat, n # 0
  PROVE  /\ LastOf(S, n) # {}
         /\ \A b \in S : b.turn <= Latest(LastOf(S, n)).turn
<1> DEFINE L == LastOf(S, n)
<1>1. \A x, y \in S : x = y \/ Before(x, y) \/ Before(y, x)
  BY SomeTurns, TotalOrder DEF TurnsInv
<1>2. Latest(S) \in S /\ \A b \in S : ~Before(Latest(S), b)
  BY SomeTurns, LatestIsLast
<1>3. L \subseteq S
  BY DEF LastOf
<1>4. Latest(S) \in L
  <2> DEFINE After == {b \in S : Before(Latest(S), b)}
  <2>1. After = {}
    BY <1>2
  <2>2. Cardinality(After) = Cardinality({}) /\ Cardinality({}) = 0
    BY <2>1, FS_EmptySet
  <2> QED BY <1>2, <2>2 DEF LastOf
<1>5. Latest(L) \in L /\ \A b \in L : ~Before(Latest(L), b)
  <2>1. /\ L # {} /\ clock \in Nat
        /\ \A a \in L : a.turn \in 0 .. clock /\ a.at \in 0 .. clock
    BY <1>3, <1>4, SomeTurns
  <2> HIDE DEF L
  <2> QED BY <2>1, LatestIsLast
<1>6. Latest(L) = Latest(S)
  <2>1. Latest(L) \in S /\ ~Before(Latest(L), Latest(S)) /\ ~Before(Latest(S), Latest(L))
    BY <1>2, <1>3, <1>4, <1>5
  <2> HIDE DEF L
  <2> QED BY <1>1, <1>2, <2>1
<1>7. ASSUME NEW b \in S PROVE b.turn <= Latest(S).turn
  <2>1. b.turn \in Nat /\ Latest(S).turn \in Nat /\ ~Before(Latest(S), b)
    BY <1>2, SomeTurns
  <2> QED BY <2>1 DEF Before
<1> HIDE DEF L
<1> QED BY <1>4, <1>6, <1>7 DEF L

\* A request arriving is numbered on from its conversation, and holds its end.
LEMMA HistoryIsLast ==
  ASSUME TurnsInv, NEW s, NEW d
  PROVE  /\ \A a \in Talk(s, d) : a.turn < NextTurnNumber(History(s, d))
         /\ \A a \in Talk(s, d) : a.turn < NextTurnNumber(OfSession(s))
         /\ History(s, d) \subseteq Talk(s, d)
         /\ \A b \in Talk(s, d) \ History(s, d), a \in History(s, d) : Before(b, a)
<1>1. Talk(s, d) \subseteq turns /\ OfSession(s) \subseteq turns /\ Talk(s, d) \subseteq OfSession(s)
  BY DEF Talk, OfSession
<1>2. HistoryTurns \in Nat
  BY ConversationAssumption
<1>3. History(s, d) \subseteq Talk(s, d)
  BY DEF History, LastOf
<1>4. \A b \in Talk(s, d) \ History(s, d), a \in History(s, d) : Before(b, a)
  BY <1>1, <1>2, LastComeLater DEF History
<1>5. ASSUME NEW S, S \subseteq turns, NEW a \in S PROVE a.turn < Latest(S).turn + 1
  <2>1. Latest(S) \in S /\ ~Before(Latest(S), a)
    BY <1>5, SomeTurns, LatestIsLast
  <2>2. a.turn \in Nat /\ Latest(S).turn \in Nat
    BY <1>5, <2>1, SomeTurns
  <2> QED BY <2>1, <2>2 DEF Before
<1>6. ASSUME NEW a \in Talk(s, d) PROVE a.turn < NextTurnNumber(OfSession(s))
  BY <1>1, <1>5, <1>6 DEF NextTurnNumber
<1>7. ASSUME NEW a \in Talk(s, d) PROVE a.turn < NextTurnNumber(History(s, d))
  <2>1. CASE HistoryTurns = 0
    BY <1>1, <1>5, <2>1 DEF NextTurnNumber, History
  <2>2. CASE HistoryTurns # 0
    <3>1. History(s, d) = LastOf(Talk(s, d), HistoryTurns)
      BY <2>2 DEF History
    <3>2. History(s, d) # {} /\ a.turn <= Latest(History(s, d)).turn
      BY <1>1, <1>2, <1>7, <2>2, <3>1, LastIsLatest
    <3>3. History(s, d) \subseteq turns
      BY <1>1, <1>3
    <3>4. Latest(History(s, d)) \in turns
      BY <3>2, <3>3, SomeTurns, LatestIsLast
    <3>5. a.turn \in Nat /\ Latest(History(s, d)).turn \in Nat
      BY <1>1, <3>4, SomeTurns
    <3> QED BY <3>2, <3>5 DEF NextTurnNumber
  <2> QED BY <2>1, <2>2
<1> QED BY <1>3, <1>4, <1>6, <1>7

LEMMA InitOrdered == Init => OrderInv
BY InitTurns DEF Init, OrderInv, OldestFirst, Numbered, HistoryLast, Waiting

\* Fewer turns, or a session's cleared, and nobody waiting who was not.
LEMMA FewerTurns ==
  ASSUME OrderInv, turns' \subseteq turns
  PROVE  OldestFirst'
BY DEF OrderInv, OldestFirst

LEMMA BeginOrdered ==
  ASSUME Sequential, OrderInv, NEW r \in Requests, NEW s \in Sessions, NEW d \in Domains,
         NEW useContext \in BOOLEAN, Begin(r, s, d, useContext)
  PROVE  Numbered' /\ HistoryLast'
<1> DEFINE h == IF useContext THEN History(s, d) ELSE {}
           m == NextTurnNumber(IF useContext THEN History(s, d) ELSE OfSession(s))
<1>1. /\ turns' = turns /\ call'[r].session = s /\ call'[r].domain = d
      /\ call'[r].hist = h /\ call'[r].number = m
  BY DEF Begin, stored, OrderInv, TurnsInv, TypeInv, TypeOK
<1>2. \A q \in Requests : q = r
  BY DEF Sequential
<1>3. TalkOf(r)' = Talk(s, d)
  BY <1>1 DEF TalkOf, Talk
<1>4. \A a \in Talk(s, d) : a.turn < m
  BY HistoryIsLast DEF OrderInv
<1>5. h \subseteq Talk(s, d) /\ \A b \in Talk(s, d) \ h, a \in h : Before(b, a)
  BY HistoryIsLast DEF OrderInv
<1> HIDE DEF h, m
<1>6. \A a \in TalkOf(r)' : a.turn < call'[r].number
  BY <1>1, <1>3, <1>4
<1>7. /\ call'[r].hist \subseteq TalkOf(r)'
      /\ \A b \in TalkOf(r)' \ call'[r].hist, a \in call'[r].hist : Before(b, a)
  BY <1>1, <1>3, <1>5
<1> QED BY <1>2, <1>6, <1>7 DEF Numbered, HistoryLast

\* A step in which the one request that waits keeps what it read, and no turn
\* of its conversation goes unless all do.
LEMMA StillWaiting ==
  ASSUME OrderInv, turns' \subseteq turns,
         \A r \in Requests : Waiting(r)' =>
            /\ Waiting(r)
            /\ call'[r].session = call[r].session /\ call'[r].domain = call[r].domain
            /\ call'[r].hist = call[r].hist /\ call'[r].number = call[r].number
            /\ TalkOf(r)' = TalkOf(r) \/ TalkOf(r)' = {}
  PROVE  Numbered' /\ HistoryLast'
<1>1. Numbered'
  BY DEF OrderInv, Numbered
<1>2. HistoryLast'
  <2> SUFFICES ASSUME NEW r \in Requests, Waiting(r)', TalkOf(r)' # {}
               PROVE  /\ call'[r].hist \subseteq TalkOf(r)'
                      /\ \A b \in TalkOf(r)' \ call'[r].hist, a \in call'[r].hist : Before(b, a)
    BY DEF HistoryLast
  <2>1. Waiting(r) /\ TalkOf(r)' = TalkOf(r) /\ call'[r].hist = call[r].hist
    OBVIOUS
  <2>2. /\ call[r].hist \subseteq TalkOf(r)
        /\ \A b \in TalkOf(r) \ call[r].hist, a \in call[r].hist : Before(b, a)
    BY <2>1 DEF OrderInv, HistoryLast
  <2> QED BY <2>1, <2>2
<1> QED BY <1>1, <1>2

LEMMA AppendOrdered ==
  ASSUME Sequential, OrderInv, NEW r \in Requests, Append(r)
  PROVE  OldestFirst' /\ Numbered' /\ HistoryLast'
<1>1. PICK new : Added(new, r)
  BY AppendAdds
<1>2. /\ pc[r] = "resolved" /\ pc' = [pc EXCEPT ![r] = "appended"] /\ DOMAIN pc = Requests
  BY DEF Append, OrderInv, TurnsInv, TypeInv, TypeOK
<1>3. \A q \in Requests : ~Waiting(q)'
  BY <1>2 DEF Sequential, Waiting
<1>4. Waiting(r)
  BY <1>2 DEF Waiting
<1>5. \A a \in TalkOf(r) : a.turn < call[r].number
  BY <1>4 DEF OrderInv, Numbered
<1>6. \A a \in turns : a.at < clock /\ a.at \in Nat /\ clock \in Nat
  BY DEF OrderInv, TurnsInv, TypeInv, TypeOK, Timed, Dated, IsTurn
<1>7. OldestFirst'
  <2> SUFFICES ASSUME NEW a \in turns', NEW b \in turns',
                      a.session = b.session, a.domain = b.domain, a.at < b.at
               PROVE  a.turn < b.turn
    BY DEF OldestFirst
  <2>1. CASE a \in turns /\ b \in turns
    BY <2>1 DEF OrderInv, OldestFirst
  <2>2. CASE a \in turns /\ b = new
    <3>1. a \in TalkOf(r)
      BY <1>1, <2>2 DEF TalkOf, Talk, Added
    <3> QED BY <1>1, <1>5, <2>2, <3>1 DEF Added
  <2>3. CASE a = new
    <3>1. a.at = clock /\ clock \in Nat
      BY <1>1, <2>3 DEF Added, OrderInv, TurnsInv, TypeInv, TypeOK
    <3>2. b = new \/ b.at < clock
      BY <1>1, <1>6 DEF Added
    <3>3. b = new \/ (b.at \in Nat /\ b.at < clock)
      BY <1>1, <1>6 DEF Added
    <3> QED BY <2>3, <3>1, <3>3
  <2> QED BY <1>1, <2>1, <2>2, <2>3 DEF Added
<1> QED BY <1>3, <1>7 DEF Numbered, HistoryLast

LEMMA NextOrdered == Sequential /\ OrderInv /\ [Next]_vars => OrderInv'
<1> SUFFICES ASSUME Sequential, OrderInv, [Next]_vars PROVE OrderInv'
  OBVIOUS
<1>1. TurnsInv'
  BY NextTurns DEF OrderInv
<1>2. DOMAIN pc = Requests /\ DOMAIN call = Requests
  BY DEF OrderInv, TurnsInv, TypeInv, TypeOK
<1>3. ASSUME NEW r \in Requests, Retrieve(r) \/ Retry(r)
      PROVE  OldestFirst' /\ Numbered' /\ HistoryLast'
  <2>1. /\ turns' = turns /\ Waiting(r)
        /\ \E v : call' = [call EXCEPT ![r].verdict = v]
    BY <1>3 DEF Retrieve, Retry, stored, Waiting
  <2>2. \A q \in Requests : q = r
    BY DEF Sequential
  <2>3. DOMAIN call[r] = {"session", "domain", "asked", "hist", "number", "verdict"}
    BY <2>1 DEF OrderInv, TurnsInv, TypeInv, TypeOK, IsCall, Waiting
  <2>4. /\ call'[r].session = call[r].session /\ call'[r].domain = call[r].domain
        /\ call'[r].hist = call[r].hist /\ call'[r].number = call[r].number
    BY <1>2, <2>1, <2>3
  <2>5. TalkOf(r)' = TalkOf(r)
    BY <2>1, <2>4 DEF TalkOf, Talk
  <2>6. \A q \in Requests : Waiting(q)' =>
            /\ Waiting(q)
            /\ call'[q].session = call[q].session /\ call'[q].domain = call[q].domain
            /\ call'[q].hist = call[q].hist /\ call'[q].number = call[q].number
            /\ TalkOf(q)' = TalkOf(q) \/ TalkOf(q)' = {}
    BY <2>1, <2>2, <2>4, <2>5
  <2>7. turns' \subseteq turns
    BY <2>1
  <2> QED BY <2>6, <2>7, FewerTurns, StillWaiting
<1>4. ASSUME NEW r \in Requests, Prune(r) \/ Sweep(r) \/ Fail(r)
      PROVE  OldestFirst' /\ Numbered' /\ HistoryLast'
  <2>1. turns' \subseteq turns /\ pc'[r] \in {"idle", "sweeping"}
    BY <1>2, <1>4 DEF Prune, Sweep, Fail, Leave, stored
  <2>2. \A q \in Requests : ~Waiting(q)'
    BY <2>1 DEF Sequential, Waiting
  <2> QED BY <2>1, <2>2, FewerTurns DEF Numbered, HistoryLast
<1>5. ASSUME NEW s \in Sessions, Clear(s)
      PROVE  OldestFirst' /\ Numbered' /\ HistoryLast'
  <2>1. turns' = turns \ OfSession(s) /\ pc' = pc /\ call' = call
    BY <1>5 DEF Clear, locals
  <2>2. \A q \in Requests : TalkOf(q)' = TalkOf(q) \/ TalkOf(q)' = {}
    BY <2>1 DEF TalkOf, Talk, OfSession
  <2>3. \A q \in Requests : Waiting(q)' <=> Waiting(q)
    BY <2>1 DEF Waiting
  <2> QED BY <2>1, <2>2, <2>3, FewerTurns, StillWaiting
<1>6. ASSUME Restart PROVE OldestFirst' /\ Numbered' /\ HistoryLast'
  <2>1. turns' = turns /\ \A q \in Requests : pc'[q] = "idle"
    BY <1>6 DEF Restart
  <2> QED BY <2>1, FewerTurns DEF Numbered, HistoryLast, Waiting
<1>7. ASSUME Tick \/ UNCHANGED vars PROVE OldestFirst' /\ Numbered' /\ HistoryLast'
  <2>1. turns' = turns /\ pc' = pc /\ call' = call
    BY <1>7 DEF Tick, vars, stored, locals
  <2>2. \A q \in Requests : TalkOf(q)' = TalkOf(q) /\ (Waiting(q)' <=> Waiting(q))
    BY <2>1 DEF TalkOf, Talk, Waiting
  <2> QED BY <2>1, <2>2, FewerTurns, StillWaiting
<1>8. ASSUME NEW r \in Requests, NEW s \in Sessions, NEW d \in Domains,
             NEW useContext \in BOOLEAN, Begin(r, s, d, useContext)
      PROVE  OldestFirst' /\ Numbered' /\ HistoryLast'
  <2>1. turns' \subseteq turns
    BY <1>8 DEF Begin, stored
  <2> QED BY <1>8, <2>1, FewerTurns, BeginOrdered
<1>9. OldestFirst' /\ Numbered' /\ HistoryLast'
  BY <1>3, <1>4, <1>5, <1>6, <1>7, <1>8, AppendOrdered DEF Next, Step, UiClassify
<1> QED BY <1>1, <1>9 DEF OrderInv

\* "Earlier turns in this session for this domain, oldest first": requests that
\* follow one another number the turns of a conversation in the order they are
\* stored in, whatever is cleared, swept or pruned in between and wherever an
\* exception or a restart cuts one short.
THEOREM ReadInTheOrderStored ==
  ASSUME Sequential
  PROVE  Spec => []OldestFirst
<1>1. OrderInv => OldestFirst
  BY DEF OrderInv
<1>2. OrderInv /\ [Next]_vars => OrderInv'
  BY NextOrdered
<1> QED BY <1>1, <1>2, InitOrdered, PTL DEF Spec

\* Of two turns of one conversation, the one that sorts first is the older.
LEMMA FirstIsOlder ==
  ASSUME OrderInv, NEW a \in turns, NEW b \in turns,
         a.session = b.session, a.domain = b.domain, Before(a, b)
  PROVE  a.at < b.at
<1>1. a.turn \in Nat /\ b.turn \in Nat /\ a.at \in Nat /\ b.at \in Nat
  <2>1. turns \subseteq turns
    OBVIOUS
  <2> QED BY <2>1, SomeTurns DEF OrderInv
<1>2. b.at < a.at => b.turn < a.turn
  BY DEF OrderInv, OldestFirst
<1>3. a.at # b.at
  BY <1>1 DEF OrderInv, TurnsInv, Untied, Before
<1> QED BY <1>1, <1>2, <1>3 DEF Before

\* What a step prunes was stored before what it leaves.
LEMMA PrunedOldest ==
  ASSUME OrderInv, [Next]_vars, NEW r \in Requests, pc[r] = "appended", pc'[r] # "appended",
         NEW a \in turns \ turns', NEW b \in turns',
         a.session = b.session, a.domain = b.domain
  PROVE  a.at < b.at
<1>1. CASE \E q \in Requests : Prune(q)
  <2>1. PICK q \in Requests : Prune(q)
    BY <1>1
  <2> DEFINE S == OfSession(call[q].session)
  <2>2. a \in S \ LastOf(S, Keep)
    BY <2>1 DEF Prune, Beyond
  <2>3. b \in LastOf(S, Keep)
    <3>1. b \in S /\ b \in turns /\ b \notin Beyond(call[q].session)
      BY <2>1, <2>2 DEF Prune, OfSession
    <3> QED BY <3>1 DEF Beyond
  <2>4. S \subseteq turns /\ Keep \in Nat
    BY ConversationAssumption DEF OfSession
  <2> HIDE DEF S
  <2>5. Before(a, b)
    BY <2>2, <2>3, <2>4, LastComeLater DEF OrderInv
  <2>6. a \in turns /\ b \in turns
    BY <2>2, <2>3, <2>4 DEF LastOf
  <2> QED BY <2>5, <2>6, FirstIsOlder
<1>2. CASE turns \subseteq turns'
  BY <1>2
<1>3. CASE \E q \in Requests : Sweep(q)
  <2>1. \A q \in Requests : pc[q] \in {"appended", "sweeping"} <=> recorder = q
    BY DEF OrderInv, TurnsInv, TypeInv, TypeOK
  <2> QED BY <1>3, <2>1 DEF Sweep
<1>4. CASE \E s \in Sessions : Clear(s)
  BY <1>4 DEF Clear, locals
<1> QED BY <1>1, <1>2, <1>3, <1>4 DEF Next, Step, UiClassify, Begin, Retrieve, Retry, Append, Fail,
           Restart, Tick, stored, vars

\* "Drop the oldest turns beyond keep": what prune takes of a conversation was
\* stored before anything it leaves.
THEOREM OldestGoFirst ==
  ASSUME Sequential
  PROVE  Spec => PrunesInOrder
<1>1. ASSUME OrderInv, [Next]_vars
      PROVE  \/ \A r \in Requests : pc[r] = "appended" /\ pc'[r] # "appended" =>
                   \A a \in turns \ turns', b \in turns' :
                       a.session = b.session /\ a.domain = b.domain => a.at < b.at
             \/ UNCHANGED vars
  BY <1>1, PrunedOldest
<1>2. OrderInv /\ [Next]_vars => OrderInv'
  BY NextOrdered
<1> QED BY <1>1, <1>2, InitOrdered, PTL DEF Spec, PrunesInOrder

\* The value carried for an entity is that of the last turn of the history that
\* has it.
LEMMA CarriedFromLatest ==
  ASSUME NEW h, NEW said, NEW schema, Bounded(h), NEW n \in Carried(h, said, schema)
  PROVE  \E a \in h :
           /\ n \in DOMAIN a.entities
           /\ CarryOver(h, said, schema)[n] = a.entities[n]
           /\ \A b \in h : n \in DOMAIN b.entities => ~Before(a, b)
<1> DEFINE with == {a \in h : n \in DOMAIN a.entities}
<1>1. with # {} /\ n \notin DOMAIN said
  BY DEF Carried
<1>2. Latest(with) \in with /\ \A b \in with : ~Before(Latest(with), b)
  <2>1. \E m \in Nat : \A a \in with : a.turn \in 0 .. m /\ a.at \in 0 .. m
    BY DEF Bounded
  <2> HIDE DEF with
  <2> QED BY <1>1, <2>1, LatestIsLast
<1>3. CarryOver(h, said, schema)[n] = Latest(with).entities[n]
  BY <1>1 DEF CarryOver
<1> QED BY <1>2, <1>3

\* What a request appends carries the latest value its conversation has.
LEMMA AppendCarries ==
  ASSUME OrderInv, NEW r \in Requests, Append(r),
         NEW c \in turns' \ turns, NEW n \in c.carried,
         NEW b \in Talk(c.session, c.domain), n \in DOMAIN b.entities
  PROVE  \/ b.entities[n] = c.entities[n]
         \/ \E a \in Talk(c.session, c.domain) : a.at > b.at /\ n \in DOMAIN a.entities
<1> DEFINE h == call[r].hist
           schema == Declared(call[r].verdict)
<1>1. PICK said :
        turns' = turns \cup
          {[session |-> call[r].session, domain |-> call[r].domain,
            turn |-> call[r].number, at |-> clock, intent |-> call[r].verdict,
            entities |-> CarryOver(h, said, schema),
            carried |-> Carried(h, said, schema)]}
  BY DEF Append
<1>2. /\ c.session = call[r].session /\ c.domain = call[r].domain
      /\ c.entities = CarryOver(h, said, schema) /\ c.carried = Carried(h, said, schema)
  BY <1>1
<1>3. pc[r] = "resolved" /\ Waiting(r)
  BY DEF Append, Waiting
<1>4. Bounded(h)
  <2>1. /\ clock \in Nat
        /\ \A a \in h : a.turn \in Nat /\ a.at \in Nat /\ a.turn <= a.at /\ a.at < clock
    BY <1>3 DEF OrderInv, TurnsInv, TypeInv, TypeOK, Timed, Dated, IsCall, IsTurn
  <2> HIDE DEF h
  <2> QED BY <2>1 DEF Bounded
<1> HIDE DEF h, schema
<1>5. PICK a \in h :
        /\ n \in DOMAIN a.entities
        /\ CarryOver(h, said, schema)[n] = a.entities[n]
        /\ \A x \in h : n \in DOMAIN x.entities => ~Before(a, x)
  BY <1>2, <1>4, CarriedFromLatest
<1>6. TalkOf(r) = Talk(c.session, c.domain) /\ b \in TalkOf(r)
  BY <1>2 DEF TalkOf
<1>7. h \subseteq TalkOf(r) /\ \A x \in TalkOf(r) \ h, y \in h : Before(x, y)
  BY <1>3, <1>6 DEF OrderInv, HistoryLast, h
<1>8. a \in turns /\ b \in turns /\ a.session = b.session /\ a.domain = b.domain
  BY <1>5, <1>6, <1>7 DEF TalkOf, Talk
<1>9. CASE a = b
  BY <1>2, <1>5, <1>9
<1>10. CASE a # b
  <2>1. Before(b, a)
    <3>1. CASE b \in h
      <4>1. ~Before(a, b)
        BY <1>5, <3>1
      <4>2. Before(a, b) \/ Before(b, a)
        <5>1. \A x \in turns : IsTurn(x)
          BY DEF OrderInv, TurnsInv, TypeInv, TypeOK
        <5> QED BY <1>8, <1>10, <5>1, TotalOrder DEF OrderInv, TurnsInv
      <4> QED BY <4>1, <4>2
    <3>2. CASE b \notin h
      BY <1>5, <1>6, <1>7, <3>2
    <3> QED BY <3>1, <3>2
  <2>2. b.at < a.at
    BY <1>8, <2>1, FirstIsOlder
  <2>3. a.at \in Nat /\ b.at \in Nat
    BY <1>8 DEF OrderInv, TurnsInv, TypeInv, TypeOK, IsTurn
  <2>4. a.at > b.at
    BY <2>2, <2>3
  <2> QED BY <1>5, <1>6, <1>7, <2>4
<1> QED BY <1>9, <1>10

\* "Most recent turn wins" (SessionService.carry_over): the value carried into
\* a turn is that of the last stored turn of the whole conversation that has the
\* entity, however few turns of it are read.
THEOREM LatestValueWins ==
  ASSUME Sequential
  PROVE  Spec => CarriesLatest
<1>1. ASSUME OrderInv, [Next]_vars
      PROVE  \/ \A r \in Requests : pc[r] = "resolved" /\ pc'[r] = "appended" =>
                  \A c \in turns' \ turns : \A n \in c.carried :
                      \A b \in Talk(c.session, c.domain) :
                          n \in DOMAIN b.entities =>
                              \/ b.entities[n] = c.entities[n]
                              \/ \E a \in Talk(c.session, c.domain) :
                                    a.at > b.at /\ n \in DOMAIN a.entities
             \/ UNCHANGED vars
  <2>1. turns' \subseteq turns \/ \E q \in Requests : Append(q)
    BY <1>1, TurnsMove DEF OrderInv
  <2>2. CASE turns' \subseteq turns
    BY <2>2
  <2>3. CASE \E q \in Requests : Append(q)
    BY <1>1, <2>3, AppendCarries
  <2> QED BY <2>1, <2>2, <2>3
<1>2. OrderInv /\ [Next]_vars => OrderInv'
  BY NextOrdered
<1> QED BY <1>1, <1>2, InitOrdered, PTL DEF Spec, CarriesLatest
=============================================================================
