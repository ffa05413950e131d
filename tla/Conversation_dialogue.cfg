SPECIFICATION Spec
CONSTANTS
    Requests = {r1}
    Sessions = {s1}
    Domains = {d1, d2}
    Intents = {search, expiry}
    Entities = {party, other}
    other = other
    search = search
    expiry = expiry
    party = party
    Schema <- OneSchema
    HistoryTurns = 2
    Keep = 2
    Ttl = 3
    SweepEvery = 2
    Unknown = Unknown
    Nil = Nil
    MaxClock = 8
    MaxFaults = 0
    MaxCrashes = 0
SYMMETRY Sym
INVARIANT OldestFirst
PROPERTIES PrunesInOrder CarriesLatest
CHECK_DEADLOCK FALSE
