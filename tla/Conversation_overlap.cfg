SPECIFICATION Spec
CONSTANTS
    Requests = {r1, r2}
    Sessions = {s1, s2}
    Domains = {d1, d2}
    Intents = {search, expiry}
    Entities = {party, other}
    other = other
    search = search
    expiry = expiry
    party = party
    Schema <- OneSchema
    HistoryTurns = 1
    Keep = 1
    Ttl = 2
    SweepEvery = 2
    Unknown = Unknown
    Nil = Nil
    MaxClock = 5
    MaxFaults = 1
    MaxCrashes = 1
SYMMETRY Sym
INVARIANTS TypeOK Isolation SizeBounded
CHECK_DEADLOCK FALSE
