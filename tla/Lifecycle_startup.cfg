SPECIFICATION FairSpec
CONSTANTS
    Nil = Nil
    Broken = Broken
    d1 = d1
    d2 = d2
    n1 = n1
    n2 = n2
    x = x
    y = y
    c = c
    Domains = {d1, d2}
    Intents <- TwoIntents
    Texts = {x, y}
    Contents = {c}
    Demo <- OneDomain
    SeedOnStartup = TRUE
    MaxEdits = 2
    MaxFaults = 1
    MaxCrashes = 1
INVARIANTS TypeOK NoOrphans SeedingCompletes RestoreIsExact ReportsFresh
PROPERTIES SeedingSpares JobsEnd
