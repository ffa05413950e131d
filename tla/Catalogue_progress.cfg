SPECIFICATION FairSpec
CONSTANTS
    Threads = {t1, t2}
    DomainIds = {d1}
    IntentIds = {i1, i2}
    ExampleIds = {e1}
    Names = {n1, n2}
    Texts = {x}
    x = x
    Batches <- OneText
    Kinds <- Mutations
    Nil = Nil
    MaxVersion = 2
    MaxFaults = 0
    MaxCrashes = 0
INVARIANT UniqueNames
PROPERTY RequestsFinish
