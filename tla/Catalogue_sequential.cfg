SPECIFICATION Spec
CONSTANTS
    Threads = {t1}
    DomainIds = {d1, d2}
    IntentIds = {i1, i2}
    ExampleIds = {e1}
    Names = {n1, n2}
    Texts = {x}
    x = x
    Batches <- OneText
    Kinds <- AllKinds
    Nil = Nil
    MaxVersion = 3
    MaxFaults = 1
    MaxCrashes = 0
SYMMETRY IdSym
INVARIANTS NoOrphans NamesCurrent
CHECK_DEADLOCK FALSE
