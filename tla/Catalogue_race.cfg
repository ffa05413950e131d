SPECIFICATION Spec
CONSTANTS
    Threads = {t1, t2}
    DomainIds = {d1}
    IntentIds = {i1}
    ExampleIds = {e1}
    Names = {n1, n2}
    Texts = {x}
    x = x
    Batches <- OneText
    Kinds <- AllKinds
    Nil = Nil
    MaxVersion = 3
    MaxFaults = 1
    MaxCrashes = 1
SYMMETRY IdSym
INVARIANTS TypeOK IndexFresh DirtyMeansFailed LockDiscipline
CHECK_DEADLOCK FALSE
