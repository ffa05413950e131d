SPECIFICATION HSpec
CONSTANTS
    Threads = {t1, t2}
    DomainIds = {d1}
    IntentIds = {i1}
    ExampleIds = {e1, e2}
    Names = {n1, n2}
    Texts = {x}
    x = x
    Batches <- RepeatedText
    Kinds <- EvidenceKinds
    Nil = Nil
    MaxVersion = 4
    MaxFaults = 0
    MaxCrashes = 0
SYMMETRY Sym
INVARIANTS UniqueTexts EvidenceIsCurrent
CHECK_DEADLOCK FALSE
