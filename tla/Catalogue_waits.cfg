SPECIFICATION Spec
CONSTANTS
    Threads = {t1, t2}
    DomainIds = {d1}
    IntentIds = {i1}
    ExampleIds = {e1}
    Names = {n1}
    Texts = {x}
    x = x
    Batches <- OneText
    Kinds <- WaitKinds
    Nil = Nil
    MaxVersion = 2
    MaxFaults = 0
    MaxCrashes = 0
INVARIANT NoCircularWait
CHECK_DEADLOCK FALSE
