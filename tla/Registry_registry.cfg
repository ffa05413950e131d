SPECIFICATION Spec
CONSTANTS
    Nil = Nil
    i1 = i1
    i2 = i2
    Ids = {i1, i2}
    Servers <- SplitServers
    Names <- SplitNames
    Fold <- FoldCase
    Schemas <- OneSchema
    Entities <- OneEntity
    Intents = {n1}
    Labels <- OneLabel
    Bindings <- TwoBindings
    Required <- None
    Declared <- OneEntity
    Payloads <- ImportPayloads
    Callers = {c1, c2}
    Doors = {"api", "ui"}
    MaxFaults = 1
INVARIANTS TypeOK NamesLeadBack CallsHonest
PROPERTIES BindingsStable ImportConfined DirectorySpec
SYMMETRY Symmetry
CHECK_DEADLOCK FALSE
