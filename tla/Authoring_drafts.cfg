SPECIFICATION FairSpec
CONSTANTS
    Nil = Nil
    Empty = Empty
    t1 = t1
    t2 = t2
    k1 = k1
    ghost = ghost
    a = a
    b = b
    c = c
    Workers = {w1}
    Rows = {r1, r2, r3}
    Names <- Names3
    Coerced <- CoercedNames
    Fold <- FoldNames
    Typed <- TypedTexts
    Texts <- AllTexts
    Norm <- NormTexts
    Quotes <- SelfQuotes
    Tools = {k1}
    Suits <- K1Searches
    FieldKey <- FieldKeys
    Pairs <- TwoPairs
    Replies <- SomeReplies
    Batches <- SomeBatches
    Settings <- Providers
    Count = 2
    PerIntent = 3
    MaxEdits = 2
    MaxDomains = 2
    MaxOperations = 2
    MaxPhrasings = 2
INVARIANTS TypeOK BatchAccounted InstructionsWhole
PROPERTIES OnlyDuplicatesSkipped GenerationOnlyAdds JobsFinish
CHECK_DEADLOCK FALSE
