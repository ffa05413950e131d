SPECIFICATION Spec
CONSTANTS
    Nil = Nil
    i1 = i1
    i2 = i2
    e1 = e1
    e2 = e2
    e3 = e3
    d1 = d1
    d2 = d2
    d3 = d3
    Intents = {i1, i2}
    Examples = {e1, e2, e3}
    Owner <- OwnerOf
    Similarities <- TwoSimilarities
    TopK = 2
    TopN = 1
    RrfK = 60
    Threshold = 55
    MinSimilarity = 60
    Margin = 10
    Variants <- JustAuto
    DefaultStrategy = "auto"
    AbVariants <- SingleLists
    Configurations <- OneOrNone
    Cases <- FourCases
    MaxChanges = 1
INVARIANTS TypeOK CeilingHolds NumbersDoNotWin RescueEarned CasesAccounted
SYMMETRY Alike
CHECK_DEADLOCK FALSE
