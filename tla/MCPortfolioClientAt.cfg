\* Every query of a question is made with .at(hash) of the block it started at.
CONSTANTS
    d1 = d1
    n1 = n1
    n2 = n2
    NoValue = NoValue
    Dids <- MCDids
    Names <- MCNames
    MaxPortfolioNumber = 1
    MaxBlocks = 2
    Pinned = TRUE
SYMMETRY NameSymmetry
SPECIFICATION Spec
INVARIANT AnswersConsistent
