\* Every hook with every query it tells or should tell; fairness.
CONSTANTS
    c1 = c1
    c2 = c2
    Call = {c1, c2}
    MaxWrites = 2
    Pairs <- Related
SPECIFICATION FairSpec
INVARIANT Told
PROPERTY CatchesUp
CHECK_DEADLOCK FALSE
