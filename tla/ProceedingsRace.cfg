\* Every operation of both services, two requests at a time.
CONSTANTS
    c1 = c1
    c2 = c2
    r1 = r1
    r2 = r2
    None = None
    Charges = {c1}
    Requests = {r1, r2}
    Endpoints <- Endpoint
    Verdicts = {"guilty", "mistrial"}
SPECIFICATION Spec
SYMMETRY Symmetry
INVARIANT TypeOK
INVARIANT UniqueRows
INVARIANT TerminalVerdictCloses
INVARIANT CourtFollowsReferral
INVARIANT SentencesFollowConviction
INVARIANT ShortWaits
PROPERTY DeletedStays
PROPERTY AutoCloseConcluded
CHECK_DEADLOCK FALSE
