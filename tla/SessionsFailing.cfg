\* One session, three requests of any kind (a use is a failed one), each of which may fail half-way.
CONSTANTS
    s1 = s1
    s2 = s2
    s3 = s3
    r1 = r1
    r2 = r2
    r3 = r3
    NoSession = NoSession
    Sessions = {s1}
    Requests = {r1, r2, r3}
    Kinds <- AllButUse
    MaxSessions = 1
    MaxAccess = 2
    Failures = TRUE
SPECIFICATION Spec
SYMMETRY Symmetry
INVARIANT NoLateAcceptance
INVARIANT InvalidatedForGood
INVARIANT KeysExpire
PROPERTY KeepsPromise
