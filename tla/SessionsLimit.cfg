\* Three sessions, a limit of one; two requests at once, each of which may fail half-way:
\* two logins, a login or a changed password beside a reset, a logout beside each.
CONSTANTS
    s1 = s1
    s2 = s2
    s3 = s3
    r1 = r1
    r2 = r2
    r3 = r3
    NoSession = NoSession
    Sessions = {s1, s2, s3}
    Requests = {r1, r2}
    Kinds <- LoginsAndResets
    MaxSessions = 1
    MaxAccess = 1
    Failures = TRUE
SPECIFICATION Spec
SYMMETRY SessionSymmetry
INVARIANT TypeOK
INVARIANT ConcurrencyLimit
 
