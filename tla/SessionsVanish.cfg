\* Two sessions, no token refresh, no failures: what is left of a removed session.
CONSTANTS
    s1 = s1
    s2 = s2
    s3 = s3
    r1 = r1
    r2 = r2
    r3 = r3
    NoSession = NoSession
    Sessions = {s1, s2}
    Requests = {r1, r2}
    Kinds <- OneOpens
    MaxSessions = 1
    MaxAccess = 1
    Failures = FALSE
SPECIFICATION FairSpec
PROPERTY RemainsVanish
