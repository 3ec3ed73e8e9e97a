\* A tab, two calls at a time, a login, and refreshes without end of its token; fairness.
CONSTANTS
    None = None
    t1 = t1
    c1 = c1
    c2 = c2
    Tab = {t1}
    Call = {c1, c2}
    TabOf <- OneTab
    Expires = {"refresh"}
    MaxLogins = 1
    MaxTokens = 3
SPECIFICATION FairSpec
INVARIANT TypeOK
INVARIANT SingleFlight
INVARIANT QueueServed
INVARIANT RefreshOnce
PROPERTY KeepsPromise
PROPERTY CallsSettle
CHECK_DEADLOCK FALSE
