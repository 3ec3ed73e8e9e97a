\* Two tabs with shared cookies, two logins, an officer who may leave; fairness.
CONSTANTS
    Tab = {t1, t2}
    Timeout = 3
    Offset = 1
    MaxLogins = 2
    MaxLogouts = 2
SPECIFICATION FairSpec
INVARIANT TypeOK
INVARIANT WarnedFirst
PROPERTY WarningStays
PROPERTY IdleEnds
CHECK_DEADLOCK FALSE
