\* Every run ends, past the poison ceiling and through crashes.
SPECIFICATION FairSpec
CONSTANTS
    r1 = r1
    r2 = r2
    b1 = b1
    b2 = b2
    s1 = s1
    t1 = t1
    NoBrain = NoBrain
    Rows = {r1}
    Brains = {b1}
    SessionOf <- OneSession
    MessageOf <- OneTurn
    POISON = 2
    MaxClaims = 3
    MaxNet = 3
    MaxRetries = 1
CHECK_DEADLOCK FALSE
PROPERTIES
    SettledAttemptIsSpent
    EveryRunEnds
