\* The two messages alone, with fairness.
SPECIFICATION FairSpec
CONSTANTS
    Abandoned = Abandoned
    Leased = {f1}
    Plain = {f2}
    Rows = {}
    MAX = 1
    RESIDENT = 2
    MAX_DELIVER = 4
    SURPLUS_REFUSALS = 1
    MaxClaims = 1
    MaxDetours = 2
    Askers = {k1}
CHECK_DEADLOCK FALSE
PROPERTIES
    ShutdownEnds
    KeptDeliveryIsServed
