\* A leased message and a doorbell row, claimed twice, on a pod with one slot and room for two.
SPECIFICATION Spec
CONSTANTS
    Abandoned = Abandoned
    Leased = {f1}
    Plain = {}
    Rows = {r1}
    MAX = 1
    RESIDENT = 2
    MAX_DELIVER = 4
    SURPLUS_REFUSALS = 1
    MaxClaims = 2
    MaxDetours = 1
    Askers = {k1}
CHECK_DEADLOCK FALSE
INVARIANTS
    TypeOK
    SlotsAreAccountedFor
    CapacityIsKeptAndUsed
    NakedMessageIsUnleased
    RefusalsNeverDropAMessage
    ExitHandsBackRuns
