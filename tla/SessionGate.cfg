\* A sent message and a report, two drains, one fault: a crash, a lost publish, a Stop.
CONSTANTS
    Messages = {m1, m2}
    Reports = {m2}
    Unreadable = {}
    Doorbell = {m1}
    Fat = {m1, m2}
    Consumer = Consumer
    Sweeper = Sweeper
    None = None
    BIND_MAX_ATTEMPTS = 1
    MAX_DRAINS_PER_CALL = 1
    MaxFaults = 1
SPECIFICATION Spec
INVARIANTS TypeOK NoTurnRunsTwice OneTurnAtATime ParkedTurnIsAccountedFor
PROPERTY LiveTurnKeepsItsGate
CHECK_DEADLOCK FALSE
