\* Two sent messages, one of them with credentials that cannot be read.
CONSTANTS
    Messages = {m1, m2}
    Reports = {}
    Unreadable = {m2}
    Doorbell = {}
    Fat = {m1, m2}
    Consumer = Consumer
    Sweeper = Sweeper
    None = None
    BIND_MAX_ATTEMPTS = 2
    MAX_DRAINS_PER_CALL = 2
    MaxFaults = 1
SPECIFICATION FairSpec
PROPERTIES GateIsOpenedAgain QueueIsDrained
CHECK_DEADLOCK FALSE
