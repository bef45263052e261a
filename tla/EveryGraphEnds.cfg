\* The same graph without faults or waits; one node of it is cancelled.
SPECIFICATION FairSpec
CONSTANTS
    a = a
    b = b
    c = c
    NoNode = NoNode
    Nodes = {a, b, c}
    Deps <- Fork
    Cascading = {c}
    Scripts = {b}
    LastUser = c
    Stops = {"node"}
    MaxDetours = 0
CHECK_DEADLOCK FALSE
PROPERTIES
    EveryGraphEnds
