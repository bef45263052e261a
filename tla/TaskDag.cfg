\* The graph a -> c beside b: a and c share a sandbox, b is a
\* script that may wait for something outside; a cancel may stop the graph or one node.
SPECIFICATION FairSpec
CONSTANTS
    a = a
    b = b
    c = c
    NoNode = NoNode
    Nodes = {a, b, c}
    Deps <- Fork
    Cascading = {c}
    Scripts = {b}
    LastUser = c
    Stops = {"root", "node"}
    MaxDetours = 1
CHECK_DEADLOCK FALSE
INVARIANTS
    TypeOK
    NodeFollowsItsInputs
    NodeIsPublishedOnce
    CompletedGraphIsComplete
PROPERTIES
    EndedIsFinal
    SandboxOutlivesItsNodes
    UnstoppedGraphEnds
