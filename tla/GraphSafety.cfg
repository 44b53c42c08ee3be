SPECIFICATION Spec
CONSTANTS
    a = a
    b = b
    e = e
    Nodes <- MCNodes
    Edges <- MCEdges
    Source <- MCSource
    Target <- MCTarget
    MaxNodes = 1
    MaxEdges = 1
    MaxTotal = 2
    Configs <- MCConfigs
    Initial <- MCNodes
    v1 = v1
    v2 = v2
    Viewers <- MCViewers
    p1 = p1
    p2 = p2
    Polls <- MCPolls
    MaxWrites = 3
    None = None
INVARIANTS
    TypeOK
    PatchesAddUp
    NothingMissed
SYMMETRY Alike

