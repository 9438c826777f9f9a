\* Handle hygiene: the finally block should close every handle the run
\* opened before it disconnects.
CONSTANTS
    b = b
    d1 = d1
    d2 = d2
    o = o
    nd = nd
    n1 = n1
    g1 = g1
    g2 = g2
    g3 = g3
    nn = nn
    DomainIds <- MCDomainIds
    BuiltinId = b
    OtherId = o
    NoDomain = nd
    GivenNames <- MCGivenNames
    GenNames <- MCGenNames
    NoName = nn
    MaxEnv = 0

SPECIFICATION Spec

INVARIANT HandlesClosedBeforeDisconnect

CHECK_DEADLOCK FALSE
