\* The SAMR run on a server with up to two account domains, one change by
\* another client, and transport loss at any point.
CONSTANTS
    b = b
    d1 = d1
    d2 = d2
    o = o
    nd = nd
    n1 = n1
    g1 = g1
    g2 = g2
    g3 = g3
    nn = nn
    DomainIds <- MCDomainIds
    BuiltinId = b
    OtherId = o
    NoDomain = nd
    GivenNames <- MCGivenNames
    GenNames <- MCGenNames
    NoName = nn
    MaxEnv = 1

SPECIFICATION FairSpec

INVARIANT TypeOK
INVARIANT WritesTargetOnly
INVARIANT NeverEnabledWithoutPassword

PROPERTY OutcomeSound
PROPERTY RunTerminates
PROPERTY LifecycleRefined

\* The process exits after the finally block.
CHECK_DEADLOCK FALSE
