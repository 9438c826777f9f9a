\* Two changes by other clients during an add: the success report against
\* the account the run configured.
CONSTANTS
    b = b
    d1 = d1
    d2 = d2
    o = o
    nd = nd
    n1 = n1
    g1 = g1
    g2 = g2
    g3 = g3
    nn = nn
    DomainIds <- MCDomainIds
    BuiltinId = b
    OtherId = o
    NoDomain = nd
    GivenNames <- MCGivenNames
    GenNames <- MCGenNames3
    NoName = nn
    MaxEnv = 2

SPECIFICATION Spec

PROPERTY OutcomeSound

CHECK_DEADLOCK FALSE
