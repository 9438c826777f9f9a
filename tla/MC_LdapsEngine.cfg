\* The LDAPS run with every option, credential and server shape, one
\* change by another client, and any LDAP call raising.
CONSTANTS
    n1 = n1
    w1 = w1
    g1 = g1
    g2 = g2
    nn = nn
    GivenNames <- MCGivenNames
    GenNames <- MCGenNames
    Match <- MCPlainMatch
    NoName = nn
    MaxEnv = 1

SPECIFICATION FairSpec

INVARIANT TypeOK
INVARIANT WritesTargetOnly
INVARIANT BypassOnlyOnQuota

PROPERTY OutcomeSound
PROPERTY RunTerminates
PROPERTY LifecycleRefined

\* The process exits once run_ldaps returns.
CHECK_DEADLOCK FALSE
