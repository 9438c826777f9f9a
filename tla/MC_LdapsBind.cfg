\* A run whose credentials are refused: is the failure reported as a
\* session error?
CONSTANTS
    n1 = n1
    w1 = w1
    g1 = g1
    g2 = g2
    nn = nn
    GivenNames <- MCGivenNames
    GenNames <- MCGenNames
    Match <- MCPlainMatch
    NoName = nn
    MaxEnv = 0

SPECIFICATION Spec

INVARIANT BindFailureReported



\* The process exits once run_ldaps returns.
CHECK_DEADLOCK FALSE
