\* -delete or -no-add with a name holding a '*': LDAPComputerExists and
\* LDAPGetComputer put it into the filter unescaped, and the single entry
\* it selects is another account.  Does the run still write only the
\* account it was given?
CONSTANTS
    n1 = n1
    w1 = w1
    g1 = g1
    g2 = g2
    nn = nn
    GivenNames <- MCWildGivenNames
    GenNames <- MCGenNames
    Match <- MCWildMatch
    NoName = nn
    MaxEnv = 0

SPECIFICATION Spec

INVARIANT WritesTargetOnly

\* The process exits once run_ldaps returns.
CHECK_DEADLOCK FALSE
