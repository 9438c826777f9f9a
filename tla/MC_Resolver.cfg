\* __init__ on every command line with names of up to two characters.
CONSTANTS
    nn = nn
    NoName = nn
    MaxLen = 2

SPECIFICATION Spec

INVARIANT TypeOK
INVARIANT DescriptorComplete
INVARIANT ResolutionIdempotent

\* main exits after one resolution.
CHECK_DEADLOCK FALSE
