\* Is every name given without a trailing $ resolved with one appended?
CONSTANTS
    nn = nn
    NoName = nn
    MaxLen = 2

SPECIFICATION Spec

INVARIANT EveryNameMarked


\* main exits after one resolution.
CHECK_DEADLOCK FALSE
