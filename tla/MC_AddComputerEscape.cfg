\* Does every error of a run stay inside its run routine, as spec 7 says?
CONSTANTS
    nn = nn
    NoName = nn
    MaxLen = 1

SPECIFICATION MainSpec

INVARIANT NoErrorEscapesRun

\* The process ends once main has run.
CHECK_DEADLOCK FALSE
