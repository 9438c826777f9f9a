\* main and run() on every command line with names of up to one character.
CONSTANTS
    nn = nn
    NoName = nn
    MaxLen = 1

SPECIFICATION MainSpec

INVARIANT MainTypeOK
INVARIANT ConfigCheckedBeforeRun

\* The process ends once main has run.
CHECK_DEADLOCK FALSE
