SPECIFICATION Spec
CONSTANTS
    short = short
    other = other
    long = long
    Calls = {short, other, long}
    Size <- MCSize
    Capacity = 1
    ServerIds = {1, 2, 3}
    MaxChatter = 2
INVARIANT TypeOK
PROPERTIES
    KeepsPromise
    EveryRequestEnds
    GivingUpEnds
\* All calls may be over, and the server gone.
CHECK_DEADLOCK FALSE
