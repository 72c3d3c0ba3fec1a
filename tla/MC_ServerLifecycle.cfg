SPECIFICATION Spec
CONSTANTS
    N = 2
    MaxStarts = 2
    MaxConns = 1
INVARIANTS
    OneHostKey
    ReturnsOnlyWhenClosed
PROPERTIES
    AllSitesOrNone
    SignalEndsProcess
\* After its last start the process stays down.
CHECK_DEADLOCK FALSE
