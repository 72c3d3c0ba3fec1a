SPECIFICATION Spec
CONSTANTS
    Files <- MCFiles
    Numbers = {"443", "22443", "5"}
    Truths = {"true", "yes", "on", "1"}
    MaxEntries = 20
INVARIANTS
    ParsedAsWritten
    DamageIsNoticed
PROPERTY EveryParseEnds
\* A parse ends.
CHECK_DEADLOCK FALSE
