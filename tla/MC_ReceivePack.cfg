SPECIFICATION Spec
CONSTANTS
    Listing <- MCListing
    Dirs <- MCDirs
    Root <- site
    NameStarts <- MCNameStarts
    SizeOf <- MCSizeOf
    Torn <- MCTorn
    Origins <- MCOrigins
    Drafts = {"empty"}
    Edited <- MCEdited
    MaxEdits = 2
INVARIANTS
    AnswerIsWhole
    PackIsTheSite
    BackendOnlyForAReason
\* A request ends.
CHECK_DEADLOCK FALSE
