SPECIFICATION Spec
CONSTANTS
    here = here
    there = there
    dead = dead
    Sites = {here, there, dead}
    Dead = {dead}
    NameOf <- MCNameOf
    Tools = {"tool"}
    Arguments <- MCArguments
    Shown <- MCShown
    Assigns <- MCAssigns
    MaxSent = 4
INVARIANTS
    OneReplyEach
    ToldOfChange
    CallsRunWhereMeant
    ArgumentsArrive
PROPERTY EveryRequestIsReplied
\* The bridge ends with its client, and a site may never answer.
CHECK_DEADLOCK FALSE
