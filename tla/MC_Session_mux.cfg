SPECIFICATION Spec
CONSTANTS
    Words <- MCWords
    Prefixes = {}
    Holes = {}
    CatchAlls = {}
    TicksPerSecond = 1
    c1 = c1
    c2 = c2
    s1 = s1
    s2 = s2
    Conns = {c1}
    Sessions = {s1, s2}
    ConnOf <- Together
    Perms <- JustIdentified
    Commands <- FewCommands
    Lines <- FewLines
    EnvValues = {}
    AuthCfg <- MCAuthCfg
    Declared <- MCDeclared
    PathOf <- MCPathOf
    Upper <- MCUpper
    HasRoot = TRUE
    HasBackend = TRUE
    HasMcp = TRUE
    HasProxy = FALSE
    Limits <- MCLimits
    QueueSize = 1
    MaxTime = 0
    MaxSent = 3
PROPERTIES
    EveryExecEnds
    StandstillOnlyOnceStarted
\* A client may stop sending, and an MCP server answering, at any point.
CHECK_DEADLOCK FALSE
