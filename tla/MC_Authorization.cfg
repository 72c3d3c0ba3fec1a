SPECIFICATION Asking
CONSTANTS
    Asked <- MCCommands
    AuthBlocks <- MCAuthBlocks
    Segments <- MCPatternSegments
    Patterns <- MCPatterns
    Paths <- MCPaths
    Words <- MCWords
    Prefixes <- MCPrefixes
    Holes = {"{id}"}
    CatchAlls = {"{rest*}"}
INVARIANTS
    HigherTiersMayDoMore
    AnnouncedTierIsLowest
    RoutesGenerateTheirPaths
