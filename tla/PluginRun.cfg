SPECIFICATION Spec
CONSTANTS
    ScriptFiles <- MCScriptFiles
    MaxMoment = 3
    Loaded <- MCLoaded
    Listings <- MCListings
    AptFiles <- MCAptFiles
    MemInfos <- MCMemInfos
    FlagLists <- MCFlagLists
    MaxRuns = 2
INVARIANTS
    CountsOfDocument
    EachScriptJudged
    LogsAreMailed
    SilentWhenFine
    OneMoment
