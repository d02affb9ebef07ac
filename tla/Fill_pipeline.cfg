SPECIFICATION Spec
CONSTANTS
    Uuids <- MCUuids
    NoUuid = ""
    NoModel = ""
    Servers <- MCServers
    Settings <- MCSettings
    WindowSecs = 2
    Spellings <- MCSpellings
    normModel <- MCnormModel
    Wildcard = "*"
    Files <- MCFiles
    Flags <- MCFlags
    Exposed <- MCExposed
    Wirings <- MCWirings
    Datasheet <- MCDatasheet
INVARIANTS
    FilledByPrecedence
    DerivedHonestly
    PartialAnswerKept
    FillsAreListed
    EccIncreaseReported
CHECK_DEADLOCK FALSE
