SPECIFICATION Spec
CONSTANTS
    Uuids <- MCUuids
    NoUuid = ""
    NoModel = ""
    Servers <- MCServers
    Settings <- MainSettings
    WindowSecs = 2
    Spellings <- MCSpellings
    normModel <- MCnormModel
    Wildcard = "*"
    Files <- MCFiles
    Flags <- MCFlags
    Exposed <- MCExposed
    Wirings <- MCWirings
    Datasheet <- MCDatasheet
INVARIANT
    EccIncreaseReported
CHECK_DEADLOCK FALSE
