SPECIFICATION ActionSpec
CONSTANTS
    h = h
    l = l
    b = b
    NoPath = NoPath
    JsonPath = json
    MarkdownPath = md
    SarifPath = sarif
    TmpPath = tmp
    SummaryPath = summary
    MaxUses = 2
    Ids = {h, l}
    Paths <- MCPaths
    Categories = {"misconfiguration", "gap"}
    SeverityOf <- MCSeverityOf
    CategoryOf <- MCCategoryOf
    Commands <- MCCommands
    Configs <- MCConfigs
    Uses <- MCUses
    Given <- MCGiven
INVARIANTS StatusFollowsInputs LeavesWhatItPublished
