SPECIFICATION Spec
CONSTANTS
    r = r
    m = m
    b = b
    h = h
    l = l
    NoPath = NoPath
    OverBaseline = FALSE
    Ids = {h, l}
    Paths = {r, m, b}
    Categories = {"misconfiguration", "gap"}
    SeverityOf <- MCSeverityOf
    CategoryOf <- MCCategoryOf
    Commands <- MCCommands
    Configs <- MCConfigs
INVARIANTS VerdictFollowsPolicy ReportsBeforeVerdict OnlyWholeInputs
