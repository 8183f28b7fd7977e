SPECIFICATION Spec
CONSTANTS
    HostNames <- MCHostNames
    SecureNames <- MCSecureNames
    SessionNames <- MCSessionNames
    Number <- MCNumber
    Days <- MCDays
    FarFuture <- MCFarFuture
    IntBits = 30
    Seconds <- MCSeconds
    LinkDistance = 2
    FlowDistance = 2
    Repositories <- MCRepositories
INVARIANTS
    Grounded
    NamedFindingsUnique
    LocalRules
    WorstCallCounts
    OneStorageReport
    ConflictsInOneHandler
PROPERTIES
    NeverTalkedAway
    FixationStays
    SettledFlows
CHECK_DEADLOCK FALSE
