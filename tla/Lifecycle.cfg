CONSTANTS
    MaxArtifacts = 4
    MaxClasses = 3
    MaxDistance = 1
    Evidence <- MCEvidence
    Attributes <- MCAttributes
    Inputs <- MCInputs
SPECIFICATION RulesSpec
INVARIANTS
    NothingLost
    NothingTwice
    StampCurrent
    RefreshStaysLocal
    NoStrayRevoke
    RevokedNotReported
    ClearingIsNotRevoking
    LogoutNearToken
    ViewKeepsItsFindings
