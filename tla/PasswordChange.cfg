CONSTANTS
    MaxArtifacts = 4
    MaxClasses = 0
    MaxDistance = 1
    Evidence <- MCEvidence
    Attributes <- MCAttributes
    Inputs <- MCInputs
SPECIFICATION RulesSpec
INVARIANTS
    PasswordChangeReported
