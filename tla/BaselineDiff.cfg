CONSTANTS
    MaxFindings = 2
    Ids = {1, 2, 3, 4}
    Prints = {1, 2}
    Places = {p, q}
    Inputs <- MCInputs
SPECIFICATION Spec
INVARIANTS
    EachToldOnce
    NoIdUntold
    NoMissedMove
    QuietAgainstItself
    MovesAreMaximal
