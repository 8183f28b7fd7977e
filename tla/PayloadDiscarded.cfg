SPECIFICATION Spec
CONSTANTS
    Scans = {s1, s2}
INVARIANT PayloadDiscarded
