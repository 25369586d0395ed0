CONSTANTS
    anyone = anyone
    another = another
    Request = {anyone, another}
    Actions <- TwoRequests
    Worker = {w1, w2}
    None = None
    MaxAttempts = 2
    MaxBuilds = 2
    FaultKinds = {"crash", "statement", "late"}
    MaxFaults = 1
SPECIFICATION Spec
INVARIANTS TypeOK PlayableHasItsArtifact
PROPERTIES ValidatedFromValidating LeavesValidating
CHECK_DEADLOCK FALSE
