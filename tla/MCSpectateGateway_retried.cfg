CONSTANTS
    early = early
    late = late
    Delays = {0, 2}
    DetachBase = 2
    MaxClients = 1
    Ticket = {early, late}
    Expiry <- Expiries
    PurgeAfter = 1
    Spectator = {s1, s2}
    MaxRuns = 2
    MaxSnapshots = 1
    MaxEvents = 1
    MaxTime = 5
SPECIFICATION Spec
SYMMETRY Viewers
INVARIANTS RunningIsLive
CHECK_DEADLOCK FALSE
