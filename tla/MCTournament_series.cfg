CONSTANTS
    p1 = p1
    p2 = p2
    p3 = p3
    p4 = p4
    p5 = p5
    NoOne = NoOne
    Loop = {l1}
    Entered <- Final
    Outcomes <- WinOrLose
    Faults = {"crash", "db"}
    MaxFaults = 1
SPECIFICATION Spec
INVARIANTS SeriesWhole
CHECK_DEADLOCK FALSE
