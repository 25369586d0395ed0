CONSTANTS
    p1 = p1
    p2 = p2
    p3 = p3
    p4 = p4
    p5 = p5
    NoOne = NoOne
    Loop = {l1, l2}
    Entered <- Bracket
    Outcomes <- WinOrLose
    Faults = {}
    MaxFaults = 0
SPECIFICATION Spec
INVARIANTS NothingLeftBehind
CHECK_DEADLOCK FALSE
