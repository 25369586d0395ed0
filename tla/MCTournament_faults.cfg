CONSTANTS
    p1 = p1
    p2 = p2
    p3 = p3
    p4 = p4
    p5 = p5
    NoOne = NoOne
    Loop = {l1, l2}
    Entered <- Concurrent
    Outcomes <- WinOrLose
    Faults = {"crash", "db", "battle"}
    MaxFaults = 1
SPECIFICATION Spec
INVARIANTS TypeOK FinishedIsComplete
PROPERTIES KeepsCalendar
CHECK_DEADLOCK FALSE
