CONSTANTS
    x1 = x1
    x2 = x2
    g1 = g1
    g2 = g2
    Battle = {x1, x2}
    Match = {g1, g2}
    Draws <- SeriesOrSingle
    Bot = {1, 2}
    Sides <- HomeAndAway
    Loop = {l1, l2}
    Staff = {m1}
    Nobody = Nobody
    Outcomes = {"home", "draw", "technical"}
    Exchange <- WholePoints
    FaultKinds = {"crash", "statement", "late"}
    MaxFaults = 1
SPECIFICATION Spec
SYMMETRY Loops
INVARIANTS TypeOK LedgerAgrees TableIsCurrent NoCircle
PROPERTIES RatedOnTheSpot
CHECK_DEADLOCK FALSE
