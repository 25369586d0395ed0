CONSTANTS
    p1 = p1
    p2 = p2
    p3 = p3
    p4 = p4
    p5 = p5
    p6 = p6
    p7 = p7
    p8 = p8
    NoOne = NoOne
    Drawn <- AllFormats
SPECIFICATION CalendarSpec
CONSTRAINT Played
INVARIANTS EverybodyMeets SeedsApart OwnersApart EverybodyOut SwissRoundFair
CHECK_DEADLOCK FALSE
