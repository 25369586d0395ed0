CONSTANTS
    p1 = p1
    p2 = p2
    p3 = p3
    p4 = p4
    p5 = p5
    NoOne = NoOne
    Loop = {l1}
    Entered <- Serial
    Outcomes <- WithDraws
    Faults = {}
    MaxFaults = 0
SPECIFICATION FairSpec
INVARIANTS EliminatedFairly ChampionLeads
PROPERTIES TournamentEnds
CHECK_DEADLOCK FALSE
