CONSTANTS
    TechnicalLimit = 2
    Rulesets <- AllModes
    DecisionEvery = 2
SPECIFICATION Spec
INVARIANTS TypeOK FlagsAgree MarkIsUnique EliminationFair
PROPERTIES OneCapturePerTick BattleEnds
CHECK_DEADLOCK FALSE
