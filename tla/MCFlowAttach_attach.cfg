SPECIFICATION Spec
CONSTANTS
    t1 = t1
    t2 = t2
    t3 = t3
    t4 = t4
    Tasks = {t1, t2, t3, t4}
    AssetsOf <- MCAssetsOf
    Asked <- MCAsked
    Tabs = {"subtab", "model"}
    Strategies = 2
    MaxRounds = 2
    MaxMisses = 4
INVARIANTS
    TypeOK
    ChipsAreWanted
    MissingWasEscaped
CHECK_DEADLOCK FALSE
