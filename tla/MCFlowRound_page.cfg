SPECIFICATION Spec
CONSTANTS
    m1 = m1
    m2 = m2
    m3 = m3
    Media = {m1, m2, m3}
    Earlier = {m1}
    Presets <- MCPresets
    MaxRounds = 2
    Window = 1
    NoProgress = 2
    Timeout = 4
    RetryGap = 0
    RetryBudget = 1
    Sweeps = 1
    MaxNotices = 2
    TakeOvers = {"no_access", "captcha", "gone"}
    Hardships <- MCHardships
INVARIANTS
    TypeOK
    OffersOnlyVideos
    ShortRoundWaited
    BanHasCause
    RefusalIsReported
PROPERTIES
    NothingTwice
    ImplementsFlowPort
SYMMETRY MCSymmetry
CHECK_DEADLOCK FALSE
