SPECIFICATION Spec
CONSTANTS
    Threads = {t1, t2}
    PageSize = 2
    MinPages = 1
    StartBrk = 2
    LastAddr = 10
    Stored = {3, 5}
    Breaks = {0, 3, 4, 5, 7}
INVARIANTS
    BreakIsMapped
    AloneClearsWhatIsNew
SYMMETRY MCSymmetry
