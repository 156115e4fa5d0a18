SPECIFICATION Spec
CONSTANTS
    LastPc = 2
    MaxInsn = 2
    Sigs = {s1, s2}
    NoSig = NoSig
    Actions <- MCActions
    FirstActs <- MCFirstActs
    HandlerPcs = {1}
    MainSp = 8
    AltStacks <- MCAltStacks
    Garbage = {2}
    MaxDepth = 3
    MaxSignals = 2
    CallSigs = {s1}
    CallDepth = 1
    HostSps = {7}
    Depths = {1, 2}
    SpWidth = 4
INVARIANTS
    PreciseWhenReliable
    NoSpuriousExit
    JumpUnwinds
    FrameIsMine
    MaskFollowsContexts
CHECK_DEADLOCK FALSE
PROPERTIES
    EntersInstalled
    ResumeAsTold
