CONSTANTS
  Pcs <- MCPcs
  AllOnes = 16
  HashNb = 2
  AreaSize = 6
  TbHeader = 1
  JitSizes = {1, 2}
  ExitSets <- MCExitSets
SPECIFICATION FairSpec
CHECK_DEADLOCK FALSE
INVARIANTS BlocksDisjoint OneBlockPerPc PatchHitsExit LinksReachTheirPc LinksFormNoLoop RunningBlockFound
PROPERTIES ExecuteReturns CleanHonoured
