SPECIFICATION Spec
CONSTANTS
  Types = {8, 64}
  ParamSlots <- MCParamSlots
  RegPool = 4
  InsnPool = 4
  Backends <- MCBackends
  X86Pool = 7
  Size <- MCSize
INVARIANT FindsInsn
CHECK_DEADLOCK FALSE
