SPECIFICATION MCSpec
CONSTANTS
  Single <- MCSingle
  Double <- MCDouble
  Half <- MCHalf
  I16 = 3
  I32 = 6
  I64 = 8
  IntGuard = 3
  EstBits = 3
  Operands <- MCOperands
  Partners <- MCPartners
  Insns <- MCInsns
  Controls <- MCControls
  MaxDepth = 2
INVARIANT ControlAndStatus
PROPERTIES
  ResultsAreRounded
  FloatTargetsAgree
