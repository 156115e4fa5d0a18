SPECIFICATION Spec
CONSTANTS
  B = 4
  LogD = 2
  P = 3
  Values <- MCValues
PROPERTIES
  VectorLaws
  TargetsAgree
  CoreArithmetic
  CodeComputesIr
