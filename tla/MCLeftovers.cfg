SPECIFICATION Spec
CONSTANTS
  print = print
  FuncNames = {f, g}
  StructNames = {}
  VarNames = {}
  Signatures <- MCNone
  Arguments <- MCNone
  Natives <- MCNatives
  MaxStmts = 5
  MaxContexts = 3
  MaxVisits = 0
INVARIANT
  LeftoversUncalled
CHECK_DEADLOCK FALSE
