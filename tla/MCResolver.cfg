SPECIFICATION Spec
CONSTANTS
  print = print
  FuncNames = {f, g, print}
  StructNames = {print}
  VarNames = {"x"}
  Signatures <- MCOverloads
  Arguments <- MCArguments
  Natives <- MCNatives
  MaxStmts = 5
  MaxContexts = 3
  MaxVisits = 1
SYMMETRY NameSymmetry
INVARIANTS
  ResolverTypeOK
  ResolvedOnce
  AllResolved
  FirstCallResolves
  GlobalsExist
  PanicsOnlyOnRepeated
CHECK_DEADLOCK FALSE
