SPECIFICATION Spec
CONSTANTS
  Natives <- MCNatives
  NewObj = 2
  Names = {"x"}
  FuncNames <- MCFuncNames
  ParamNames <- MCParamNames
  StructName = "S"
  Forms = {"var", "struct", "call", "assign", "yield", "block", "if", "else"}
  RetTypes = {}
  MaxParams = 0
  MaxStmts = 5
  MaxVisits = 2
  Tags <- MCTags
  MaxJump = 12
  MaxConstant = 255
  IndexWidth = 5
  StackCapacity = 16
  Data = {0}
  Inputs <- MCInputs
  InputType = "Bool"
  MaxObjects = 5
  MaxFrames = 16
INVARIANTS
  TypeOK
  SlotsAgree
  HeightKept
  ReadsOwn
  JumpsLand
CHECK_DEADLOCK FALSE
