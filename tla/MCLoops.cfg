SPECIFICATION Spec
CONSTANTS
  Natives <- MCNatives
  NewObj = 2
  Names = {"x"}
  FuncNames <- MCFuncNames
  ParamNames <- MCParamNames
  StructName = "S"
  Forms = {"var", "var_any", "yield", "block", "while", "if", "break", "continue"}
  RetTypes = {}
  MaxParams = 0
  MaxStmts = 5
  MaxVisits = 3
  Tags <- MCTags
  MaxJump = 32767
  MaxConstant = 255
  IndexWidth = 256
  StackCapacity = 10
  Data = {0}
  Inputs <- MCInputs
  InputType = "Bool"
  MaxObjects = 5
  MaxFrames = 16
INVARIANTS
  LoopsAgree
  ExitsLand
  HeightKept
CHECK_DEADLOCK FALSE
