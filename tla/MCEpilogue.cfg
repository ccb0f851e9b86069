SPECIFICATION Spec
CONSTANTS
  Natives <- MCNatives
  NewObj = 2
  Names = {"x"}
  FuncNames <- MCFuncNames
  ParamNames <- MCParamNames
  StructName = "S"
  Forms = {"if", "func", "call", "return"}
  RetTypes = {"None"}
  MaxParams = 0
  MaxStmts = 4
  MaxVisits = 2
  Tags <- MCTags
  MaxJump = 32767
  MaxConstant = 255
  IndexWidth = 256
  StackCapacity = 10
  Data = {0}
  Inputs <- MCInputs
  InputType = "Bool"
  MaxObjects = 5
  MaxFrames = 16
INVARIANT
  EpilogueOnlyNoise
CHECK_DEADLOCK FALSE
