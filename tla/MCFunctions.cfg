SPECIFICATION Spec
CONSTANTS
  Natives <- MCNatives
  NewObj = 2
  Names = {"x"}
  FuncNames <- MCFuncNames
  ParamNames <- MCParamNames
  StructName = "S"
  Forms = {"var", "assign", "yield", "if", "func", "call", "print_call", "return", "return_value"}
  RetTypes = {"None", "Int", "Any"}
  MaxParams = 1
  MaxStmts = 4
  MaxVisits = 2
  Tags <- MCTags
  MaxJump = 32767
  MaxConstant = 255
  IndexWidth = 256
  StackCapacity = 10
  Data = {0}
  Inputs <- MCInputs
  InputType = "Bool"
  MaxObjects = 5
  MaxFrames = 16
INVARIANTS
  ReadsOwn
  RunsOffOnlyUncovered
  CompiledVerifies
  SoundNeverFaults
  NoneForAny
PROPERTIES
  NativesKept
  FramesImplemented
  RunEnds
CHECK_DEADLOCK FALSE
