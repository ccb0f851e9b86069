SPECIFICATION Spec
CONSTANTS
  StackCapacity = 9
  MaxObjects = 2
  MaxFrames = 16
  Natives <- MCNatives
  NewObj = 2
  Data <- MCData
  Inputs <- MCInputs
  Programs <- MCPrograms
  Globals <- MCGlobals
  InputType = "Bool"
INVARIANTS
  VMTypeOK
  VerifiedNeverFaults
PROPERTY
  FramesImplemented
CHECK_DEADLOCK FALSE
