SPECIFICATION Spec
CONSTANTS
    IntBits = 4
    MaxJump = 32767
    MaxConstant = 255
    IndexWidth = 256
    Literals <- MCLiterals
    Variables <- MCVariables
    FirstHeap <- MCFirstHeap
    StructFields <- MCStructFields
    BinaryOps <- MCBinaryOps
    Fields <- MCFields
    CastTypes <- MCCastTypes
    MaxLeaves = 3
    MaxInner = 2
INVARIANTS
    ExprTypeOK
    CodedExactly
    TypesHold
    Means
CHECK_DEADLOCK FALSE
