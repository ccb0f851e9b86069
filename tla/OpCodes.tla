------------------------------- MODULE OpCodes -------------------------------
(***************************************************************************)
(* The instruction set that the code generator and the virtual machine of  *)
(* Carabao share: the byte of every instruction, the operand bytes that    *)
(* follow it, and the types that the purely computing ones take and give.  *)
(* A compiled function is a sequence of bytes in which an operand byte may *)
(* have the value of an instruction.                                       *)
(***************************************************************************)
EXTENDS Integers, Sequences, SequencesExt

Byte == 0..255

\* The variants of the enum in their order; the first one is 0x80.  The two
\* TEST instructions exist in the build the repository's own tests run.
OpNames == <<
    "Pass", "None", "True", "False", "Pop", "Return", "Constant", "LoadByte",
    "GetLocal", "SetLocal", "GetGlobal", "SetGlobal", "Jump", "JumpIfNot",
    "CallUser", "CallNative", "FieldGet", "FieldSet",
    "IntToFloat", "IntToBool", "CharToInt", "BoolToInt", "BoolToFloat",
    "WrapAny", "AnyToInt", "AnyToFloat", "AnyToBool", "AnyToChar", "AnyToString",
    "TESTTakeInput", "TESTYield", "ValEqual",
    "FloatAdd", "FloatSub", "FloatMul", "FloatDiv", "FloatMod", "FloatNegate",
    "FloatLess", "FloatGreater",
    "IntAdd", "IntSub", "IntMul", "IntDiv", "IntMod", "IntAnd", "IntXor", "IntOr",
    "IntShl", "IntShr", "IntNegate", "IntNot", "IntLess", "IntGreater",
    "BoolNot", "Crash" >>

FirstOp == 128

OpByte == [op \in Range(OpNames) |->
             FirstOp - 1 + CHOOSE i \in DOMAIN OpNames : OpNames[i] = op]

IsOp(b) == b - FirstOp + 1 \in DOMAIN OpNames
Decode(b) == OpNames[b - FirstOp + 1]

ShortOps == {"Jump", "JumpIfNot"}
ByteOps == {"Constant", "LoadByte", "GetLocal", "SetLocal", "GetGlobal",
            "SetGlobal", "CallUser", "CallNative", "FieldGet", "FieldSet"}

\* The number of operand bytes the machine reads after the instruction.
Operands(op) == IF op \in ShortOps THEN 2 ELSE IF op \in ByteOps THEN 1 ELSE 0
Width(op) == 1 + Operands(op)

\* The types of Carabao's values, as far as the instructions tell them apart.
Types == {"None", "Int", "Float", "Bool", "Char", "String", "Range", "List",
          "Object", "Function", "NativeFunc", "Any"}

FloatBinary == {"FloatAdd", "FloatSub", "FloatMul", "FloatDiv", "FloatMod"}
IntBinary == {"IntAdd", "IntSub", "IntMul", "IntDiv", "IntMod", "IntAnd",
              "IntXor", "IntOr", "IntShl", "IntShr"}

\* What pop_val! demands of the popped operands, the topmost one last, and the
\* variant that is pushed.
Computing == [op \in
    FloatBinary \cup IntBinary \cup
    {"IntToFloat", "FloatNegate", "FloatLess", "FloatGreater",
     "IntNegate", "IntNot", "IntLess", "IntGreater", "BoolNot"} |->
    CASE op \in FloatBinary -> [takes |-> <<"Float", "Float">>, gives |-> "Float"]
      [] op \in IntBinary -> [takes |-> <<"Int", "Int">>, gives |-> "Int"]
      [] op \in {"FloatLess", "FloatGreater"} ->
           [takes |-> <<"Float", "Float">>, gives |-> "Bool"]
      [] op \in {"IntLess", "IntGreater"} ->
           [takes |-> <<"Int", "Int">>, gives |-> "Bool"]
      [] op = "IntToFloat" -> [takes |-> <<"Int">>, gives |-> "Float"]
      [] op = "FloatNegate" -> [takes |-> <<"Float">>, gives |-> "Float"]
      [] op \in {"IntNegate", "IntNot"} -> [takes |-> <<"Int">>, gives |-> "Int"]
      [] op = "BoolNot" -> [takes |-> <<"Bool">>, gives |-> "Bool"]]

\* Rust's integer arithmetic panics on overflow, on division by zero and on a
\* shift by 64 bits or more; which operands do so is left to the choice of the
\* machine's step.
Panicking == {"IntAdd", "IntSub", "IntMul", "IntDiv", "IntMod", "IntShl",
              "IntShr", "IntNegate"}

\* Casts that the machine has no code for (todo!()).
Unwritten == {"IntToBool", "CharToInt", "BoolToInt", "BoolToFloat"}

\* The variant that unwrap_any! accepts.
Unwraps == [op \in {"AnyToInt", "AnyToFloat", "AnyToBool", "AnyToChar", "AnyToString"} |->
    CASE op = "AnyToInt" -> "Int"
      [] op = "AnyToFloat" -> "Float"
      [] op = "AnyToBool" -> "Bool"
      [] op = "AnyToChar" -> "Char"
      [] op = "AnyToString" -> "String"]

\* Two's complement: the value of a byte cast to i8, of two bytes read as a
\* big-endian u16 and cast to i16, and back.
Signed8(b) == IF b < 128 THEN b ELSE b - 256
Signed16(hi, lo) == LET s == 256 * hi + lo IN IF s < 32768 THEN s ELSE s - 65536
Short(n) == <<(n % 65536) \div 256, n % 256>>
==============================================================================
