---------------------------- MODULE MachineProofs -----------------------------
(***************************************************************************)
(* What a cycle of the machine keeps.  For every program: that values are  *)
(* values, and that a function, a native function or an object is one that *)
(* exists.  For a program that the verifier accepts: that every activation *)
(* holds the values that the table of its function says, at its            *)
(* instruction, so that no read of the machine fails and no activation     *)
(* touches another one's part of the stack.                                *)
(***************************************************************************)
EXTENDS VM, Verifier, SharedFacts

(***************************************************************************)
(* Instructions.                                                           *)
(***************************************************************************)
\* The instructions that convert an Any, and what they give.
LEMMA UnwrapsAre ==
  /\ DOMAIN Unwraps = {"AnyToInt", "AnyToFloat", "AnyToBool", "AnyToChar", "AnyToString"}
  /\ \A op \in DOMAIN Unwraps : Unwraps[op] \in {"Int", "Float", "Bool", "Char", "String"}
BY DEF Unwraps

\* The instructions that compute, what they take and what they give.
LEMMA ComputingIs ==
  /\ DOMAIN Computing = FloatBinary \cup IntBinary \cup
        {"IntToFloat", "FloatNegate", "FloatLess", "FloatGreater",
         "IntNegate", "IntNot", "IntLess", "IntGreater", "BoolNot"}
  /\ \A op \in DOMAIN Computing :
        /\ Computing[op].gives \in {"Int", "Float", "Bool"}
        /\ Computing[op].takes \in {<<"Float", "Float">>, <<"Int", "Int">>, <<"Int">>, <<"Float">>, <<"Bool">>}
<1>1. DOMAIN Computing = FloatBinary \cup IntBinary \cup
        {"IntToFloat", "FloatNegate", "FloatLess", "FloatGreater",
         "IntNegate", "IntNot", "IntLess", "IntGreater", "BoolNot"}
  BY DEF Computing
<1>2. ASSUME NEW op \in DOMAIN Computing
      PROVE  /\ Computing[op].gives \in {"Int", "Float", "Bool"}
             /\ Computing[op].takes \in {<<"Float", "Float">>, <<"Int", "Int">>, <<"Int">>, <<"Float">>, <<"Bool">>}
  BY <1>1, <1>2, Zenon DEF Computing
<1> QED
  BY <1>1, <1>2

\* One or two operands.
LEMMA TakesOneOrTwo ==
  ASSUME NEW op \in DOMAIN Computing
  PROVE  Len(Computing[op].takes) \in {1, 2} /\ DOMAIN Computing[op].takes = 1..Len(Computing[op].takes)
BY ComputingIs

(***************************************************************************)
(* The values of any program.                                              *)
(***************************************************************************)
\* A value that, if it is a function, a native function or an object, is one
\* that exists.
IsKnown(x) ==
    /\ x \in Value
    /\ x.t = "Function" => x.v \in DOMAIN program
    /\ x.t = "NativeFunc" => x.v \in DOMAIN Natives
    /\ x.t = "Object" => x.v \in DOMAIN heap
KnownValues == {x \in Value : IsKnown(x)}

FrameSet == [function : DOMAIN program, ip : Nat, stack_bottom : Nat]
Ends == LanguageEnds \cup Limits \cup Faults

MachineOK ==
    /\ status \in {"running"} \cup Ends
    /\ IsProgram(program)
    /\ stack \in Seq(KnownValues)
    /\ heap \in Seq(Seq(KnownValues))
    /\ call_stack # <<>> /\ call_stack \in Seq(FrameSet)

\* It contains the type invariant.
LEMMA MachineTypes ==
  ASSUME MachineOK
  PROVE  VMTypeOK
<1>1. KnownValues \subseteq Value
  BY DEF KnownValues
<1>2. stack \in Seq(Value)
  BY <1>1, SeqMonotonic DEF MachineOK
<1>3. Seq(KnownValues) \subseteq Seq(Value)
  BY <1>1, SeqMonotonic
<1>4. heap \in Seq(Seq(Value))
  BY <1>3, SeqMonotonic DEF MachineOK
<1> QED
  BY <1>2, <1>4 DEF MachineOK, VMTypeOK, Ends, FrameSet

\* The frame that runs, and its function.
LEMMA TopFacts ==
  ASSUME MachineOK
  PROVE  /\ Depth \in Nat \ {0} /\ Top = call_stack[Depth] /\ Top \in FrameSet
         /\ Top.function \in DOMAIN program /\ Top.ip \in Nat /\ Top.stack_bottom \in Nat
         /\ Fn = program[Top.function]
         /\ Fn.code \in Seq(Byte) /\ Fn.constants \in Seq(KnownValues)
         /\ Len(stack) \in Nat /\ Len(Fn.code) \in Nat
         /\ DOMAIN call_stack = 1..Depth
<1>1. Depth \in Nat \ {0} /\ DOMAIN call_stack = 1..Depth
  BY EmptySeq DEF Depth, MachineOK
<1>2. Top \in FrameSet
  BY <1>1, ElementOfSeq DEF MachineOK, Top, Depth
<1>3. Top.function \in DOMAIN program /\ Top.ip \in Nat /\ Top.stack_bottom \in Nat
  BY <1>2 DEF FrameSet
<1>4. Fn.code \in Seq(Byte) /\ Fn.constants \in Seq(Value)
  BY <1>3 DEF Fn, MachineOK, IsProgram
<1>5. ASSUME NEW i \in 1..Len(Fn.constants) PROVE Fn.constants[i] \in KnownValues
  <2>1. Fn.constants[i] \in Value /\ Fn.constants[i] \in Range(Fn.constants)
    BY <1>4, ElementOfSeq DEF Range
  <2>2. Fn.constants[i].t \in {"Function", "NativeFunc", "Object"} =>
           Fn.constants[i].t = "Function" /\ Fn.constants[i].v \in DOMAIN program
    BY <1>3, <2>1 DEF Fn, MachineOK, IsProgram
  <2> QED
    BY <2>1, <2>2 DEF KnownValues, IsKnown
<1>6. Fn.constants \in Seq(KnownValues)
  BY <1>4, <1>5, SeqDef
<1>7. Len(stack) \in Nat /\ Len(Fn.code) \in Nat
  BY <1>4 DEF MachineOK
<1> QED
  BY <1>1, <1>2, <1>3, <1>4, <1>6, <1>7 DEF Top, Fn

\* Bytes stand for integers.
LEMMA SignedInts ==
  ASSUME NEW hi \in Byte, NEW lo \in Byte
  PROVE  Signed8(lo) \in Int /\ Signed16(hi, lo) \in Int
BY DEF Signed8, Signed16, Byte

\* An instruction that can be read has its operands.
LEMMA ReadableOperands ==
  ASSUME MachineOK, Top.ip < Len(Fn.code), After <= Len(Fn.code)
  PROVE  /\ Width(Op) \in {1, 2, 3} /\ After = Top.ip + Width(Op) /\ After \in Nat
         /\ Op \in ByteOps \cup ShortOps => Arg \in Byte /\ Arg \in Nat
         /\ Op \in ShortOps => Offset \in Int
<1>1. /\ Top.ip \in Nat /\ Fn.code \in Seq(Byte) /\ Len(Fn.code) \in Nat /\ Len(stack) \in Nat
      /\ Top.ip < Len(Fn.code)
  BY TopFacts
<1>2. Width(Op) \in {1, 2, 3} /\ (Op \in ByteOps \cup ShortOps => Width(Op) \in {2, 3})
      /\ (Op \in ShortOps => Width(Op) = 3)
  BY DEF Width, Operands
<1>3. After = Top.ip + Width(Op) /\ After \in Nat
  BY <1>1, <1>2 DEF After
<1>4. ASSUME Op \in ByteOps \cup ShortOps PROVE Arg \in Byte
  <2>1. Top.ip + 2 \in 1..Len(Fn.code)
    BY <1>1, <1>2, <1>3, <1>4
  <2> QED
    BY <1>1, <2>1, ElementOfSeq DEF Arg
<1>5. ASSUME Op \in ShortOps PROVE Offset \in Int
  <2>1. Top.ip + 2 \in 1..Len(Fn.code) /\ Top.ip + 3 \in 1..Len(Fn.code)
    BY <1>1, <1>2, <1>3, <1>5
  <2>2. Fn.code[Top.ip + 2] \in Byte /\ Fn.code[Top.ip + 3] \in Byte
    BY <1>1, <2>1, ElementOfSeq
  <2> QED
    BY <2>2, SignedInts DEF Offset
<1>6. ASSUME Op \in ByteOps \cup ShortOps PROVE Arg \in Nat
  <2>1. PICK arg : arg = Arg
    OBVIOUS
  <2>2. arg \in Byte
    BY <1>4, <1>6, <2>1
  <2>3. arg \in Nat
    BY <2>2 DEF Byte
  <2> QED
    BY <2>1, <2>3
<1> QED
  BY <1>2, <1>3, <1>4, <1>5, <1>6

\* The number of operands is one.
LEMMA WantedNat ==
  ASSUME Op \in ByteOps \cup ShortOps => Arg \in Byte /\ Arg \in Nat
  PROVE  Wanted \in Nat
<1>1. Op \in {"CallUser", "CallNative"} => Arg + 1 \in Nat
  BY DEF ByteOps
<1>2. Op \in DOMAIN Computing => Len(Computing[Op].takes) \in Nat
  BY TakesOneOrTwo
<1> QED
  BY <1>1, <1>2 DEF Wanted

\* An instruction that can be executed is in the code with its operands.
Executable == MachineOK /\ status = "running" /\ Fetches /\ Problem = "none"

\* What it finds: its operands, enough on the stack, no problem with its values.
LEMMA OperandFacts ==
  ASSUME Executable
  PROVE  /\ Width(Op) \in {1, 2, 3} /\ After = Top.ip + Width(Op) /\ After \in Nat /\ After <= Len(Fn.code)
         /\ Op \in ByteOps \cup ShortOps => Arg \in Byte
         /\ Op \in ShortOps => Offset \in Int
         /\ Len(stack) >= Wanted /\ Refusal = "none" /\ Len(stack) < StackCapacity
<1>1. /\ Top.ip \in Nat /\ Len(Fn.code) \in Nat /\ Len(stack) \in Nat /\ Top.ip < Len(Fn.code)
  BY TopFacts DEF Executable, Fetches
<1>2. /\ ~(Len(stack) >= StackCapacity) /\ ~(After > Len(Fn.code)) /\ ~(Len(stack) < Wanted)
      /\ Refusal = "none"
  BY DEF Executable, Problem
<1>3. After <= Len(Fn.code)
  <2>1. Width(Op) \in Nat
    BY DEF Width, Operands
  <2> QED
    BY <1>1, <1>2, <2>1 DEF After
<1>4. /\ Width(Op) \in {1, 2, 3} /\ After = Top.ip + Width(Op) /\ After \in Nat
      /\ Op \in ByteOps \cup ShortOps => Arg \in Byte /\ Arg \in Nat
      /\ Op \in ShortOps => Offset \in Int
  BY <1>1, <1>3, ReadableOperands DEF Executable
<1>5. Wanted \in Nat
  BY <1>4, WantedNat
<1> QED
  BY <1>1, <1>2, <1>3, <1>4, <1>5, VMAssumption

\* The topmost values, and what is below them.
LEMMA StackFacts ==
  ASSUME MachineOK, NEW n \in 0..Len(stack)
  PROVE  /\ n < Len(stack) => Peek(n) \in KnownValues /\ Peek(n) \in Value
         /\ Drop(n) \in Seq(KnownValues) /\ Len(Drop(n)) = Len(stack) - n
         /\ \A i \in 1..(Len(stack) - n) : Drop(n)[i] = stack[i]
<1>1. stack \in Seq(KnownValues) /\ Len(stack) \in Nat
  BY DEF MachineOK
<1>2. ASSUME n < Len(stack) PROVE Peek(n) \in KnownValues /\ Peek(n) \in Value
  <2>1. Len(stack) - n \in 1..Len(stack)
    BY <1>1, <1>2
  <2> QED
    BY <1>1, <2>1, ElementOfSeq DEF Peek, KnownValues
<1>3. \A i \in 1..(Len(stack) - n) : stack[i] \in KnownValues
  BY <1>1, ElementOfSeq
<1>4. /\ Drop(n) \in Seq(KnownValues)
      /\ Len(Drop(n)) = IF 1 <= Len(stack) - n THEN Len(stack) - n - 1 + 1 ELSE 0
      /\ \A i \in 1..(Len(stack) - n - 1 + 1) : Drop(n)[i] = stack[1 + i - 1]
  BY <1>1, <1>3, SubSeqProperties DEF Drop
<1>5. Len(Drop(n)) = Len(stack) - n /\ \A i \in 1..(Len(stack) - n) : Drop(n)[i] = stack[i]
  BY <1>1, <1>4
<1> QED
  BY <1>2, <1>4, <1>5

\* The instruction pointer moves.
LEMMA Moved ==
  ASSUME MachineOK, NEW ip \in Nat, MoveTo(ip)
  PROVE  /\ call_stack' \in Seq(FrameSet) /\ call_stack' # <<>> /\ Len(call_stack') = Depth
         /\ call_stack' = [call_stack EXCEPT ![Depth] = [Top EXCEPT !.ip = ip]]
         /\ \A i \in 1..Depth : /\ call_stack'[i].function = call_stack[i].function
                                /\ call_stack'[i].stack_bottom = call_stack[i].stack_bottom
                                /\ call_stack'[i].ip = IF i = Depth THEN ip ELSE call_stack[i].ip
<1>1. call_stack \in Seq(FrameSet) /\ Depth \in 1..Len(call_stack) /\ Depth = Len(call_stack)
  BY TopFacts DEF Depth, MachineOK
<1>2. PICK f : f = [Top EXCEPT !.ip = ip]
  OBVIOUS
<1>3. f \in FrameSet /\ f.ip = ip /\ f.function = Top.function /\ f.stack_bottom = Top.stack_bottom
  BY <1>2, TopFacts DEF FrameSet
<1>4. call_stack' = [call_stack EXCEPT ![Depth] = f]
  BY <1>2 DEF MoveTo, Top
<1>5. call_stack' \in Seq(FrameSet) /\ Len(call_stack') = Depth
      /\ \A j \in 1..Len(call_stack) : call_stack'[j] = IF j = Depth THEN f ELSE call_stack[j]
  BY <1>1, <1>3, <1>4, ExceptSeq
<1>6. call_stack' # <<>>
  BY <1>1, <1>5, EmptySeq
<1> QED
  BY <1>1, <1>2, <1>3, <1>4, <1>5, <1>6 DEF Top

\* As long as program and objects stay, so do the values that exist.
LEMMA SameKnown ==
  ASSUME UNCHANGED <<program, heap>>
  PROVE  KnownValues' = KnownValues
BY DEF KnownValues, IsKnown

\* Topmost values are replaced.
LEMMA ReplaceKeeps ==
  ASSUME Executable, NEW n \in 0..Len(stack), NEW values \in Seq(KnownValues), Replace(n, values)
  PROVE  MachineOK'
<1>1. After \in Nat /\ MoveTo(After) /\ Same /\ MachineOK
  BY OperandFacts DEF Replace, Executable
<1>2. stack' \in Seq(KnownValues)
  <2>1. Drop(n) \in Seq(KnownValues)
    BY <1>1, StackFacts
  <2>2. stack' = Drop(n) \o values
    BY DEF Replace
  <2> QED
    BY <2>1, <2>2, ConcatProperties
<1>3. KnownValues' = KnownValues /\ FrameSet' = FrameSet
  BY <1>1, SameKnown DEF Same, FrameSet
<1>4. call_stack' \in Seq(FrameSet) /\ call_stack' # <<>>
  BY <1>1, Moved
<1> QED
  BY <1>1, <1>2, <1>3, <1>4 DEF MachineOK, Same

\* What is computed is a value of its type.
LEMMA ResultsKnown ==
  ASSUME NEW type \in Types \ {"Function", "NativeFunc", "Object"}, NEW x \in Results(type)
  PROVE  IsKnown(x) /\ x \in KnownValues /\ x.t = type
<1>1. x \in Value /\ x.t = type
  BY VMAssumption DEF Results, NoneVal, BoolVal, Val, Value, Types
<1> QED
  BY <1>1 DEF IsKnown, KnownValues

\* What an instruction that is not refused has made sure of.
LEMMA NotRefused ==
  ASSUME Refusal = "none"
  PROVE  /\ Op = "JumpIfNot" => Peek(0).t = "Bool" /\ ~(Peek(0).v = 0 /\ After + Offset < 0)
         /\ Op = "Jump" => ~(After + Offset < 0)
         /\ Op = "CallUser" => Callee.t = "Function"
         /\ Op = "CallNative" => Callee.t = "NativeFunc"
         /\ Op \in {"GetLocal", "SetLocal"} => ~(LocalSlot >= Len(stack))
         /\ Op \in {"GetGlobal", "SetGlobal"} => ~(Arg >= Len(stack))
         /\ Op \in {"FieldGet", "FieldSet"} => Peek(0).t = "Object" /\ ~(Arg >= Len(Fields(Peek(0))))
         /\ Op = "Constant" => ~(Arg >= Len(Fn.constants))
         /\ Op \in DOMAIN Unwraps => Peek(0).t = "Any"
BY UnwrapsAre, ComputingIs DEF Refusal, Unwritten, FloatBinary, IntBinary

\* What an instruction finds on the stack.
LEMMA WantedIs ==
  /\ Op \in {"JumpIfNot", "SetLocal", "SetGlobal", "FieldGet", "TESTYield", "WrapAny"} => Wanted = 1
  /\ Op \in {"FieldSet", "ValEqual"} => Wanted = 2
  /\ Op \in {"CallUser", "CallNative"} => Wanted = Arg + 1
  /\ Op \in DOMAIN Unwraps => Wanted = 1
  /\ Op \in DOMAIN Computing => Wanted = Len(Computing[Op].takes)
  /\ Op = "Return" /\ Depth # 1 => Wanted = 1
BY UnwrapsAre, ComputingIs DEF Wanted, FloatBinary, IntBinary

\* The guard of every action of an instruction says so.
LEMMA IsExecutable ==
  ASSUME MachineOK, NEW ops, Executing(ops)
  PROVE  Executable /\ Op \in ops /\ status = "running"
BY DEF Executing, Executable

\* A sequence of one value.
LEMMA OneValue ==
  ASSUME NEW x, x \in KnownValues
  PROVE  <<x>> \in Seq(KnownValues) /\ <<>> \in Seq(KnownValues)
OBVIOUS

\* Literals are values, and constants are.
LEMMA PushKeeps == ASSUME MachineOK, Pass \/ PushLiteral \/ TESTTakeInput PROVE MachineOK'
<1>1. Len(stack) \in Nat /\ 0 \in 0..Len(stack)
  BY TopFacts
<1>2. CASE Pass
  <2>1. Executable /\ Replace(0, <<>>) /\ <<>> \in Seq(KnownValues)
    BY <1>2, IsExecutable DEF Pass
  <2> QED
    BY <1>1, <2>1, ReplaceKeeps
<1>3. CASE PushLiteral
  <2>1. PICK x : /\ x = CASE Op = "None" -> NoneVal
                       [] Op = "True" -> BoolVal(TRUE)
                       [] Op = "False" -> BoolVal(FALSE)
                       [] Op = "LoadByte" -> Val("Int", Signed8(Arg))
                       [] Op = "Constant" -> Fn.constants[Arg + 1]
                 /\ Replace(0, <<x>>)
    BY <1>3 DEF PushLiteral
  <2>2. Executable /\ Op \in {"None", "True", "False", "LoadByte", "Constant"}
    BY <1>3, IsExecutable DEF PushLiteral
  <2>3. x \in KnownValues
    <3>1. CASE Op \in {"None", "True", "False"}
      <4>1. x \in {NoneVal, BoolVal(TRUE), BoolVal(FALSE)}
        BY <2>1, <3>1, Zenon
      <4> QED
        BY <4>1 DEF NoneVal, BoolVal, Val, Value, Types, KnownValues, IsKnown
    <3>2. CASE Op = "LoadByte"
      <4>1. x = Val("Int", Signed8(Arg))
        BY <2>1, <3>2, Zenon
      <4>2. Signed8(Arg) \in Int
        BY <2>2, <3>2, OperandFacts, SignedInts DEF ByteOps
      <4> QED
        BY <4>1, <4>2 DEF Val, Value, Types, KnownValues, IsKnown
    <3>3. CASE Op = "Constant"
      <4>1. x = Fn.constants[Arg + 1]
        BY <2>1, <3>3, Zenon
      <4>2. Arg \in Nat /\ Arg < Len(Fn.constants)
        <5>1. Arg \in Byte /\ ~(Arg >= Len(Fn.constants))
          BY <2>2, <3>3, OperandFacts, NotRefused DEF ByteOps
        <5>2. Len(Fn.constants) \in Nat
          BY TopFacts
        <5> QED
          BY <5>1, <5>2 DEF Byte
      <4>3. Arg + 1 \in 1..Len(Fn.constants) /\ Fn.constants \in Seq(KnownValues)
        BY <4>2, TopFacts
      <4> QED
        BY <4>1, <4>3, ElementOfSeq
    <3> QED
      BY <2>2, <3>1, <3>2, <3>3
  <2> QED
    BY <1>1, <2>1, <2>2, <2>3, OneValue, ReplaceKeeps
<1>4. CASE TESTTakeInput
  <2>1. PICK x \in Inputs : Replace(0, <<x>>)
    BY <1>4 DEF TESTTakeInput
  <2>2. Executable
    BY <1>4, IsExecutable DEF TESTTakeInput
  <2>3. x \in KnownValues
    BY VMAssumption DEF KnownValues, IsKnown
  <2> QED
    BY <1>1, <2>1, <2>2, <2>3, OneValue, ReplaceKeeps
<1> QED
  BY <1>2, <1>3, <1>4

\* The operand of an instruction that has one.
LEMMA ArgFacts ==
  ASSUME Executable, Op \in {"Constant", "LoadByte", "GetLocal", "SetLocal", "GetGlobal",
                             "SetGlobal", "CallUser", "CallNative", "FieldGet", "FieldSet"}
  PROVE  Arg \in Byte /\ Arg \in Nat
<1>1. Arg \in Byte
  BY OperandFacts DEF ByteOps
<1> QED
  BY <1>1 DEF Byte

\* The slot that an instruction names.
LEMMA SlotFacts ==
  ASSUME Executable
  PROVE  /\ Op \in {"GetLocal", "SetLocal"} => LocalSlot + 1 \in 1..Len(stack)
         /\ Op \in {"GetGlobal", "SetGlobal"} => Arg + 1 \in 1..Len(stack)
<1>1. Op \in {"GetLocal", "SetLocal", "GetGlobal", "SetGlobal"} => Arg \in Nat
  BY ArgFacts
<1>2. Top.stack_bottom \in Nat /\ Len(stack) \in Nat
  BY TopFacts DEF Executable
<1>3. ASSUME Op \in {"GetLocal", "SetLocal"} PROVE LocalSlot + 1 \in 1..Len(stack)
  <2>1. LocalSlot \in Nat
    BY <1>1, <1>2, <1>3 DEF LocalSlot
  <2>2. ~(LocalSlot >= Len(stack))
    BY <1>3, OperandFacts, NotRefused
  <2> QED
    BY <1>2, <2>1, <2>2
<1>4. ASSUME Op \in {"GetGlobal", "SetGlobal"} PROVE Arg + 1 \in 1..Len(stack)
  <2>1. ~(Arg >= Len(stack))
    BY <1>4, OperandFacts, NotRefused
  <2> QED
    BY <1>1, <1>2, <1>4, <2>1
<1> QED
  BY <1>3, <1>4

\* A slot is read.
LEMMA GetKeeps == ASSUME MachineOK, GetLocal \/ GetGlobal PROVE MachineOK'
<1>1. PICK slot \in 1..Len(stack) : Executable /\ Replace(0, <<stack[slot]>>)
  <2>1. CASE GetLocal
    BY <2>1, IsExecutable, SlotFacts DEF GetLocal
  <2>2. CASE GetGlobal
    BY <2>2, IsExecutable, SlotFacts DEF GetGlobal
  <2> QED
    BY <2>1, <2>2
<1>2. stack[slot] \in KnownValues /\ 0 \in 0..Len(stack)
  BY ElementOfSeq, TopFacts DEF MachineOK
<1>3. <<stack[slot]>> \in Seq(KnownValues)
  BY <1>2, OneValue
<1> QED
  BY <1>1, <1>2, <1>3, ReplaceKeeps

\* A slot is written.
LEMMA StoreKeeps ==
  ASSUME Executable, Len(stack) > 0, NEW slot, slot + 1 \in 1..Len(stack), StoreAt(slot)
  PROVE  MachineOK'
<1>1. After \in Nat /\ MoveTo(After) /\ Same /\ MachineOK /\ Len(stack) \in Nat
  BY OperandFacts, TopFacts DEF StoreAt, Executable
<1>2. Peek(0) \in KnownValues
  BY <1>1, StackFacts
<1>3. stack' \in Seq(KnownValues)
  BY <1>1, <1>2, ExceptSeq DEF StoreAt, MachineOK
<1>4. KnownValues' = KnownValues /\ FrameSet' = FrameSet
  BY <1>1, SameKnown DEF Same, FrameSet
<1>5. call_stack' \in Seq(FrameSet) /\ call_stack' # <<>>
  BY <1>1, Moved
<1> QED
  BY <1>1, <1>3, <1>4, <1>5 DEF MachineOK, Same

\* Storing the topmost value keeps the types.
LEMMA SetKeeps == ASSUME MachineOK, SetLocal \/ SetGlobal PROVE MachineOK'
<1>1. Executable /\ Op \in {"SetLocal", "SetGlobal"}
  BY IsExecutable DEF SetLocal, SetGlobal
<1>2. Len(stack) > 0
  BY <1>1, OperandFacts, WantedIs, TopFacts
<1>3. CASE SetLocal
  BY <1>1, <1>2, <1>3, IsExecutable, SlotFacts, StoreKeeps DEF SetLocal
<1>4. CASE SetGlobal
  BY <1>1, <1>2, <1>4, IsExecutable, SlotFacts, StoreKeeps DEF SetGlobal
<1> QED
  BY <1>3, <1>4

\* Pop keeps them, also on an empty stack (runtime.rs 316-318).
LEMMA PopKeeps == ASSUME MachineOK, Pop PROVE MachineOK'
<1>1. PICK n \in {0, 1} : n = (IF stack = <<>> THEN 0 ELSE 1) /\ Replace(n, <<>>)
  BY DEF Pop
<1>2. n \in 0..Len(stack)
  BY <1>1, EmptySeq, TopFacts DEF MachineOK
<1>3. Executable /\ <<>> \in Seq(KnownValues)
  BY IsExecutable DEF Pop
<1> QED
  BY <1>1, <1>2, <1>3, ReplaceKeeps

\* A jump does not go before the code.
LEMMA JumpKeeps == ASSUME MachineOK, Jump \/ JumpIfNot PROVE MachineOK'
<1>1. Executable /\ Op \in {"Jump", "JumpIfNot"} /\ Same
  BY IsExecutable DEF Jump, JumpIfNot
<1>2. After \in Nat /\ Offset \in Int
  BY <1>1, OperandFacts DEF ShortOps
<1>3. PICK ip \in Nat : MoveTo(ip)
  <2>1. CASE Jump
    <3>1. After + Offset \in Nat
      BY <1>1, <1>2, <2>1, IsExecutable, OperandFacts, NotRefused DEF Jump
    <3> QED
      BY <2>1, <3>1 DEF Jump
  <2>2. CASE JumpIfNot
    <3>1. Op = "JumpIfNot"
      BY <2>2, IsExecutable DEF JumpIfNot
    <3>2. Peek(0).v = 0 => After + Offset \in Nat
      BY <1>1, <1>2, <3>1, OperandFacts, NotRefused
    <3> QED
      BY <1>2, <2>2, <3>2 DEF JumpIfNot
  <2> QED
    BY <2>1, <2>2
<1>4. stack' \in Seq(KnownValues)
  <2>1. CASE Jump
    BY <2>1 DEF Jump, MachineOK
  <2>2. CASE JumpIfNot
    <3>1. Op = "JumpIfNot"
      BY <2>2, IsExecutable DEF JumpIfNot
    <3>2. 1 \in 0..Len(stack)
      BY <1>1, <3>1, OperandFacts, WantedIs, TopFacts
    <3> QED
      BY <2>2, <3>2, StackFacts DEF JumpIfNot
  <2> QED
    BY <2>1, <2>2
<1>5. KnownValues' = KnownValues /\ FrameSet' = FrameSet
  BY <1>1, SameKnown DEF Same, FrameSet
<1>6. call_stack' \in Seq(FrameSet) /\ call_stack' # <<>>
  BY <1>3, Moved
<1> QED
  BY <1>1, <1>4, <1>5, <1>6 DEF MachineOK, Same

\* The callee is on the stack with its arguments.
LEMMA CalleeFacts ==
  ASSUME Executable, Op \in {"CallUser", "CallNative"}
  PROVE  /\ Arg + 1 \in 1..Len(stack) /\ CalleeSlot \in Nat /\ CalleeSlot + 1 \in 1..Len(stack)
         /\ Callee = stack[CalleeSlot + 1] /\ Callee \in KnownValues
         /\ Op = "CallUser" => Callee.t = "Function" /\ Callee.v \in DOMAIN program
         /\ Op = "CallNative" => Callee.t = "NativeFunc" /\ Callee.v \in DOMAIN Natives
<1>1. Arg \in Nat /\ Len(stack) \in Nat
  BY ArgFacts, TopFacts DEF Executable
<1>2. Len(stack) >= Arg + 1
  BY OperandFacts, WantedIs
<1>3. CalleeSlot \in Nat /\ CalleeSlot + 1 \in 1..Len(stack)
  BY <1>1, <1>2 DEF CalleeSlot
<1>4. Callee \in KnownValues
  BY <1>3, ElementOfSeq DEF Callee, Executable, MachineOK
<1>5. /\ Op = "CallUser" => Callee.t = "Function"
      /\ Op = "CallNative" => Callee.t = "NativeFunc"
  BY OperandFacts, NotRefused
<1> QED
  BY <1>1, <1>2, <1>3, <1>4, <1>5 DEF Callee, KnownValues, IsKnown

\* A call of a function keeps them.
LEMMA CallUserKeeps == ASSUME MachineOK, CallUser PROVE MachineOK'
<1>1. Executable /\ Op = "CallUser" /\ Same /\ stack' = stack
  BY IsExecutable DEF CallUser
<1>2. PICK below : below = [call_stack EXCEPT ![Depth].ip = After]
  OBVIOUS
<1>3. PICK frame : frame = Frame(Callee.v, CalleeSlot)
  OBVIOUS
<1>4. After \in Nat /\ CalleeSlot \in Nat /\ Callee.v \in DOMAIN program
  BY <1>1, OperandFacts, CalleeFacts
<1>5. frame \in FrameSet
  BY <1>3, <1>4 DEF Frame, FrameSet
<1>6. below \in Seq(FrameSet)
  <2>1. call_stack \in Seq(FrameSet) /\ Depth \in 1..Len(call_stack) /\ Top \in FrameSet
    BY TopFacts DEF Depth, MachineOK
  <2>2. PICK f : f = [Top EXCEPT !.ip = After]
    OBVIOUS
  <2>3. f \in FrameSet
    BY <1>4, <2>1, <2>2 DEF FrameSet
  <2>4. below = [call_stack EXCEPT ![Depth] = f]
    BY <1>2, <2>2 DEF Top
  <2> QED
    BY <2>1, <2>3, <2>4, ExceptSeq
<1>7. call_stack' = Append(below, frame)
  BY <1>2, <1>3 DEF CallUser
<1>8. call_stack' \in Seq(FrameSet) /\ call_stack' # <<>>
  BY <1>5, <1>6, <1>7, AppendProperties
<1>9. KnownValues' = KnownValues /\ FrameSet' = FrameSet
  BY <1>1, SameKnown DEF Same, FrameSet
<1> QED
  BY <1>1, <1>8, <1>9 DEF MachineOK, Same

\* A native function gives a value of its type.
LEMMA CallNativeKeeps == ASSUME MachineOK, CallNative PROVE MachineOK'
<1>1. Executable /\ Op = "CallNative"
  BY IsExecutable DEF CallNative
<1>2. Arg + 1 \in 0..Len(stack) /\ Callee.v \in DOMAIN Natives
  BY <1>1, CalleeFacts
<1>3. PICK result \in Results(Natives[Callee.v].gives) : Replace(Arg + 1, <<result>>)
  BY DEF CallNative
<1>4. Natives[Callee.v].gives \in Types \ {"Function", "NativeFunc", "Object"}
  <2>1. Natives[Callee.v] \in Native
    BY <1>2, RegistryAssumption, ElementOfSeq, LenProperties
  <2>2. ~Natives[Callee.v].builds
    BY DEF CallNative
  <2> QED
    BY <1>2, <2>1, <2>2, RegistryAssumption DEF Native
<1>5. <<result>> \in Seq(KnownValues)
  BY <1>4, ResultsKnown, OneValue
<1> QED
  BY <1>1, <1>2, <1>3, <1>5, ReplaceKeeps

\* A return hands the topmost value to the frame below.
LEMMA ReturnKeeps == ASSUME MachineOK, Return PROVE MachineOK'
<1>1. Executable /\ Op = "Return"
  BY IsExecutable DEF Return
<1>2. CASE Depth = 1
  <2>1. After \in Nat /\ MoveTo(After) /\ UNCHANGED <<stack, program, heap>> /\ status' = "ended"
    BY <1>1, <1>2, OperandFacts DEF Return
  <2>2. call_stack' \in Seq(FrameSet) /\ call_stack' # <<>>
    BY <2>1, Moved
  <2>3. KnownValues' = KnownValues /\ FrameSet' = FrameSet
    BY <2>1, SameKnown DEF FrameSet
  <2> QED
    BY <2>1, <2>2, <2>3 DEF MachineOK, Ends, LanguageEnds
<1>3. CASE Depth # 1
  <2>1. PICK kept : /\ kept = IF Top.stack_bottom < Len(stack) THEN Top.stack_bottom ELSE Len(stack) - 1
                    /\ call_stack' = SubSeq(call_stack, 1, Depth - 1)
                    /\ stack' = Append(SubSeq(stack, 1, kept), Peek(0))
                    /\ Same
    BY <1>3 DEF Return
  <2>2. Len(stack) \in Nat /\ Len(stack) >= 1 /\ Top.stack_bottom \in Nat /\ Depth \in Nat \ {0}
    BY <1>1, <1>3, TopFacts, OperandFacts, WantedIs
  <2>3. kept \in 0..Len(stack) /\ kept \in Int
    BY <2>1, <2>2
  <2>4. stack' \in Seq(KnownValues)
    <3>1. Peek(0) \in KnownValues
      BY <2>2, StackFacts
    <3>2. SubSeq(stack, 1, kept) \in Seq(KnownValues)
      BY <2>2, <2>3, ElementOfSeq, SubSeqProperties DEF MachineOK
    <3> QED
      BY <2>1, <3>1, <3>2, AppendProperties
  <2>5. call_stack' \in Seq(FrameSet) /\ call_stack' # <<>>
    <3>1. PICK n \in Nat : n = Depth - 1
      BY <2>2
    <3>2. call_stack \in Seq(FrameSet) /\ n \in 1..Len(call_stack)
      BY <1>3, <2>2, <3>1 DEF MachineOK, Depth
    <3>3. \A i \in 1..n : call_stack[i] \in FrameSet
      BY <3>2, ElementOfSeq
    <3>4. SubSeq(call_stack, 1, n) \in Seq(FrameSet) /\ Len(SubSeq(call_stack, 1, n)) # 0
      BY <3>2, <3>3, SubSeqProperties
    <3> QED
      BY <2>1, <3>1, <3>4, EmptySeq
  <2>6. KnownValues' = KnownValues /\ FrameSet' = FrameSet
    BY <2>1, SameKnown DEF Same, FrameSet
  <2> QED
    BY <2>1, <2>4, <2>5, <2>6 DEF MachineOK, Same
<1> QED
  BY <1>2, <1>3

\* An object is made of arguments, and is then one more.
LEMMA NewObjectKeeps == ASSUME MachineOK, NewObject PROVE MachineOK'
<1>1. Executable /\ Op = "CallNative"
  BY IsExecutable DEF NewObject
<1>2. /\ heap' = Append(heap, Args)
      /\ stack' = Append(Drop(Arg + 1), Val("Object", Len(heap) + 1))
      /\ MoveTo(After) /\ UNCHANGED <<program, status>>
  BY DEF NewObject
<1>3. Arg + 1 \in 0..Len(stack) /\ CalleeSlot \in Nat /\ Len(stack) \in Nat /\ After \in Nat
  BY <1>1, CalleeFacts, TopFacts, OperandFacts
<1>4. heap \in Seq(Seq(KnownValues)) /\ Len(heap) \in Nat /\ DOMAIN heap = 1..Len(heap)
  BY DEF MachineOK
<1>5. Args \in Seq(KnownValues)
  <2>1. CalleeSlot + 2 \in Int /\ \A i \in (CalleeSlot + 2)..Len(stack) : stack[i] \in KnownValues
    BY <1>3, ElementOfSeq DEF MachineOK
  <2> QED
    BY <1>3, <2>1, SubSeqProperties DEF Args
<1>6. heap' \in Seq(Seq(KnownValues)) /\ DOMAIN heap' = 1..(Len(heap) + 1)
  BY <1>2, <1>4, <1>5, AppendProperties, LenProperties
<1>7. KnownValues \subseteq KnownValues'
  BY <1>2, <1>4, <1>6 DEF KnownValues, IsKnown
<1>8. heap' \in Seq(Seq(KnownValues'))
  <2>1. Seq(KnownValues) \subseteq Seq(KnownValues')
    BY <1>7, SeqMonotonic
  <2> QED
    BY <1>6, <2>1, SeqMonotonic
<1>9. stack' \in Seq(KnownValues')
  <2>1. PICK object : object = Val("Object", Len(heap) + 1)
    OBVIOUS
  <2>2. object \in Value /\ object.t = "Object" /\ object.v = Len(heap) + 1
    BY <1>4, <2>1 DEF Val, Value, Types
  <2>3. object \in KnownValues'
    BY <1>4, <1>6, <2>2 DEF KnownValues, IsKnown
  <2>4. Drop(Arg + 1) \in Seq(KnownValues)
    BY <1>3, StackFacts
  <2>5. Drop(Arg + 1) \in Seq(KnownValues')
    BY <1>7, <2>4, SeqMonotonic
  <2> QED
    BY <1>2, <2>1, <2>3, <2>5, AppendProperties
<1>10. call_stack' \in Seq(FrameSet) /\ call_stack' # <<>> /\ FrameSet' = FrameSet
  BY <1>2, <1>3, Moved DEF FrameSet
<1> QED
  BY <1>2, <1>8, <1>9, <1>10 DEF MachineOK

\* The fields of an object are values.
LEMMA FieldFacts ==
  ASSUME Executable, Op \in {"FieldGet", "FieldSet"}
  PROVE  /\ Len(stack) \in Nat /\ Len(stack) >= Wanted /\ Peek(0) \in KnownValues
         /\ Peek(0).v \in DOMAIN heap /\ Fields(Peek(0)) = heap[Peek(0).v]
         /\ Fields(Peek(0)) \in Seq(KnownValues)
         /\ Arg + 1 \in 1..Len(Fields(Peek(0)))
<1>1. Len(stack) \in Nat /\ Len(stack) >= Wanted /\ Len(stack) >= 1
  BY OperandFacts, WantedIs, TopFacts DEF Executable
<1>2. Peek(0) \in KnownValues
  BY <1>1, StackFacts DEF Executable
<1>3. Peek(0).t = "Object" /\ ~(Arg >= Len(Fields(Peek(0))))
  BY OperandFacts, NotRefused
<1>4. Peek(0).v \in DOMAIN heap
  BY <1>2, <1>3 DEF KnownValues, IsKnown
<1>5. Fields(Peek(0)) = heap[Peek(0).v] /\ Fields(Peek(0)) \in Seq(KnownValues)
  BY <1>4, ElementOfSeq, LenProperties DEF Executable, MachineOK, Fields
<1>6. Arg + 1 \in 1..Len(Fields(Peek(0)))
  <2>1. PICK n \in Nat : n = Len(Fields(Peek(0)))
    BY <1>5
  <2> QED
    BY <1>3, <2>1, ArgFacts
<1> QED
  BY <1>1, <1>2, <1>4, <1>5, <1>6

\* Reading a field keeps them.
LEMMA FieldGetKeeps == ASSUME MachineOK, FieldGet PROVE MachineOK'
<1>1. Executable /\ Op = "FieldGet" /\ Replace(1, <<Fields(Peek(0))[Arg + 1]>>)
  BY IsExecutable DEF FieldGet
<1>2. PICK fields : fields = Fields(Peek(0))
  OBVIOUS
<1>3. fields \in Seq(KnownValues) /\ Arg + 1 \in 1..Len(fields) /\ Len(stack) \in Nat /\ Len(stack) >= Wanted
  BY <1>1, <1>2, FieldFacts
<1>4. <<fields[Arg + 1]>> \in Seq(KnownValues)
  BY <1>3, ElementOfSeq, OneValue
<1>5. 1 \in 0..Len(stack)
  BY <1>1, <1>3, WantedIs
<1> QED
  BY <1>1, <1>2, <1>4, <1>5, ReplaceKeeps

\* Writing a field keeps them.
LEMMA FieldSetKeeps == ASSUME MachineOK, FieldSet PROVE MachineOK'
<1>1. Executable /\ Op = "FieldSet"
  BY IsExecutable DEF FieldSet
<1>2. PICK object, fields, more :
        /\ object = Peek(0).v /\ fields = heap[object]
        /\ more = [fields EXCEPT ![Arg + 1] = Peek(1)]
  OBVIOUS
<1>3. /\ heap' = [heap EXCEPT ![object] = more]
      /\ stack' = Drop(1) /\ MoveTo(After) /\ UNCHANGED <<program, status>>
  BY <1>2 DEF FieldSet
<1>4. /\ object \in DOMAIN heap /\ fields \in Seq(KnownValues) /\ Arg + 1 \in 1..Len(fields)
      /\ Len(stack) \in Nat /\ Len(stack) >= 2
  BY <1>1, <1>2, FieldFacts, WantedIs
<1>5. Peek(1) \in KnownValues /\ stack' \in Seq(KnownValues)
  BY <1>3, <1>4, StackFacts
<1>6. more \in Seq(KnownValues)
  BY <1>2, <1>4, <1>5, ExceptSeq
<1>7. heap \in Seq(Seq(KnownValues)) /\ object \in 1..Len(heap)
  BY <1>4, LenProperties DEF MachineOK
<1>8. heap' \in Seq(Seq(KnownValues)) /\ DOMAIN heap' = DOMAIN heap
  BY <1>3, <1>6, <1>7, ExceptSeq
<1>9. KnownValues' = KnownValues
  BY <1>3, <1>8 DEF KnownValues, IsKnown
<1>10. call_stack' \in Seq(FrameSet) /\ call_stack' # <<>> /\ FrameSet' = FrameSet
  BY <1>1, <1>3, OperandFacts, Moved DEF FrameSet
<1> QED
  BY <1>3, <1>5, <1>8, <1>9, <1>10 DEF MachineOK

\* A run that ends keeps its values.
LEMMA EndKeeps ==
  ASSUME MachineOK, status' \in Ends, call_stack' \in Seq(FrameSet), call_stack' # <<>>,
         stack' \in Seq(KnownValues), UNCHANGED <<program, heap>>
  PROVE  MachineOK'
<1>1. KnownValues' = KnownValues /\ FrameSet' = FrameSet
  BY SameKnown DEF FrameSet
<1> QED
  BY <1>1 DEF MachineOK, Ends

\* A value without its Any is one: what an instruction unwraps is no function.
LEMMA UnwrapKeeps == ASSUME MachineOK, UnwrapAny PROVE MachineOK'
<1>1. Executable /\ Op \in DOMAIN Unwraps
  BY IsExecutable DEF UnwrapAny
<1>2. 1 \in 0..Len(stack) /\ 0 < Len(stack)
  BY <1>1, OperandFacts, WantedIs, TopFacts
<1>3. PICK top : top = Peek(0)
  OBVIOUS
<1>4. top \in Value
  BY <1>2, <1>3, StackFacts
<1>5. CASE top.within = Unwraps[Op]
  <2>1. PICK x : x = Unwrapped(top)
    OBVIOUS
  <2>2. Replace(1, <<x>>)
    BY <1>3, <1>5, <2>1 DEF UnwrapAny
  <2>3. x \in KnownValues
    BY <1>1, <1>4, <1>5, <2>1, UnwrapsAre DEF Unwrapped, Val, Value, Types, KnownValues, IsKnown
  <2> QED
    BY <1>1, <1>2, <2>2, <2>3, OneValue, ReplaceKeeps
<1>6. CASE top.within # Unwraps[Op]
  <2>1. status' = "TypeError" /\ stack' = Drop(1) /\ MoveTo(After) /\ UNCHANGED <<program, heap>>
    BY <1>3, <1>6 DEF UnwrapAny
  <2>2. call_stack' \in Seq(FrameSet) /\ call_stack' # <<>> /\ stack' \in Seq(KnownValues)
    BY <1>1, <1>2, <2>1, OperandFacts, Moved, StackFacts
  <2> QED
    BY <2>1, <2>2, EndKeeps DEF Ends, LanguageEnds
<1> QED
  BY <1>5, <1>6

\* Wrapping, comparing and computing leave a value.
LEMMA ComputeKeeps == ASSUME MachineOK, WrapAny \/ ValEqual \/ Compute \/ TESTYield PROVE MachineOK'
<1>1. PICK n \in 0..Len(stack), x \in KnownValues : Executable /\ Replace(n, <<x>>)
  <2>1. CASE WrapAny
    <3>1. Executable /\ Op = "WrapAny"
      BY <2>1, IsExecutable DEF WrapAny
    <3>2. 1 \in 0..Len(stack) /\ 0 < Len(stack)
      BY <3>1, OperandFacts, WantedIs, TopFacts
    <3>3. Peek(0) \in Value
      BY <3>2, StackFacts
    <3>4. Wrapped(Peek(0)) \in KnownValues
      BY <3>3 DEF Wrapped, Value, Types, KnownValues, IsKnown
    <3> QED
      BY <2>1, <3>1, <3>2, <3>4 DEF WrapAny
  <2>2. CASE ValEqual
    <3>1. Executable /\ Op = "ValEqual"
      BY <2>2, IsExecutable DEF ValEqual
    <3>2. 2 \in 0..Len(stack)
      BY <3>1, OperandFacts, WantedIs, TopFacts
    <3>3. \A x \in Results("Bool") : x \in KnownValues
      BY ResultsKnown DEF Types
    <3> QED
      BY <2>2, <3>1, <3>2, <3>3 DEF ValEqual
  <2>3. CASE Compute
    <3>1. Executable /\ Op \in DOMAIN Computing
      BY <2>3, IsExecutable DEF Compute
    <3>2. Len(Computing[Op].takes) \in 0..Len(stack)
      BY <3>1, OperandFacts, WantedIs, TopFacts, TakesOneOrTwo
    <3>3. Computing[Op].gives \in Types \ {"Function", "NativeFunc", "Object"}
      BY <3>1, ComputingIs DEF Types
    <3>4. \A x \in Results(Computing[Op].gives) : x \in KnownValues
      BY <3>3, ResultsKnown
    <3> QED
      BY <2>3, <3>1, <3>2, <3>4 DEF Compute
  <2>4. CASE TESTYield
    <3>1. Executable /\ Op = "TESTYield"
      BY <2>4, IsExecutable DEF TESTYield
    <3>2. 1 \in 0..Len(stack)
      BY <3>1, OperandFacts, WantedIs, TopFacts
    <3>3. NoneVal \in KnownValues
      BY DEF NoneVal, Val, Value, Types, KnownValues, IsKnown
    <3> QED
      BY <2>4, <3>1, <3>2, <3>3 DEF TESTYield
  <2> QED
    BY <2>1, <2>2, <2>3, <2>4
<1> QED
  BY <1>1, OneValue, ReplaceKeeps

\* Every reason to panic is an end of the run.
LEMMA RefusalIsEnd == Refusal \in {"none"} \cup Limits \cup Faults
BY UnwrapsAre, ComputingIs DEF Refusal, Limits, Faults, Unwritten, FloatBinary, IntBinary

\* A run ends.
LEMMA StopKeeps == ASSUME MachineOK, Crash \/ ArithmeticPanic \/ Fault PROVE MachineOK'
<1>1. CASE Crash
  <2>1. status' = "ManualCrash" /\ MoveTo(After) /\ UNCHANGED <<stack, program, heap>>
    BY <1>1 DEF Crash
  <2>2. After \in Nat
    BY <1>1, IsExecutable, OperandFacts DEF Crash
  <2>3. call_stack' \in Seq(FrameSet) /\ call_stack' # <<>> /\ stack' \in Seq(KnownValues)
    BY <2>1, <2>2, Moved DEF MachineOK
  <2> QED
    BY <2>1, <2>3, EndKeeps DEF Ends, LanguageEnds
<1>2. CASE ArithmeticPanic
  BY <1>2, EndKeeps DEF ArithmeticPanic, MachineOK, Ends, Limits
<1>3. CASE Fault
  <2>1. Problem \in {"none"} \cup Limits \cup Faults
    BY RefusalIsEnd DEF Problem, Limits, Faults
  <2>2. status' \in Ends
    BY <1>3, <2>1 DEF Fault, Ends
  <2> QED
    BY <1>3, <2>2, EndKeeps DEF Fault, MachineOK
<1> QED
  BY <1>1, <1>2, <1>3

\* Every cycle keeps the values of the machine.
LEMMA CycleKeeps == ASSUME MachineOK, Cycle PROVE MachineOK'
BY PushKeeps, GetKeeps, SetKeeps, PopKeeps, JumpKeeps, CallUserKeeps, CallNativeKeeps, NewObjectKeeps,
   ReturnKeeps, FieldGetKeeps, FieldSetKeeps, UnwrapKeeps, ComputeKeeps, StopKeeps DEF Cycle

\* A step of the machine needs a run that has not ended.
LEMMA CycleRuns == ASSUME Cycle PROVE status = "running"
BY DEF Cycle, Pass, PushLiteral, GetLocal, SetLocal, GetGlobal, SetGlobal, Pop, Jump, JumpIfNot, CallUser,
       CallNative, NewObject, Return, FieldGet, FieldSet, UnwrapAny, WrapAny, ValEqual, Compute,
       ArithmeticPanic, TESTTakeInput, TESTYield, Crash, Fault, Executing

\* So does doing nothing.
LEMMA StutterKeeps == ASSUME MachineOK, UNCHANGED vmVars PROVE MachineOK'
<1>1. program' = program /\ stack' = stack /\ heap' = heap /\ call_stack' = call_stack /\ status' = status
  BY DEF vmVars
<1> QED
  BY <1>1, SameKnown DEF MachineOK, FrameSet

\* It starts with them.
LEMMA BootHolds == ASSUME IsProgram(program), Boot(MainId) PROVE MachineOK
<1>1. Natives \in Seq(Native) /\ DOMAIN Natives = 1..Len(Natives) /\ Len(Natives) \in Nat
  BY RegistryAssumption
<1>2. \A i \in DOMAIN Natives : Val("NativeFunc", i) \in KnownValues
  BY <1>1 DEF Val, Value, Types, KnownValues, IsKnown
<1>3. stack \in Seq(KnownValues)
  <2>1. stack = [i \in 1..Len(Natives) |-> Val("NativeFunc", i)]
    BY <1>1 DEF Boot, NativeValues
  <2> QED
    BY <1>1, <1>2, <2>1
<1>4. MainId \in DOMAIN program
  BY EmptySeq, LenProperties DEF IsProgram, MainId
<1>5. call_stack \in Seq(FrameSet) /\ call_stack # <<>>
  BY <1>4 DEF Boot, FirstFrame, Frame, FrameSet
<1>6. heap \in Seq(Seq(KnownValues)) /\ status = "running"
  BY DEF Boot
<1> QED
  BY <1>3, <1>5, <1>6 DEF MachineOK

(***************************************************************************)
(* The activations of a program that the verifier accepts.                 *)
(***************************************************************************)
HasType(x, s) == x.t = s.t /\ (s.f # 0 => x.v = s.f)

Bottom(i) == call_stack[i].stack_bottom
EndOf(i) == IF i < Depth THEN Bottom(i + 1) ELSE Len(stack)

\* What the table says of an activation.  One that waits for its callee holds
\* everything but the result that the call will leave.
Expected(tables, i) == tables[call_stack[i].function][call_stack[i].ip + 1]
Held(tables, i) == IF i < Depth THEN Front(Expected(tables, i)) ELSE Expected(tables, i)

ScriptFirst ==
    /\ Bottom(1) = 0
    /\ \A i \in 1..Depth : (call_stack[i].function = MainId) <=> (i = 1)
Reaches(tables) ==
    \A i \in 1..Depth :
        /\ IsSequence(Expected(tables, i)) /\ Expected(tables, i) # Dead
        /\ call_stack[i].ip < Len(program[call_stack[i].function].code)
Stacked(tables) ==
    /\ \A i \in 1..Depth : Bottom(i) + Len(Held(tables, i)) = EndOf(i)
    /\ \A i, j \in 1..Depth : i < j => EndOf(i) <= Bottom(j)
Typed(tables) ==
    \A i \in 1..Depth : \A j \in 1..Len(Held(tables, i)) :
        HasType(stack[Bottom(i) + j], Held(tables, i)[j])
Waits(tables) ==
    \A i \in 1..(Depth - 1) :
        /\ Expected(tables, i) # <<>>
        /\ Last(Expected(tables, i)) = Of(program[call_stack[i + 1].function].ret_type)
GlobalsThere(globals, tables, needs) ==
    \A i \in 2..Depth : \A g \in Byte :
        g \in needs[call_stack[i].function] =>
            g < Len(Held(tables, 1)) /\ Held(tables, 1)[g + 1] = globals[g + 1]

FramesOK(globals, tables, needs) ==
    /\ ScriptFirst
    /\ Reaches(tables)
    /\ Stacked(tables)
    /\ Typed(tables)
    /\ Waits(tables)
    /\ GlobalsThere(globals, tables, needs)

\* What the verifier asks of the instruction op with the operand arg, in
\* function k with the types s, and what it makes of them.
Admits(op, arg, k, s, n, slots, effect) ==
    /\ op = "Pass" => effect = s
    /\ op = "None" => effect = Append(s, Of("None"))
    /\ op \in {"True", "False"} => effect = Append(s, Of("Bool"))
    /\ op = "LoadByte" => effect = Append(s, Of("Int"))
    /\ op = "Constant" => /\ arg < Len(program[k].constants)
                          /\ effect = Append(s, TypeOfValue(program[k].constants[arg + 1]))
    /\ op = "GetLocal" => n >= arg + 1 /\ effect = Append(s, s[arg + 1])
    /\ op = "GetGlobal" => Len(slots) > arg /\ effect = Append(s, slots[arg + 1])
    /\ op = "SetLocal" => n >= arg + 1 /\ s[arg + 1] = s[n] /\ effect = s
    /\ op = "SetGlobal" => n >= 1 /\ Len(slots) > arg /\ slots[arg + 1] = s[n] /\ effect = s
    /\ op = "Pop" => n >= 1 /\ effect = SubSeq(s, 1, n - 1)
    /\ op = "Jump" => effect = s
    /\ op = "JumpIfNot" => n >= 1 /\ s[n].t = "Bool" /\ effect = SubSeq(s, 1, n - 1)
    /\ op = "CallUser" =>
          /\ n >= arg + 1 /\ s[n - arg].t = "Function" /\ s[n - arg].f \in DOMAIN program \ {MainId}
          /\ program[s[n - arg].f].params = Variants(SubSeq(s, n - arg + 1, n))
          /\ effect = SubSeq(s, 1, n - (arg + 1)) \o <<Of(program[s[n - arg].f].ret_type)>>
    /\ op = "CallNative" =>
          /\ n >= arg + 1 /\ s[n - arg].t = "NativeFunc" /\ s[n - arg].f \in DOMAIN Natives
          /\ \/ Natives[s[n - arg].f].builds
             \/ Natives[s[n - arg].f].takes = Variants(SubSeq(s, n - arg + 1, n))
          /\ effect = SubSeq(s, 1, n - (arg + 1)) \o <<Of(Natives[s[n - arg].f].gives)>>
    /\ op = "Return" => /\ effect = s
                        /\ k = MainId \/ (n >= 1 /\ s[n] = Of(program[k].ret_type))
    /\ op = "Crash" => effect = s
    /\ op = "TESTTakeInput" => effect = Append(s, Of(InputType))
    /\ op = "TESTYield" => n >= 1 /\ effect = SubSeq(s, 1, n - 1) \o <<Of("None")>>
    /\ op = "WrapAny" => n >= 1 /\ effect = SubSeq(s, 1, n - 1) \o <<Of("Any")>>
    /\ op = "ValEqual" => n >= 2 /\ effect = SubSeq(s, 1, n - 2) \o <<Of("Bool")>>
    /\ op \in DOMAIN Unwraps =>
          n >= 1 /\ s[n].t = "Any" /\ effect = SubSeq(s, 1, n - 1) \o <<Of(Unwraps[op])>>
    /\ op \in DOMAIN Computing =>
          /\ n >= Len(Computing[op].takes)
          /\ \A i \in DOMAIN Computing[op].takes :
                s[n - Len(Computing[op].takes) + i].t = Computing[op].takes[i]
          /\ effect = SubSeq(s, 1, n - Len(Computing[op].takes)) \o <<Of(Computing[op].gives)>>
    /\ op \notin {"FieldGet", "FieldSet"}

\* A verdict other than Bad says so.
LEMMA EffectIs ==
  ASSUME NEW k, NEW globals, NEW ip, NEW s, NEW op, op = Decode(Ip(k, ip)), NEW arg, arg = Ip(k, ip + 1),
         NEW n, n = Len(s), NEW slots, slots = (IF k = MainId THEN s ELSE globals),
         NEW effect, effect = Effect(k, globals, ip, s), effect # Bad
  PROVE  Admits(op, arg, k, s, n, slots, effect)
BY UnwrapsAre, ComputingIs DEF Admits, Effect, Unwritten, FloatBinary, IntBinary

Accepted(globals, tables, needs) ==
    /\ MachineOK
    /\ TablesOK(globals, tables)
    /\ NeedsOK(globals, tables, needs)
    /\ FramesOK(globals, tables, needs)

\* What the table says of the instruction that runs.
LEMMA HereFacts ==
  ASSUME NEW globals, NEW tables, NEW needs, Accepted(globals, tables, needs),
         NEW k, k = Top.function, NEW ip, ip = Top.ip, NEW s, s = Expected(tables, Depth)
  PROVE  /\ MachineOK /\ k \in DOMAIN program /\ ip \in Nat /\ ip < Len(Fn.code) /\ s = tables[k][ip + 1]
         /\ Fn = program[k] /\ IsOp(Fn.code[ip + 1]) /\ After <= Len(Fn.code)
         /\ Op = Decode(Ip(k, ip)) /\ Arg = Ip(k, ip + 1) /\ Readable(k, ip)
         /\ Effect(k, globals, ip, s) # Bad /\ Effect(k, globals, ip, s) # Dead
         /\ \A next \in Successors(k, ip) :
               next \in 0..(Len(Fn.code) - 1) /\ tables[k][next + 1] = Effect(k, globals, ip, s)
         /\ (k = MainId) <=> (Depth = 1)
         /\ s # Dead /\ s # Bad
<1>1. MachineOK /\ TablesOK(globals, tables) /\ ScriptFirst /\ Reaches(tables)
  BY DEF Accepted, FramesOK
<1>2. /\ Depth \in Nat \ {0} /\ Top = call_stack[Depth] /\ k \in DOMAIN program /\ ip \in Nat
      /\ Fn = program[k] /\ Len(Fn.code) \in Nat
  BY <1>1, TopFacts
<1>3. Depth \in 1..Depth
  BY <1>2
<1>4. s # Dead /\ ip < Len(Fn.code) /\ ((k = MainId) <=> (Depth = 1)) /\ s = tables[k][ip + 1]
  BY <1>1, <1>2, <1>3 DEF Reaches, ScriptFirst, Expected
<1>5. FunctionOK(k, globals, tables[k])
  BY <1>1, <1>2 DEF TablesOK
<1>6. ip \in 0..Len(program[k].code)
  BY <1>2, <1>4
<1>7. /\ s # Bad /\ Readable(k, ip)
      /\ Effect(k, globals, ip, s) \notin {Bad, Dead}
      /\ \A next \in Successors(k, ip) :
            next \in 0..(Len(program[k].code) - 1) /\ tables[k][next + 1] = Effect(k, globals, ip, s)
  BY <1>4, <1>5, <1>6 DEF FunctionOK
<1>8. Op = Decode(Ip(k, ip)) /\ Arg = Ip(k, ip + 1)
  <2>1. ip + 1 + 1 = ip + 2
    BY <1>2
  <2> QED
    BY <1>2, <2>1 DEF Op, Arg, Ip
<1>9. IsOp(Fn.code[ip + 1]) /\ After <= Len(Fn.code)
  <2>1. IsOp(Ip(k, ip)) /\ ip + Width(Decode(Ip(k, ip))) <= Len(program[k].code)
    BY <1>7 DEF Readable
  <2> QED
    BY <1>2, <1>8, <2>1 DEF After, Ip
<1> QED
  BY <1>1, <1>2, <1>4, <1>7, <1>8, <1>9

\* Where the instruction leads.
LEMMA SuccessorsAre ==
  ASSUME NEW k, k = Top.function, NEW ip, ip = Top.ip, Op = Decode(Ip(k, ip)), Fn = program[k], ip \in Nat
  PROVE  /\ Op \notin {"Return", "Crash", "Jump"} \cup Unwritten => After \in Successors(k, ip)
         /\ Op \in {"Jump", "JumpIfNot"} => After + Offset \in Successors(k, ip)
<1>1. PICK after : after = ip + Width(Decode(Ip(k, ip)))
  OBVIOUS
<1>2. PICK target : target = after + Signed16(Ip(k, ip + 1), Ip(k, ip + 2))
  OBVIOUS
<1>3. after = After
  BY <1>1 DEF After
<1>4. target = After + Offset
  <2>1. ip + 1 + 1 = ip + 2 /\ ip + 2 + 1 = ip + 3
    OBVIOUS
  <2> QED
    BY <1>2, <1>3, <2>1 DEF Offset, Ip
<1>5. Successors(k, ip) = CASE Op \in {"Return", "Crash"} \cup Unwritten -> {}
         [] Op = "Jump" -> {target}
         [] Op = "JumpIfNot" -> {after, target}
         [] OTHER -> {after}
  BY <1>1, <1>2 DEF Successors
<1> QED
  BY <1>3, <1>4, <1>5 DEF Unwritten

\* The part of the stack that belongs to the activation that runs.
LEMMA OwnFacts ==
  ASSUME NEW globals, NEW tables, NEW needs, Accepted(globals, tables, needs),
         NEW s, s = Expected(tables, Depth)
  PROVE  /\ IsSequence(s) /\ Len(s) \in Nat /\ DOMAIN s = 1..Len(s)
         /\ Top.stack_bottom \in Nat /\ Len(stack) \in Nat
         /\ Top.stack_bottom + Len(s) = Len(stack)
         /\ \A j \in 1..Len(s) : HasType(stack[Top.stack_bottom + j], s[j])
<1>1. MachineOK /\ Reaches(tables) /\ Stacked(tables) /\ Typed(tables)
  BY DEF Accepted, FramesOK
<1>2. Depth \in Nat \ {0} /\ Top = call_stack[Depth] /\ Top.stack_bottom \in Nat /\ Len(stack) \in Nat
  BY <1>1, TopFacts
<1>3. Depth \in 1..Depth /\ ~(Depth < Depth)
  BY <1>2
<1>4. Held(tables, Depth) = s /\ EndOf(Depth) = Len(stack) /\ Bottom(Depth) = Top.stack_bottom
  BY <1>2, <1>3 DEF Held, EndOf, Bottom
<1>5. IsSequence(s)
  BY <1>1, <1>3 DEF Reaches
<1>6. Top.stack_bottom + Len(s) = Len(stack)
  BY <1>1, <1>3, <1>4 DEF Stacked
<1>7. \A j \in 1..Len(s) : HasType(stack[Top.stack_bottom + j], s[j])
  BY <1>1, <1>3, <1>4 DEF Typed
<1> QED
  BY <1>2, <1>5, <1>6, <1>7, Places

\* The value that lies below n others.
LEMMA OwnPeek ==
  ASSUME NEW globals, NEW tables, NEW needs, Accepted(globals, tables, needs),
         NEW s, s = Expected(tables, Depth), NEW n \in Nat, n < Len(s)
  PROVE  /\ Len(s) - n \in 1..Len(s) /\ Len(stack) - n \in 1..Len(stack)
         /\ Len(stack) - n = Top.stack_bottom + (Len(s) - n)
         /\ Peek(n) = stack[Len(stack) - n]
         /\ HasType(Peek(n), s[Len(s) - n])
<1>1. /\ Len(s) \in Nat /\ Top.stack_bottom \in Nat /\ Len(stack) \in Nat
      /\ Top.stack_bottom + Len(s) = Len(stack)
      /\ \A j \in 1..Len(s) : HasType(stack[Top.stack_bottom + j], s[j])
  BY OwnFacts
<1>2. Len(s) - n \in 1..Len(s) /\ Len(stack) - n = Top.stack_bottom + (Len(s) - n)
      /\ Len(stack) - n \in 1..Len(stack)
  <2>1. PICK b \in Nat : b = Top.stack_bottom
    BY <1>1
  <2>2. PICK m \in Nat : m = Len(s)
    BY <1>1
  <2>3. PICK l \in Nat : l = Len(stack)
    BY <1>1
  <2>4. l = b + m /\ n < m
    BY <1>1, <2>1, <2>2, <2>3
  <2>5. m - n \in 1..m /\ l - n = b + (m - n) /\ l - n \in 1..l
    BY <2>4
  <2> QED
    BY <2>1, <2>2, <2>3, <2>5
<1>3. HasType(stack[Top.stack_bottom + (Len(s) - n)], s[Len(s) - n])
  <2>1. \A j \in 1..Len(s) : HasType(stack[Top.stack_bottom + j], s[j])
    BY <1>1
  <2> QED
    BY <1>2, <2>1
<1> QED
  BY <1>2, <1>3 DEF Peek

\* What the verifier makes of the instruction that runs.
LEMMA EffectHere ==
  ASSUME NEW globals, NEW tables, NEW needs, Accepted(globals, tables, needs),
         NEW s, s = Expected(tables, Depth), NEW k, k = Top.function,
         NEW effect, effect = Effect(k, globals, Top.ip, s),
         NEW slots, slots = (IF k = MainId THEN s ELSE globals)
  PROVE  Admits(Op, Arg, k, s, Len(s), slots, effect)
<1>1. PICK ip, op, arg, n : ip = Top.ip /\ op = Op /\ arg = Arg /\ n = Len(s)
  OBVIOUS
<1>2. op = Decode(Ip(k, ip)) /\ arg = Ip(k, ip + 1) /\ effect # Bad
  BY <1>1, HereFacts
<1>3. effect = Effect(k, globals, ip, s)
  BY <1>1
<1>4. Admits(op, arg, k, s, n, slots, effect)
  BY <1>1, <1>2, <1>3, EffectIs
<1> QED
  BY <1>1, <1>4

\* The machine refuses an instruction for a reason.
LEMMA RefusedFor ==
  ASSUME Refusal \in Faults
  PROVE  \/ Op = "JumpIfNot" /\ (Peek(0).t # "Bool" \/ After + Offset < 0)
         \/ Op = "Jump" /\ After + Offset < 0
         \/ Op = "CallUser" /\ Callee.t # "Function"
         \/ Op = "CallNative" /\ (Callee.t # "NativeFunc" \/ ~Accepts(Natives[Callee.v], Args))
         \/ Op \in {"GetLocal", "SetLocal"} /\ LocalSlot >= Len(stack)
         \/ Op \in {"GetGlobal", "SetGlobal"} /\ Arg >= Len(stack)
         \/ Op \in {"FieldGet", "FieldSet"}
         \/ Op = "Constant" /\ Arg >= Len(Fn.constants)
         \/ Op \in DOMAIN Unwraps /\ Peek(0).t # "Any"
         \/ /\ Op \in DOMAIN Computing
            /\ \E i \in DOMAIN Computing[Op].takes :
                  Computing[Op].takes[i] # Peek(Len(Computing[Op].takes) - i).t
BY UnwrapsAre, ComputingIs DEF Refusal, Faults, Unwritten, FloatBinary, IntBinary

\* The arguments of a call have the types that the verifier found.
LEMMA OwnArgs ==
  ASSUME NEW globals, NEW tables, NEW needs, Accepted(globals, tables, needs),
         NEW s, s = Expected(tables, Depth), Arg \in Nat, Len(s) >= Arg + 1
  PROVE  /\ CalleeSlot + 1 \in 1..Len(stack) /\ CalleeSlot = Top.stack_bottom + (Len(s) - Arg - 1)
         /\ CalleeSlot \in Nat
         /\ HasType(Callee, s[Len(s) - Arg]) /\ Callee \in KnownValues
         /\ Args \in Seq(KnownValues) /\ Len(Args) = Arg
         /\ IsSequence(SubSeq(s, Len(s) - Arg + 1, Len(s)))
         /\ Len(SubSeq(s, Len(s) - Arg + 1, Len(s))) = Arg
         /\ \A i \in 1..Arg : HasType(Args[i], SubSeq(s, Len(s) - Arg + 1, Len(s))[i])
<1>1. /\ IsSequence(s) /\ Len(s) \in Nat /\ DOMAIN s = 1..Len(s)
      /\ Top.stack_bottom \in Nat /\ Len(stack) \in Nat
      /\ Top.stack_bottom + Len(s) = Len(stack)
      /\ \A j \in 1..Len(s) : HasType(stack[Top.stack_bottom + j], s[j])
  BY OwnFacts
<1>2. PICK n \in Nat, arg \in Nat, b \in Nat, m \in Nat :
          n = Len(s) /\ arg = Arg /\ b = Top.stack_bottom /\ m = Len(stack)
  BY <1>1
<1>3. /\ m = b + n /\ n >= arg + 1 /\ \A j \in 1..n : HasType(stack[b + j], s[j])
      /\ CalleeSlot = m - arg - 1 /\ Callee = stack[CalleeSlot + 1] /\ Args = SubSeq(stack, CalleeSlot + 2, m)
  BY <1>1, <1>2 DEF CalleeSlot, Callee, Args
<1>4. CalleeSlot + 1 \in 1..m /\ CalleeSlot = b + (n - arg - 1) /\ CalleeSlot \in Nat
  BY <1>3
<1>5. HasType(Callee, s[n - arg])
  <2>1. n - arg \in 1..n /\ b + (n - arg) = CalleeSlot + 1
    BY <1>3, <1>4
  <2> QED
    BY <1>3, <2>1
<1>6. stack \in Seq(KnownValues) /\ m = Len(stack)
  BY <1>2 DEF Accepted, MachineOK
<1>7. Callee \in KnownValues
  BY <1>3, <1>4, <1>6, ElementOfSeq
<1>8. PICK first \in Int : first = CalleeSlot + 2
  BY <1>4
<1>9. /\ Args \in Seq(KnownValues) /\ Len(Args) = arg
      /\ \A i \in 1..arg : Args[i] = stack[first + i - 1]
  <2>1. first \in 1..(m + 1) /\ m - first + 1 = arg
    BY <1>3, <1>4, <1>8
  <2>2. \A i \in first..m : stack[i] \in KnownValues
    BY <1>6, <2>1, ElementOfSeq
  <2>3. /\ SubSeq(stack, first, m) \in Seq(KnownValues)
        /\ Len(SubSeq(stack, first, m)) = IF first <= m THEN m - first + 1 ELSE 0
        /\ \A i \in 1 .. m - first + 1 : SubSeq(stack, first, m)[i] = stack[first + i - 1]
    BY <2>2, SubSeqProperties
  <2> QED
    BY <1>3, <1>8, <2>1, <2>3
<1>10. PICK args : args = SubSeq(s, n - arg + 1, n)
  OBVIOUS
<1>11. /\ IsSequence(args) /\ Len(args) = arg
       /\ \A i \in 1..arg : args[i] = s[(n - arg + 1) + i - 1]
  <2>1. PICK from \in Int : from = n - arg + 1
    OBVIOUS
  <2>2. from \in 1..(n + 1) /\ n - from + 1 = arg
    BY <1>3, <2>1
  <2>3. \A i \in from..n : s[i] \in Range(s)
    <3>1. \A i \in 1..n : s[i] \in Range(s)
      BY <1>1, <1>2 DEF Range
    <3> QED
      BY <2>1, <2>2, <3>1
  <2>4. /\ SubSeq(s, from, n) \in Seq(Range(s))
        /\ Len(SubSeq(s, from, n)) = IF from <= n THEN n - from + 1 ELSE 0
        /\ \A i \in 1 .. n - from + 1 : SubSeq(s, from, n)[i] = s[from + i - 1]
    BY <2>3, SubSeqProperties
  <2>5. IsSequence(args)
    BY <1>10, <2>1, <2>4, SeqIsSequence
  <2> QED
    BY <1>10, <2>1, <2>2, <2>4, <2>5
<1>12. ASSUME NEW i \in 1..arg PROVE HasType(Args[i], args[i])
  <2>1. PICK j \in 1..n : j = n - arg + i
    BY <1>3
  <2>2. (n - arg + 1) + i - 1 = j /\ first + i - 1 = b + j
    BY <1>3, <1>4, <1>8, <2>1
  <2> QED
    BY <1>3, <1>9, <1>11, <2>1, <2>2
<1> QED
  BY <1>2, <1>4, <1>5, <1>7, <1>9, <1>10, <1>11, <1>12

\* The first activation's slots are the globals, where every function that reads
\* one finds it.
LEMMA GlobalSlot ==
  ASSUME NEW globals, NEW tables, NEW needs, Accepted(globals, tables, needs),
         NEW slots, slots = (IF Top.function = MainId THEN Expected(tables, Depth) ELSE globals),
         Op \in {"GetGlobal", "SetGlobal"}, Arg < Len(slots), Arg \in Byte, Arg \in Nat
  PROVE  /\ Arg + 1 \in 1..Len(Held(tables, 1)) /\ Arg + 1 \in 1..Len(stack)
         /\ Len(Held(tables, 1)) <= Len(stack)
         /\ Depth > 1 => Len(Held(tables, 1)) <= Top.stack_bottom
         /\ Held(tables, 1)[Arg + 1] = slots[Arg + 1]
         /\ HasType(stack[Arg + 1], slots[Arg + 1])
<1>1. /\ MachineOK /\ ScriptFirst /\ Stacked(tables) /\ Typed(tables)
      /\ GlobalsThere(globals, tables, needs) /\ Covers(tables, needs)
  BY DEF Accepted, FramesOK, NeedsOK
<1>2. /\ Depth \in Nat \ {0} /\ Top = call_stack[Depth] /\ Len(stack) \in Nat /\ Top.stack_bottom \in Nat
      /\ Top.stack_bottom + Len(Expected(tables, Depth)) = Len(stack) /\ Len(Expected(tables, Depth)) \in Nat
  BY <1>1, TopFacts, OwnFacts
<1>3. Bottom(1) = 0 /\ 1 \in 1..Depth /\ Depth \in 1..Depth
  BY <1>1, <1>2 DEF ScriptFirst
<1>4. PICK first, k, ip, arg : first = Held(tables, 1) /\ k = Top.function /\ ip = Top.ip /\ arg = Arg
  OBVIOUS
<1>5. arg \in Nat /\ arg \in Byte
  BY <1>4
<1>6. /\ k \in DOMAIN program /\ ip \in Nat /\ ip < Len(program[k].code)
      /\ Readable(k, ip) /\ Op = Decode(Ip(k, ip)) /\ arg = Ip(k, ip + 1)
      /\ (k = MainId) <=> (Depth = 1)
      /\ tables[k][ip + 1] \notin {Dead, Bad} /\ Len(Fn.code) \in Nat /\ Fn = program[k]
  BY <1>1, <1>4, HereFacts, TopFacts
<1>7. CASE k = MainId
  <2>1. Depth = 1 /\ first = Expected(tables, Depth) /\ slots = first
    BY <1>4, <1>6, <1>7, <1>2 DEF Held
  <2>2. Top.stack_bottom = 0
    BY <1>2, <1>3, <2>1 DEF Bottom
  <2>3. \A j \in 1..Len(first) : HasType(stack[Top.stack_bottom + j], first[j])
    BY <2>1, OwnFacts
  <2>4. arg + 1 \in 1..Len(first) /\ Len(first) = Len(stack)
    BY <1>2, <1>4, <1>5, <2>1, <2>2
  <2>5. HasType(stack[arg + 1], first[arg + 1])
    BY <2>2, <2>3, <2>4
  <2> QED
    BY <1>2, <1>4, <2>1, <2>4, <2>5
<1>8. CASE k # MainId
  <2>1. Depth > 1 /\ Depth \in 2..Depth /\ slots = globals
    BY <1>2, <1>4, <1>6, <1>8
  <2>2. arg \in needs[k]
    <3>1. ip \in Reached(k, tables[k], {"GetGlobal", "SetGlobal"})
      BY <1>6 DEF Reached
    <3>2. arg \in Touches(k, tables[k])
      BY <1>6, <3>1 DEF Touches
    <3> QED
      BY <1>1, <1>6, <1>8, <3>2 DEF Covers
  <2>3. arg < Len(first) /\ first[arg + 1] = globals[arg + 1]
    BY <1>1, <1>2, <1>4, <1>5, <2>1, <2>2 DEF GlobalsThere
  <2>4. Bottom(1) + Len(first) = EndOf(1) /\ EndOf(1) <= Top.stack_bottom
    BY <1>1, <1>2, <1>3, <1>4, <2>1 DEF Stacked, Bottom
  <2>5. EndOf(1) \in Nat
    <3>1. call_stack[2] \in FrameSet
      BY <1>1, <1>2, <2>1, ElementOfSeq DEF MachineOK, Depth
    <3> QED
      BY <2>1, <3>1 DEF EndOf, Bottom, FrameSet
  <2>6. Len(first) \in Nat /\ Len(first) = EndOf(1)
    <3>1. IsSequence(Expected(tables, 1)) /\ Expected(tables, 1) # <<>>
      BY <1>1, <1>2, <1>3, <2>1 DEF Accepted, FramesOK, Reaches, Waits
    <3>2. first = Front(Expected(tables, 1))
      BY <1>4, <2>1 DEF Held
    <3>3. Len(first) \in Nat
      BY <3>1, <3>2, Popped, Places
    <3> QED
      BY <1>3, <2>4, <2>5, <3>3
  <2>7. arg + 1 \in 1..Len(first) /\ Len(first) <= Top.stack_bottom /\ Len(first) <= Len(stack)
        /\ arg + 1 \in 1..Len(stack)
    BY <1>2, <1>5, <2>3, <2>4, <2>6
  <2>8. HasType(stack[Bottom(1) + (arg + 1)], first[arg + 1])
    BY <1>1, <1>3, <1>4, <2>7 DEF Typed
  <2>9. Bottom(1) + (arg + 1) = arg + 1
    BY <1>3, <1>5
  <2> QED
    BY <1>4, <2>1, <2>3, <2>7, <2>8, <2>9
<1> QED
  BY <1>7, <1>8

\* The instruction that runs finds what it takes.
LEMMA FindsOperands ==
  ASSUME NEW globals, NEW tables, NEW needs, Accepted(globals, tables, needs),
         NEW s, s = Expected(tables, Depth)
  PROVE  Wanted \in Nat /\ Wanted <= Len(s)
<1>1. MachineOK /\ Top.ip < Len(Fn.code) /\ After <= Len(Fn.code)
  BY HereFacts
<1>2. Op \in ByteOps \cup ShortOps => Arg \in Byte /\ Arg \in Nat
  BY <1>1, ReadableOperands
<1>3. Wanted \in Nat
  BY <1>2, WantedNat
<1>4. PICK k, effect, slots :
        /\ k = Top.function /\ effect = Effect(k, globals, Top.ip, s)
        /\ slots = (IF k = MainId THEN s ELSE globals)
  OBVIOUS
<1>5. Admits(Op, Arg, k, s, Len(s), slots, effect)
  BY <1>4, EffectHere
<1>6. Len(s) \in Nat
  BY OwnFacts
<1>7. (k = MainId) <=> (Depth = 1)
  BY <1>4, HereFacts
<1>8. CASE Op \in {"CallUser", "CallNative"}
  <2>1. Wanted = Arg + 1
    BY <1>8, WantedIs
  <2>2. Len(s) >= Arg + 1
    BY <1>5, <1>8 DEF Admits
  <2>3. PICK arg \in Nat : arg = Arg
    BY <1>2, <1>8 DEF ByteOps
  <2> QED
    BY <1>3, <1>6, <2>1, <2>2, <2>3
<1>9. CASE Op = "SetLocal"
  <2>1. Wanted = 1 /\ Len(s) >= Arg + 1
    BY <1>5, <1>9, WantedIs DEF Admits
  <2>2. PICK arg \in Nat : arg = Arg
    BY <1>2, <1>9 DEF ByteOps
  <2> QED
    BY <1>3, <1>6, <2>1, <2>2
<1>10. CASE Op = "Return"
  <2>1. Wanted = 0 \/ (Wanted = 1 /\ Depth # 1)
    BY <1>10 DEF Wanted
  <2>2. k # MainId => Len(s) >= 1
    BY <1>5, <1>10 DEF Admits
  <2> QED
    BY <1>3, <1>6, <1>7, <2>1, <2>2
<1>11. CASE Op \in DOMAIN Computing
  <2>1. Wanted = Len(Computing[Op].takes) /\ Len(s) >= Len(Computing[Op].takes)
    BY <1>5, <1>11, WantedIs DEF Admits
  <2> QED
    BY <1>3, <1>6, <2>1
<1>12. CASE Op \in DOMAIN Unwraps \/ Op \in {"JumpIfNot", "SetGlobal", "TESTYield", "WrapAny"}
  <2>1. Wanted = 1
    BY <1>12, WantedIs
  <2>2. Len(s) >= 1
    BY <1>5, <1>12 DEF Admits
  <2> QED
    BY <1>6, <2>1, <2>2
<1>13. CASE Op = "ValEqual"
  <2>1. Wanted = 2 /\ Len(s) >= 2
    BY <1>5, <1>13, WantedIs DEF Admits
  <2> QED
    BY <1>6, <2>1
<1>14. CASE Op \notin {"CallUser", "CallNative", "SetLocal", "Return", "JumpIfNot", "SetGlobal", "TESTYield",
                       "WrapAny", "ValEqual"} \cup DOMAIN Computing \cup DOMAIN Unwraps
  <2>1. Op \notin {"FieldGet", "FieldSet"}
    BY <1>5 DEF Admits
  <2>2. Wanted = 0
    BY <1>14, <2>1 DEF Wanted
  <2> QED
    BY <1>6, <2>2
<1> QED
  BY <1>8, <1>9, <1>10, <1>11, <1>12, <1>13, <1>14

\* A call finds the function that the verifier found, with arguments of the types
\* of its parameters.
LEMMA CalleeFound ==
  ASSUME NEW globals, NEW tables, NEW needs, Accepted(globals, tables, needs),
         NEW s, s = Expected(tables, Depth), Op \in {"CallUser", "CallNative"},
         NEW c, c = s[Len(s) - Arg].f
  PROVE  /\ Arg \in Nat /\ Len(s) >= Arg + 1 /\ Callee.v = c
         /\ Op = "CallUser" =>
               /\ Callee.t = "Function" /\ c \in DOMAIN program \ {MainId}
               /\ program[c].params = Variants(SubSeq(s, Len(s) - Arg + 1, Len(s)))
         /\ Op = "CallNative" =>
               /\ Callee.t = "NativeFunc" /\ c \in DOMAIN Natives /\ Accepts(Natives[c], Args)
<1>1. PICK k, effect, slots, args :
        /\ k = Top.function /\ effect = Effect(k, globals, Top.ip, s)
        /\ slots = (IF k = MainId THEN s ELSE globals)
        /\ args = SubSeq(s, Len(s) - Arg + 1, Len(s))
  OBVIOUS
<1>2. Admits(Op, Arg, k, s, Len(s), slots, effect)
  BY <1>1, EffectHere
<1>3. MachineOK /\ Top.ip < Len(Fn.code) /\ After <= Len(Fn.code)
  BY HereFacts
<1>4. Arg \in Nat
  BY <1>3, ReadableOperands DEF ByteOps
<1>5. Len(s) >= Arg + 1
  BY <1>2 DEF Admits
<1>6. HasType(Callee, s[Len(s) - Arg]) /\ Args \in Seq(KnownValues) /\ Len(Args) = Arg
      /\ IsSequence(args) /\ Len(args) = Arg
      /\ \A i \in 1..Arg : HasType(Args[i], args[i])
  BY <1>1, <1>4, <1>5, OwnArgs
<1>7. ASSUME Op = "CallUser"
      PROVE  /\ s[Len(s) - Arg].t = "Function" /\ c \in DOMAIN program \ {MainId} /\ c # 0
             /\ program[c].params = Variants(args)
  <2>1. s[Len(s) - Arg].t = "Function" /\ c \in DOMAIN program \ {MainId}
        /\ program[c].params = Variants(args)
    BY <1>1, <1>2, <1>7 DEF Admits
  <2>2. DOMAIN program = 1..Len(program)
    BY <1>3, LenProperties DEF MachineOK, IsProgram
  <2> QED
    BY <2>1, <2>2
<1>8. ASSUME Op = "CallNative"
      PROVE  /\ s[Len(s) - Arg].t = "NativeFunc" /\ c \in DOMAIN Natives /\ c # 0
             /\ Natives[c].builds \/ Natives[c].takes = Variants(args)
  <2>1. s[Len(s) - Arg].t = "NativeFunc" /\ c \in DOMAIN Natives
        /\ (Natives[c].builds \/ Natives[c].takes = Variants(args))
    BY <1>1, <1>2, <1>8 DEF Admits
  <2>2. DOMAIN Natives = 1..Len(Natives)
    BY RegistryAssumption
  <2> QED
    BY <2>1, <2>2
<1>9. Callee.v = c /\ Callee.t = s[Len(s) - Arg].t
  BY <1>6, <1>7, <1>8 DEF HasType
<1>10. ASSUME Op = "CallNative" PROVE Accepts(Natives[c], Args)
  <2>1. CASE Natives[c].builds
    BY <2>1 DEF Accepts
  <2>2. CASE Natives[c].takes = Variants(args)
    <3>1. PICK arg \in Nat : arg = Arg
      BY <1>4
    <3>2. DOMAIN args = 1..arg
      BY <1>6, <3>1, Places
    <3>3. Natives[c].takes = [i \in 1..arg |-> args[i].t]
      BY <2>2, <3>2 DEF Variants
    <3>4. Len(Natives[c].takes) = arg /\ DOMAIN Natives[c].takes = 1..arg
      BY <3>1, <3>3, FunctionIsSequence
    <3>5. \A i \in 1..arg : Args[i].t = Natives[c].takes[i]
      BY <1>6, <3>1, <3>3 DEF HasType
    <3> QED
      BY <1>6, <3>1, <3>4, <3>5 DEF Accepts
  <2> QED
    BY <1>8, <1>10, <2>1, <2>2
<1> QED
  BY <1>1, <1>4, <1>5, <1>7, <1>8, <1>9, <1>10

\* Nothing that the verifier accepts ends in one of the panics that the machine
\* does not guard against.
LEMMA NoFault ==
  ASSUME NEW globals, NEW tables, NEW needs, Accepted(globals, tables, needs)
  PROVE  Problem \notin Faults
<1>1. PICK s, k, ip, effect, slots :
        /\ s = Expected(tables, Depth) /\ k = Top.function /\ ip = Top.ip /\ effect = Effect(k, globals, ip, s)
        /\ slots = (IF k = MainId THEN s ELSE globals)
  OBVIOUS
<1>2. /\ MachineOK /\ ip \in Nat /\ Top.ip < Len(Fn.code) /\ After <= Len(Fn.code)
      /\ IsOp(Fn.code[Top.ip + 1]) /\ Op = Decode(Ip(k, ip)) /\ Fn = program[k]
      /\ \A next \in Successors(k, ip) : next \in 0..(Len(Fn.code) - 1)
  BY <1>1, HereFacts
<1>3. /\ Op \in ByteOps \cup ShortOps => Arg \in Byte /\ Arg \in Nat
      /\ After \in Nat /\ Len(Fn.code) \in Nat
  BY <1>2, ReadableOperands, TopFacts
<1>4. Admits(Op, Arg, k, s, Len(s), slots, effect)
  BY <1>1, EffectHere
<1>5. /\ Len(s) \in Nat /\ Len(stack) \in Nat /\ Top.stack_bottom \in Nat
      /\ Top.stack_bottom + Len(s) = Len(stack)
  BY <1>1, OwnFacts
<1>6. Wanted \in Nat /\ Wanted <= Len(s)
  BY <1>1, FindsOperands
<1>7. Problem \in {"stack_overflow", Refusal}
  <2>1. ~(Top.ip >= Len(Fn.code)) /\ ~(After > Len(Fn.code))
    BY <1>1, <1>2, <1>3
  <2>2. ~(Len(stack) < Wanted)
    BY <1>5, <1>6
  <2> QED
    BY <1>2, <2>1, <2>2 DEF Problem
<1>8. ASSUME Op \in {"Jump", "JumpIfNot"} PROVE ~(After + Offset < 0)
  <2>1. After + Offset \in Successors(k, ip)
    BY <1>1, <1>2, <1>8, SuccessorsAre
  <2>2. PICK target : target = After + Offset
    OBVIOUS
  <2>3. target \in 0..(Len(Fn.code) - 1)
    BY <1>2, <2>1, <2>2
  <2> QED
    BY <1>3, <2>2, <2>3
<1>9. ASSUME Op = "JumpIfNot" \/ Op \in DOMAIN Unwraps
      PROVE  Peek(0).t = IF Op = "JumpIfNot" THEN "Bool" ELSE "Any"
  <2>1. Len(s) >= 1 /\ s[Len(s)].t = IF Op = "JumpIfNot" THEN "Bool" ELSE "Any"
    BY <1>4, <1>9, UnwrapsAre DEF Admits
  <2>2. HasType(Peek(0), s[Len(s) - 0])
    BY <1>1, <1>5, <2>1, OwnPeek
  <2>3. Len(s) - 0 = Len(s)
    BY <1>5
  <2> QED
    BY <2>1, <2>2, <2>3 DEF HasType
<1>10. ASSUME Op \in {"GetLocal", "SetLocal"} PROVE ~(LocalSlot >= Len(stack))
  <2>1. PICK arg \in Nat : arg = Arg
    BY <1>3, <1>10 DEF ByteOps
  <2>2. Len(s) >= arg + 1
    BY <1>4, <1>10, <2>1 DEF Admits
  <2> QED
    BY <1>5, <2>1, <2>2 DEF LocalSlot
<1>11. ASSUME Op \in {"GetGlobal", "SetGlobal"} PROVE ~(Arg >= Len(stack))
  <2>1. PICK arg \in Nat : arg = Arg /\ arg \in Byte
    BY <1>3, <1>11 DEF ByteOps
  <2>2. Len(slots) > arg
    BY <1>4, <1>11, <2>1 DEF Admits
  <2>3. Arg < Len(slots)
    BY <2>1, <2>2
  <2>4. arg + 1 \in 1..Len(stack)
    BY <1>1, <1>11, <2>1, <2>3, GlobalSlot
  <2> QED
    BY <1>5, <2>1, <2>4
<1>12. ASSUME Op = "Constant" PROVE ~(Arg >= Len(Fn.constants))
  <2>1. PICK arg \in Nat : arg = Arg
    BY <1>3, <1>12 DEF ByteOps
  <2>2. arg < Len(Fn.constants)
    BY <1>2, <1>4, <1>12, <2>1 DEF Admits
  <2>3. Len(Fn.constants) \in Nat
    BY <1>2, TopFacts
  <2> QED
    BY <2>1, <2>2, <2>3
<1>13. ASSUME Op \in {"CallUser", "CallNative"}
       PROVE  /\ Op = "CallUser" => Callee.t = "Function"
              /\ Op = "CallNative" => Callee.t = "NativeFunc" /\ Accepts(Natives[Callee.v], Args)
  BY <1>1, <1>13, CalleeFound
<1>14. ASSUME Op \in DOMAIN Computing, NEW i \in DOMAIN Computing[Op].takes
       PROVE  Computing[Op].takes[i] = Peek(Len(Computing[Op].takes) - i).t
  <2>1. PICK m \in {1, 2} : m = Len(Computing[Op].takes) /\ i \in 1..m
    BY <1>14, TakesOneOrTwo
  <2>2. Len(s) >= m /\ s[Len(s) - m + i].t = Computing[Op].takes[i]
    BY <1>4, <1>14, <2>1 DEF Admits
  <2>3. m - i \in Nat /\ m - i < Len(s)
    BY <1>5, <2>1, <2>2
  <2>4. HasType(Peek(m - i), s[Len(s) - (m - i)])
    BY <1>1, <2>3, OwnPeek
  <2>5. Len(s) - (m - i) = Len(s) - m + i
    BY <1>5, <2>1
  <2> QED
    BY <2>1, <2>2, <2>4, <2>5 DEF HasType
<1>15. Op \notin {"FieldGet", "FieldSet"}
  BY <1>4 DEF Admits
<1>16. Refusal \notin Faults
  <2> SUFFICES ASSUME Refusal \in Faults PROVE FALSE
    OBVIOUS
  <2>1. CASE Op = "JumpIfNot" /\ (Peek(0).t # "Bool" \/ After + Offset < 0)
    BY <1>8, <1>9, <2>1
  <2>2. CASE Op = "Jump" /\ After + Offset < 0
    BY <1>8, <2>2
  <2>3. CASE \/ Op = "CallUser" /\ Callee.t # "Function"
             \/ Op = "CallNative" /\ (Callee.t # "NativeFunc" \/ ~Accepts(Natives[Callee.v], Args))
    BY <1>13, <2>3
  <2>4. CASE \/ Op \in {"GetLocal", "SetLocal"} /\ LocalSlot >= Len(stack)
             \/ Op \in {"GetGlobal", "SetGlobal"} /\ Arg >= Len(stack)
             \/ Op = "Constant" /\ Arg >= Len(Fn.constants)
    BY <1>10, <1>11, <1>12, <2>4
  <2>5. CASE Op \in DOMAIN Unwraps /\ Peek(0).t # "Any"
    BY <1>9, <2>5, UnwrapsAre
  <2>6. CASE /\ Op \in DOMAIN Computing
             /\ \E i \in DOMAIN Computing[Op].takes :
                   Computing[Op].takes[i] # Peek(Len(Computing[Op].takes) - i).t
    BY <1>14, <2>6
  <2> QED
    BY <1>15, <2>1, <2>2, <2>3, <2>4, <2>5, <2>6, RefusedFor
<1> QED
  BY <1>7, <1>16 DEF Faults

\* The verifier's conditions are about the program alone.
LEMMA SameEffect ==
  ASSUME program' = program, NEW k, NEW globals, NEW ip, NEW s
  PROVE  /\ Ip(k, ip)' = Ip(k, ip) /\ Effect(k, globals, ip, s)' = Effect(k, globals, ip, s)
         /\ Successors(k, ip)' = Successors(k, ip)
         /\ Readable(k, ip)' <=> Readable(k, ip)
<1>1. \A i : Ip(k, i)' = Ip(k, i)
  BY DEF Ip
<1>2. MainId' = MainId
  BY DEF MainId
<1>3. Effect(k, globals, ip, s)' = Effect(k, globals, ip, s)
  BY <1>1, <1>2 DEF Effect
<1>4. Successors(k, ip)' = Successors(k, ip)
  BY <1>1 DEF Successors
<1>5. Readable(k, ip)' <=> Readable(k, ip)
  BY <1>1 DEF Readable
<1> QED
  BY <1>1, <1>3, <1>4, <1>5

\* A function is entered with the same types, as long as the program is the same.
LEMMA SameEntry ==
  ASSUME program' = program, NEW k
  PROVE  Entry(k)' = Entry(k)
<1>1. MainId' = MainId
  BY DEF MainId
<1> QED
  BY <1>1 DEF Entry

\* The tables of the verifier stay right with it.
LEMMA SameTables ==
  ASSUME program' = program, NEW globals, NEW tables, TablesOK(globals, tables)
  PROVE  TablesOK(globals, tables)'
<1>1. ASSUME NEW k, FunctionOK(k, globals, tables[k])
      PROVE  FunctionOK(k, globals, tables[k])'
  BY <1>1, SameEffect, SameEntry DEF FunctionOK
<1> QED
  BY <1>1 DEF TablesOK

\* So does what each function needs of the globals.
LEMMA SameNeeds ==
  ASSUME program' = program, NEW globals, NEW tables, NEW needs, NeedsOK(globals, tables, needs)
  PROVE  NeedsOK(globals, tables, needs)'
<1>1. MainId' = MainId
  BY DEF MainId
<1>2. \A k, ip : Ip(k, ip)' = Ip(k, ip) /\ (Readable(k, ip)' <=> Readable(k, ip))
  BY SameEffect
<1>3. \A k, table, ops : Reached(k, table, ops)' = Reached(k, table, ops)
  BY <1>2 DEF Reached
<1>4. \A k, table, ip : CalledAt(k, table, ip)' = CalledAt(k, table, ip)
  BY <1>2 DEF CalledAt
<1>5. \A k, table : Touches(k, table)' = Touches(k, table) /\ Calls(k, table)' = Calls(k, table)
  BY <1>2, <1>3, <1>4 DEF Touches, Calls
<1>6. Covers(tables, needs)'
  BY <1>1, <1>5 DEF NeedsOK, Covers
<1>7. MainReady(globals, tables[MainId], needs)'
  BY <1>1, <1>2, <1>3, <1>4 DEF NeedsOK, MainReady
<1> QED
  BY <1>1, <1>6, <1>7 DEF NeedsOK

\* The tables stay where only the stack changes.
LEMMA FramesFacts ==
  ASSUME NEW globals, NEW tables, NEW needs, Accepted(globals, tables, needs)
  PROVE  /\ MachineOK /\ ScriptFirst /\ Reaches(tables) /\ Stacked(tables) /\ Typed(tables) /\ Waits(tables)
         /\ GlobalsThere(globals, tables, needs) /\ TablesOK(globals, tables)
         /\ Covers(tables, needs) /\ MainReady(globals, tables[MainId], needs)
         /\ NeedsOK(globals, tables, needs)
         /\ Depth \in Nat \ {0} /\ Depth \in 1..Depth /\ 1 \in 1..Depth
         /\ \A i \in 1..Depth : /\ Bottom(i) \in Nat /\ EndOf(i) \in Nat
                                /\ IsSequence(Held(tables, i)) /\ Len(Held(tables, i)) \in Nat
                                /\ Bottom(i) + Len(Held(tables, i)) = EndOf(i)
                                /\ EndOf(i) <= Len(stack)
                                /\ i < Depth => EndOf(i) <= Top.stack_bottom
<1>1. /\ MachineOK /\ ScriptFirst /\ Reaches(tables) /\ Stacked(tables) /\ Typed(tables) /\ Waits(tables)
      /\ GlobalsThere(globals, tables, needs) /\ TablesOK(globals, tables)
      /\ Covers(tables, needs) /\ MainReady(globals, tables[MainId], needs)
      /\ NeedsOK(globals, tables, needs)
  BY DEF Accepted, FramesOK, NeedsOK
<1>2. /\ Depth \in Nat \ {0} /\ Depth \in 1..Depth /\ 1 \in 1..Depth /\ Len(stack) \in Nat
      /\ Top = call_stack[Depth]
  BY <1>1, TopFacts
<1>3. \A i \in 1..Depth : call_stack[i] \in FrameSet
  BY <1>1, ElementOfSeq DEF MachineOK, Depth
<1>4. ASSUME NEW i \in 1..Depth
      PROVE  /\ Bottom(i) \in Nat /\ EndOf(i) \in Nat
             /\ IsSequence(Held(tables, i)) /\ Len(Held(tables, i)) \in Nat
             /\ Bottom(i) + Len(Held(tables, i)) = EndOf(i)
             /\ EndOf(i) <= Len(stack)
             /\ i < Depth => EndOf(i) <= Top.stack_bottom
  <2>1. Bottom(i) \in Nat
    BY <1>3 DEF Bottom, FrameSet
  <2>2. Bottom(i) + Len(Held(tables, i)) = EndOf(i)
    BY <1>1 DEF Stacked
  <2>3. CASE i = Depth
    <3>1. EndOf(i) = Len(stack)
      BY <1>2, <2>3 DEF EndOf
    <3>2. Held(tables, i) = Expected(tables, i)
      BY <1>2, <2>3 DEF Held
    <3>3. IsSequence(Held(tables, i))
      BY <1>1, <3>2 DEF Reaches
    <3> QED
      BY <1>2, <2>1, <2>2, <2>3, <3>1, <3>3, Places
  <2>4. CASE i < Depth
    <3>1. i + 1 \in 1..Depth /\ EndOf(i) = Bottom(i + 1) /\ i \in 1..(Depth - 1)
      BY <1>2, <2>4 DEF EndOf
    <3>2. EndOf(i) \in Nat
      BY <1>3, <3>1 DEF Bottom, FrameSet
    <3>3. Held(tables, i) = Front(Expected(tables, i)) /\ Expected(tables, i) # <<>>
      BY <1>1, <2>4, <3>1 DEF Held, Waits
    <3>4. IsSequence(Held(tables, i))
      BY <1>1, <3>3, Popped DEF Reaches
    <3>5. EndOf(i) <= Top.stack_bottom
      BY <1>1, <1>2, <2>4 DEF Stacked, Bottom
    <3>6. Top.stack_bottom + Len(Expected(tables, Depth)) = Len(stack) /\ Len(Expected(tables, Depth)) \in Nat
          /\ Top.stack_bottom \in Nat
      BY OwnFacts
    <3>7. EndOf(i) <= Len(stack)
      BY <1>2, <3>2, <3>5, <3>6
    <3> QED
      BY <2>1, <2>2, <2>4, <3>2, <3>4, <3>5, <3>7, Places
  <2> QED
    BY <1>2, <2>3, <2>4
<1> QED
  BY <1>1, <1>2, <1>4

\* The stack above b holds values of these types; the activations below the one
\* that runs keep theirs.
EndsTyped(b, types) ==
    /\ Len(stack) = b + Len(types)
    /\ \A j \in 1..Len(types) : HasType(stack[b + j], types[j])
BelowKept(tables) ==
    \A i \in 1..(Depth - 1) : \A j \in 1..Len(Held(tables, i)) :
        HasType(stack'[Bottom(i) + j], Held(tables, i)[j])

\* What an instruction does to the types that hold: the activation that runs
\* holds the instruction's effect, the others hold what they held.
LEMMA StepKeeps ==
  ASSUME NEW globals, NEW tables, NEW needs, Accepted(globals, tables, needs),
         MachineOK', program' = program,
         NEW k, k = Top.function, NEW ip, ip = Top.ip, NEW s, s = Expected(tables, Depth),
         NEW effect, effect = Effect(k, globals, ip, s), IsSequence(effect),
         NEW next, next \in Successors(k, ip), MoveTo(next),
         NEW b, b = Top.stack_bottom, EndsTyped(b, effect)', BelowKept(tables)
  PROVE  Accepted(globals, tables, needs)'
<1>1. /\ MachineOK /\ ScriptFirst /\ Reaches(tables) /\ Stacked(tables) /\ Typed(tables) /\ Waits(tables)
      /\ GlobalsThere(globals, tables, needs) /\ TablesOK(globals, tables)
      /\ NeedsOK(globals, tables, needs)
      /\ Depth \in Nat \ {0} /\ Depth \in 1..Depth /\ 1 \in 1..Depth
      /\ \A i \in 1..Depth : /\ Bottom(i) \in Nat /\ EndOf(i) \in Nat
                             /\ i < Depth => EndOf(i) <= Top.stack_bottom
  BY FramesFacts
<1>2. next \in 0..(Len(Fn.code) - 1) /\ tables[k][next + 1] = effect /\ Fn = program[k]
      /\ next \in Nat /\ effect # Dead /\ Top = call_stack[Depth] /\ Len(Fn.code) \in Nat
  BY <1>1, HereFacts, TopFacts
<1>3. /\ Depth' = Depth
      /\ \A i \in 1..Depth : /\ call_stack'[i].function = call_stack[i].function
                             /\ call_stack'[i].stack_bottom = call_stack[i].stack_bottom
                             /\ call_stack'[i].ip = IF i = Depth THEN next ELSE call_stack[i].ip
  BY <1>1, <1>2, Moved DEF Depth
<1>4. MainId' = MainId
  BY DEF MainId
<1>5. /\ Len(stack') = b + Len(effect)
       /\ \A j \in 1..Len(effect) : HasType(stack'[b + j], effect[j])
  BY DEF EndsTyped, HasType
<1>6. \A i \in 1..(Depth - 1) : \A j \in 1..Len(Held(tables, i)) :
         HasType(stack'[Bottom(i) + j], Held(tables, i)[j])
  BY DEF BelowKept
<1>7. \A i \in 1..Depth : /\ Bottom(i)' = Bottom(i)
                          /\ Expected(tables, i)' = IF i = Depth THEN effect ELSE Expected(tables, i)
                          /\ Held(tables, i)' = IF i = Depth THEN effect ELSE Held(tables, i)
                          /\ EndOf(i)' = IF i = Depth THEN Len(stack') ELSE EndOf(i)
  <2> TAKE i \in 1..Depth
  <2>1. Bottom(i)' = Bottom(i)
    BY <1>3 DEF Bottom
  <2>2. Expected(tables, i)' = IF i = Depth THEN effect ELSE Expected(tables, i)
    BY <1>2, <1>3 DEF Expected
  <2>3. Held(tables, i)' = IF i = Depth THEN effect ELSE Held(tables, i)
    BY <1>1, <1>3, <2>2 DEF Held
  <2>4. EndOf(i)' = IF i = Depth THEN Len(stack') ELSE EndOf(i)
    <3>1. i < Depth => i + 1 \in 1..Depth
      BY <1>1
    <3> QED
      BY <1>1, <1>3, <3>1 DEF EndOf, Bottom
  <2> QED
    BY <2>1, <2>2, <2>3, <2>4
<1>8. ScriptFirst'
  BY <1>1, <1>3, <1>4, <1>7 DEF ScriptFirst
<1>9. Reaches(tables)'
  <2> SUFFICES ASSUME NEW i \in 1..Depth
               PROVE  /\ IsSequence(Expected(tables, i))' /\ (Expected(tables, i))' # Dead
                      /\ call_stack'[i].ip < Len(program'[call_stack'[i].function].code)
    BY <1>3 DEF Reaches
  <2>1. CASE i = Depth
    BY <1>2, <1>3, <1>7, <2>1 DEF IsSequence
  <2>2. CASE i # Depth
    BY <1>1, <1>3, <1>7, <2>2 DEF Reaches, IsSequence
  <2> QED
    BY <2>1, <2>2
<1>10. Stacked(tables)'
  <2>1. \A i \in 1..Depth : Bottom(i)' + Len(Held(tables, i)') = EndOf(i)'
    BY <1>1, <1>2, <1>7, <1>5 DEF Stacked, Bottom
  <2>2. \A i, j \in 1..Depth : i < j => EndOf(i)' <= Bottom(j)'
    <3> TAKE i, j \in 1..Depth
    <3>1. i < j => i # Depth
      BY <1>1
    <3> QED
      BY <1>1, <1>7, <3>1 DEF Stacked
  <2> QED
    BY <1>3, <2>1, <2>2 DEF Stacked
<1>11. Typed(tables)'
  <2> SUFFICES ASSUME NEW i \in 1..Depth, NEW j \in 1..Len(Held(tables, i)')
               PROVE  HasType(stack'[Bottom(i)' + j], Held(tables, i)'[j])
    BY <1>3 DEF Typed, HasType
  <2>1. CASE i = Depth
    BY <1>2, <1>7, <1>5, <2>1 DEF Bottom
  <2>2. CASE i # Depth
    <3>1. i \in 1..(Depth - 1)
      BY <1>1, <2>2
    <3> QED
      BY <1>7, <1>6, <2>2, <3>1
  <2> QED
    BY <2>1, <2>2
<1>12. Waits(tables)'
  <2> SUFFICES ASSUME NEW i \in 1..(Depth - 1)
               PROVE  /\ Expected(tables, i)' # <<>>
                      /\ Last(Expected(tables, i)') = Of(program[call_stack'[i + 1].function].ret_type)
    BY <1>3 DEF Waits, Of, Last
  <2>1. i \in 1..Depth /\ i # Depth /\ i + 1 \in 1..Depth
    BY <1>1
  <2> QED
    BY <1>1, <1>3, <1>7, <2>1 DEF Waits
<1>13. GlobalsThere(globals, tables, needs)'
  <2> SUFFICES ASSUME NEW i \in 2..Depth, NEW g \in Byte, g \in needs[call_stack'[i].function]
               PROVE  g < Len(Held(tables, 1)') /\ Held(tables, 1)'[g + 1] = globals[g + 1]
    BY <1>3 DEF GlobalsThere, Byte
  <2>1. i \in 1..Depth /\ 1 # Depth
    BY <1>1
  <2>2. Held(tables, 1)' = Held(tables, 1) /\ g \in needs[call_stack[i].function]
    BY <1>1, <1>3, <1>7, <2>1
  <2> QED
    BY <1>1, <2>2 DEF GlobalsThere
<1> QED
  BY <1>1, <1>8, <1>9, <1>10, <1>11, <1>12, <1>13, SameTables, SameNeeds DEF Accepted, FramesOK

\* Values of the types, one by one.
Fits(values, types) == Len(types) = Len(values) /\ \A j \in 1..Len(types) : HasType(values[j], types[j])
FitAbove(values, b, types) ==
    /\ Len(values) = b + Len(types)
    /\ \A j \in 1..Len(types) : HasType(values[b + j], types[j])

\* Other values with other types at the end.
LEMMA FittingEnd ==
  ASSUME NEW old, NEW new, NEW s, NEW effect, NEW values, NEW types, Fits(values, types), IsSequence(types),
         NEW b \in Nat, NEW c \in Nat, NEW d \in Nat, d = b + c, c <= Len(s), FitAbove(old, b, s), Len(s) \in Nat,
         EndsWith(effect, s, c, types), EndsWith(new, old, d, values)
  PROVE  FitAbove(new, b, effect)
<1>1. /\ Len(effect) = c + Len(types)
      /\ \A i \in 1..c : effect[i] = s[i]
      /\ \A i \in 1..Len(types) : effect[c + i] = types[i]
  BY DEF EndsWith
<1>2. /\ Len(new) = d + Len(values)
      /\ \A i \in 1..d : new[i] = old[i]
      /\ \A i \in 1..Len(values) : new[d + i] = values[i]
  BY DEF EndsWith
<1>3. \A j \in 1..Len(s) : HasType(old[b + j], s[j])
  BY DEF FitAbove
<1>4. PICK l \in Nat : l = Len(types) /\ l = Len(values)
  BY Places DEF Fits
<1>5. \A j \in 1..l : HasType(values[j], types[j])
  BY <1>4 DEF Fits
<1>6. ASSUME NEW j \in 1..Len(effect) PROVE HasType(new[b + j], effect[j])
  <2>1. CASE j <= c
    <3>1. j \in 1..c /\ b + j \in 1..d /\ j \in 1..Len(s)
      BY <1>1, <1>4, <2>1
    <3> QED
      BY <1>1, <1>2, <1>3, <3>1
  <2>2. CASE ~(j <= c)
    <3>1. PICK i \in 1..l : i = j - c
      BY <1>1, <1>4, <2>2
    <3>2. b + j = d + i /\ j = c + i
      BY <1>1, <1>4, <3>1
    <3>3. new[d + i] = values[i] /\ effect[c + i] = types[i] /\ HasType(values[i], types[i])
      BY <1>1, <1>2, <1>4, <1>5
    <3> QED
      BY <3>2, <3>3
  <2> QED
    BY <2>1, <2>2
<1>7. Len(new) = b + Len(effect)
  BY <1>1, <1>2, <1>4
<1> QED
  BY <1>6, <1>7 DEF FitAbove

\* The activations below keep their values where the stack below does not change.
LEMMA BelowTyped ==
  ASSUME NEW globals, NEW tables, NEW needs, Accepted(globals, tables, needs),
         \A j \in 1..Top.stack_bottom : stack'[j] = stack[j]
  PROVE  BelowKept(tables)
<1> SUFFICES ASSUME NEW i \in 1..(Depth - 1), NEW j \in 1..Len(Held(tables, i))
             PROVE  HasType(stack'[Bottom(i) + j], Held(tables, i)[j])
  BY DEF BelowKept
<1>1. Depth \in Nat /\ Typed(tables)
  BY FramesFacts
<1>2. i \in 1..Depth /\ i < Depth
  BY <1>1
<1>3. /\ Bottom(i) \in Nat /\ Len(Held(tables, i)) \in Nat /\ EndOf(i) \in Nat
      /\ Bottom(i) + Len(Held(tables, i)) = EndOf(i) /\ EndOf(i) <= Top.stack_bottom
      /\ Top.stack_bottom \in Nat
  BY <1>2, FramesFacts, OwnFacts
<1>4. Bottom(i) + j \in 1..Top.stack_bottom
  BY <1>3
<1>5. HasType(stack[Bottom(i) + j], Held(tables, i)[j])
  BY <1>1, <1>2 DEF Typed
<1> QED
  BY <1>4, <1>5

\* An instruction that puts values of the types that the verifier expects in the
\* place of the topmost ones.
LEMMA ReplaceTyped ==
  ASSUME NEW globals, NEW tables, NEW needs, Accepted(globals, tables, needs), MachineOK', program' = program,
         NEW s, s = Expected(tables, Depth), NEW k, k = Top.function, NEW ip, ip = Top.ip,
         NEW effect, effect = Effect(k, globals, ip, s),
         NEW next, next \in Successors(k, ip), MoveTo(next),
         NEW values, NEW types, IsSequence(types), Fits(values, types),
         NEW c \in Nat, c <= Len(s), EndsWith(effect, s, c, types),
         NEW d, d = Top.stack_bottom + c, EndsWith(stack', stack, d, values)
  PROVE  Accepted(globals, tables, needs)'
<1>1. PICK b, old, new : b = Top.stack_bottom /\ old = stack /\ new = stack'
  OBVIOUS
<1>2. b \in Nat /\ d \in Nat /\ d = b + c /\ Len(s) \in Nat
  BY <1>1, OwnFacts
<1>3. FitAbove(old, b, s)
  <2>1. b + Len(s) = Len(old) /\ \A j \in 1..Len(s) : HasType(old[b + j], s[j])
    BY <1>1, OwnFacts
  <2> QED
    BY <2>1 DEF FitAbove
<1>4. EndsWith(new, old, d, values)
  BY <1>1
<1>5. FitAbove(new, b, effect)
  BY <1>2, <1>3, <1>4, FittingEnd
<1>6. EndsTyped(b, effect)'
  BY <1>1, <1>5 DEF FitAbove, EndsTyped, HasType
<1>7. BelowKept(tables)
  <2>1. \A j \in 1..d : new[j] = old[j]
    BY <1>4 DEF EndsWith
  <2>2. \A j \in 1..Top.stack_bottom : stack'[j] = stack[j]
    <3> TAKE j \in 1..Top.stack_bottom
    <3>1. j \in 1..b
      BY <1>1
    <3>2. j \in 1..d
      BY <1>2, <3>1
    <3> QED
      BY <1>1, <2>1, <3>2
  <2> QED
    BY <2>2, BelowTyped
<1>8. IsSequence(effect)
  BY DEF EndsWith
<1> QED
  BY <1>1, <1>6, <1>7, <1>8, StepKeeps

\* An instruction that leaves other values in the place of the topmost ones.
LEMMA ReplaceAccepted ==
  ASSUME NEW globals, NEW tables, NEW needs, Accepted(globals, tables, needs), MachineOK', Same,
         NEW next, next \in Successors(Top.function, Top.ip), MoveTo(next),
         NEW s, s = Expected(tables, Depth),
         NEW effect, effect = Effect(Top.function, globals, Top.ip, s),
         NEW n, n \in Nat, n <= Len(s),
         NEW values, NEW types, IsSequence(values), IsSequence(types), Fits(values, types),
         EndsWith(effect, s, Len(s) - n, types), stack' = Drop(n) \o values
  PROVE  Accepted(globals, tables, needs)'
<1>1. PICK k, ip : k = Top.function /\ ip = Top.ip
  OBVIOUS
<1>2. next \in Successors(k, ip) /\ MoveTo(next)
  BY <1>1
<1>3. /\ Len(s) \in Nat /\ Top.stack_bottom \in Nat /\ Len(stack) \in Nat
      /\ Top.stack_bottom + Len(s) = Len(stack)
  BY OwnFacts
<1>4. PICK c \in Nat : c = Len(s) - n
  <2>1. Len(s) - n \in Nat
    BY <1>3
  <2> QED
    BY <2>1
<1>5. PICK d \in Nat : d = Top.stack_bottom + c
  BY <1>3, <1>4
<1>6. d = Len(stack) - n /\ d \in 0..Len(stack) /\ c <= Len(s)
  BY <1>3, <1>4, <1>5
<1>7. EndsWith(stack', stack, d, values)
  <2>1. IsSequence(stack)
    BY SeqIsSequence DEF Accepted, MachineOK
  <2>2. stack' = SubSeq(stack, 1, d) \o values
    BY <1>6 DEF Drop
  <2>3. EndsWith(SubSeq(stack, 1, d) \o values, stack, d, values)
    BY <1>6, <2>1, EndReplaced
  <2> QED
    BY <2>2, <2>3
<1>8. program' = program /\ effect = Effect(k, globals, ip, s) /\ EndsWith(effect, s, c, types)
  BY <1>1, <1>4 DEF Same
<1> QED
  BY <1>1, <1>2, <1>5, <1>6, <1>7, <1>8, ReplaceTyped

\* The same for one value, or none.
LEMMA OneAccepted ==
  ASSUME NEW globals, NEW tables, NEW needs, Accepted(globals, tables, needs), MachineOK',
         Op \notin {"Return", "Crash", "Jump"} \cup Unwritten, NEW s, s = Expected(tables, Depth),
         NEW effect, effect = Effect(Top.function, globals, Top.ip, s),
         NEW n, n \in Nat, n <= Len(s), NEW x, NEW t, HasType(x, t),
         effect = SubSeq(s, 1, Len(s) - n) \o <<t>> \/ (n = 0 /\ effect = Append(s, t)), Replace(n, <<x>>)
  PROVE  Accepted(globals, tables, needs)'
<1>1. PICK values, types : values = <<x>> /\ types = <<t>>
  OBVIOUS
<1>2. IsSequence(values) /\ IsSequence(types) /\ Fits(values, types)
  <2>1. IsSequence(values) /\ Len(values) = 1 /\ values[1] = x
    BY <1>1, SmallSequences
  <2>2. IsSequence(types) /\ Len(types) = 1 /\ types[1] = t
    BY <1>1, SmallSequences
  <2>3. Len(types) = Len(values) /\ \A j \in 1..Len(types) : HasType(values[j], types[j])
    BY <2>1, <2>2
  <2> QED
    BY <2>1, <2>2, <2>3 DEF Fits
<1>3. IsSequence(s) /\ Len(s) \in Nat
  BY OwnFacts
<1>4. EndsWith(effect, s, Len(s) - n, types)
  <2>1. CASE effect = SubSeq(s, 1, Len(s) - n) \o <<t>>
    <3>1. PICK c \in 0..Len(s) : c = Len(s) - n
      <4>1. Len(s) - n \in 0..Len(s)
        BY <1>3
      <4> QED
        BY <4>1
    <3> QED
      BY <1>1, <1>2, <1>3, <2>1, <3>1, EndReplaced
  <2>2. CASE n = 0 /\ effect = Append(s, t)
    <3>1. Len(s) - n = Len(s)
      BY <1>3, <2>2
    <3> QED
      BY <1>1, <1>3, <2>2, <3>1, EndAppended
  <2> QED
    BY <2>1, <2>2
<1>5. stack' = Drop(n) \o values /\ MoveTo(After) /\ Same
  BY <1>1 DEF Replace
<1>6. After \in Successors(Top.function, Top.ip)
  BY HereFacts, SuccessorsAre
<1> QED
  BY <1>2, <1>4, <1>5, <1>6, ReplaceAccepted

\* An instruction that leaves no value keeps what the verifier accepts.
LEMMA NoneAccepted ==
  ASSUME NEW globals, NEW tables, NEW needs, Accepted(globals, tables, needs), MachineOK',
         Op \notin {"Return", "Crash", "Jump"} \cup Unwritten, NEW s, s = Expected(tables, Depth),
         NEW effect, effect = Effect(Top.function, globals, Top.ip, s),
         NEW n, n \in Nat, n <= Len(s),
         effect = SubSeq(s, 1, Len(s) - n) \/ (n = 0 /\ effect = s), Replace(n, <<>>)
  PROVE  Accepted(globals, tables, needs)'
<1>1. PICK values : values = <<>>
  OBVIOUS
<1>2. IsSequence(values) /\ Fits(values, values)
  <2>1. IsSequence(values) /\ Len(values) = 0
    BY <1>1, SmallSequences
  <2>2. Len(values) = Len(values) /\ \A j \in 1..Len(values) : HasType(values[j], values[j])
    BY <2>1
  <2> QED
    BY <2>1, <2>2 DEF Fits
<1>3. IsSequence(s) /\ Len(s) \in Nat
  BY OwnFacts
<1>4. EndsWith(effect, s, Len(s) - n, values)
  <2>1. CASE effect = SubSeq(s, 1, Len(s) - n)
    <3>1. PICK c \in 0..Len(s) : c = Len(s) - n
      <4>1. Len(s) - n \in 0..Len(s)
        BY <1>3
      <4> QED
        BY <4>1
    <3> QED
      BY <1>1, <1>3, <2>1, <3>1, EndDropped
  <2>2. CASE n = 0 /\ effect = s
    <3>1. Len(s) - n = Len(s)
      BY <1>3, <2>2
    <3> QED
      BY <1>1, <1>3, <2>2, <3>1, EndKept
  <2> QED
    BY <2>1, <2>2
<1>5. stack' = Drop(n) \o values /\ MoveTo(After) /\ Same
  BY <1>1 DEF Replace
<1>6. After \in Successors(Top.function, Top.ip)
  BY HereFacts, SuccessorsAre
<1> QED
  BY <1>2, <1>4, <1>5, <1>6, ReplaceAccepted

\* A value has the type that names its variant, and a constant its own.
LEMMA HasOwnType ==
  ASSUME NEW x
  PROVE  HasType(x, Of(x.t)) /\ HasType(x, TypeOfValue(x))
BY DEF HasType, Of, TypeOfValue

\* Literals, constants and input have the types that the verifier gives them.
LEMMA PushAccepted ==
  ASSUME NEW globals, NEW tables, NEW needs, Accepted(globals, tables, needs), MachineOK',
         Pass \/ PushLiteral \/ TESTTakeInput
  PROVE  Accepted(globals, tables, needs)'
<1>1. PICK s, k, effect, slots :
        /\ s = Expected(tables, Depth) /\ k = Top.function /\ effect = Effect(k, globals, Top.ip, s)
        /\ slots = (IF k = MainId THEN s ELSE globals)
  OBVIOUS
<1>2. Admits(Op, Arg, k, s, Len(s), slots, effect) /\ effect = Effect(Top.function, globals, Top.ip, s)
  BY <1>1, EffectHere
<1>3. 0 \in Nat /\ 0 <= Len(s)
  BY <1>1, OwnFacts
<1>4. MachineOK /\ Fn = program[k]
  BY <1>1, HereFacts
<1>5. CASE Pass
  <2>1. Op = "Pass" /\ Replace(0, <<>>)
    BY <1>4, <1>5, IsExecutable DEF Pass
  <2>2. effect = s
    BY <1>2, <2>1 DEF Admits
  <2> QED
    BY <1>1, <1>2, <1>3, <2>1, <2>2, NoneAccepted DEF Unwritten
<1>6. CASE PushLiteral
  <2>1. PICK x : /\ x = CASE Op = "None" -> NoneVal
                       [] Op = "True" -> BoolVal(TRUE)
                       [] Op = "False" -> BoolVal(FALSE)
                       [] Op = "LoadByte" -> Val("Int", Signed8(Arg))
                       [] Op = "Constant" -> Fn.constants[Arg + 1]
                 /\ Replace(0, <<x>>)
    BY <1>6 DEF PushLiteral
  <2>2. Op \in {"None", "True", "False", "LoadByte", "Constant"}
    BY <1>4, <1>6, IsExecutable DEF PushLiteral
  <2>3. PICK t : HasType(x, t) /\ effect = Append(s, t)
    <3>1. CASE Op = "None"
      <4>1. x = NoneVal /\ effect = Append(s, Of("None"))
        BY <1>2, <2>1, <3>1, Zenon DEF Admits
      <4> QED
        BY <4>1, HasOwnType DEF NoneVal, Val
    <3>2. CASE Op \in {"True", "False"}
      <4>1. x \in {BoolVal(TRUE), BoolVal(FALSE)}
        BY <2>1, <3>2, Zenon
      <4>2. effect = Append(s, Of("Bool"))
        BY <1>2, <3>2 DEF Admits
      <4>3. x.t = "Bool"
        BY <4>1 DEF BoolVal, Val
      <4> QED
        BY <4>2, <4>3, HasOwnType
    <3>3. CASE Op = "LoadByte"
      <4>1. x = Val("Int", Signed8(Arg)) /\ effect = Append(s, Of("Int"))
        BY <1>2, <2>1, <3>3, Zenon DEF Admits
      <4> QED
        BY <4>1, HasOwnType DEF Val
    <3>4. CASE Op = "Constant"
      <4>1. x = Fn.constants[Arg + 1]
        BY <2>1, <3>4, Zenon
      <4>2. effect = Append(s, TypeOfValue(program[k].constants[Arg + 1]))
        BY <1>2, <3>4 DEF Admits
      <4> QED
        BY <1>4, <4>1, <4>2, HasOwnType
    <3> QED
      BY <2>2, <3>1, <3>2, <3>3, <3>4
  <2>4. Op \notin {"Return", "Crash", "Jump"} \cup Unwritten
    BY <2>2 DEF Unwritten
  <2> QED
    BY <1>1, <1>2, <1>3, <2>1, <2>3, <2>4, OneAccepted
<1>7. CASE TESTTakeInput
  <2>1. PICK x \in Inputs : Replace(0, <<x>>)
    BY <1>7 DEF TESTTakeInput
  <2>2. Op = "TESTTakeInput"
    BY <1>4, <1>7, IsExecutable DEF TESTTakeInput
  <2>3. effect = Append(s, Of(InputType))
    BY <1>2, <2>2 DEF Admits
  <2>4. HasType(x, Of(InputType))
    BY VMAssumption, HasOwnType
  <2> QED
    BY <1>1, <1>2, <1>3, <2>1, <2>2, <2>3, <2>4, OneAccepted DEF Unwritten
<1> QED
  BY <1>5, <1>6, <1>7

\* A variable has the type of its slot.
LEMMA GetAccepted ==
  ASSUME NEW globals, NEW tables, NEW needs, Accepted(globals, tables, needs), MachineOK', GetLocal \/ GetGlobal
  PROVE  Accepted(globals, tables, needs)'
<1>1. PICK s, k, effect, slots :
        /\ s = Expected(tables, Depth) /\ k = Top.function /\ effect = Effect(k, globals, Top.ip, s)
        /\ slots = (IF k = MainId THEN s ELSE globals)
  OBVIOUS
<1>2. Admits(Op, Arg, k, s, Len(s), slots, effect) /\ effect = Effect(Top.function, globals, Top.ip, s)
  BY <1>1, EffectHere
<1>3. 0 \in Nat /\ 0 <= Len(s)
  BY <1>1, OwnFacts
<1>4. MachineOK /\ Executable /\ Op \in {"GetLocal", "GetGlobal"}
  BY IsExecutable DEF GetLocal, GetGlobal, Accepted
<1>5. Arg \in Nat /\ Arg \in Byte
  BY <1>4, ArgFacts
<1>6. PICK x, t : HasType(x, t) /\ effect = Append(s, t) /\ Replace(0, <<x>>)
  <2>1. CASE GetLocal
    <3>1. Op = "GetLocal" /\ Replace(0, <<stack[LocalSlot + 1]>>)
      BY <1>4, <2>1, IsExecutable DEF GetLocal
    <3>2. Len(s) >= Arg + 1 /\ effect = Append(s, s[Arg + 1])
      BY <1>2, <3>1 DEF Admits
    <3>3. HasType(stack[LocalSlot + 1], s[Arg + 1])
      <4>1. /\ Len(s) \in Nat /\ Top.stack_bottom \in Nat
            /\ \A j \in 1..Len(s) : HasType(stack[Top.stack_bottom + j], s[j])
        BY <1>1, OwnFacts
      <4>2. Arg + 1 \in 1..Len(s) /\ Top.stack_bottom + (Arg + 1) = LocalSlot + 1
        <5>1. PICK n \in Nat, b \in Nat, a \in Nat : n = Len(s) /\ b = Top.stack_bottom /\ a = Arg
          BY <1>5, <4>1
        <5>2. n >= a + 1
          BY <3>2, <5>1
        <5>3. LocalSlot = b + a
          BY <5>1 DEF LocalSlot
        <5>4. a + 1 \in 1..n /\ b + (a + 1) = LocalSlot + 1
          BY <5>2, <5>3
        <5> QED
          BY <5>1, <5>4
      <4>3. HasType(stack[Top.stack_bottom + (Arg + 1)], s[Arg + 1])
        BY <4>1, <4>2
      <4> QED
        BY <4>2, <4>3
    <3> QED
      BY <3>1, <3>2, <3>3
  <2>2. CASE GetGlobal
    <3>1. Op = "GetGlobal" /\ Replace(0, <<stack[Arg + 1]>>)
      BY <1>4, <2>2, IsExecutable DEF GetGlobal
    <3>2. Arg < Len(slots) /\ effect = Append(s, slots[Arg + 1])
      BY <1>2, <1>5, <3>1 DEF Admits
    <3>3. HasType(stack[Arg + 1], slots[Arg + 1])
      BY <1>1, <1>5, <3>1, <3>2, GlobalSlot
    <3> QED
      BY <3>1, <3>2, <3>3
  <2> QED
    BY <2>1, <2>2
<1>7. Op \notin {"Return", "Crash", "Jump"} \cup Unwritten
  BY <1>4 DEF Unwritten
<1> QED
  BY <1>1, <1>2, <1>3, <1>6, <1>7, OneAccepted

\* A value is dropped.
LEMMA PopAccepted ==
  ASSUME NEW globals, NEW tables, NEW needs, Accepted(globals, tables, needs), MachineOK', Pop
  PROVE  Accepted(globals, tables, needs)'
<1>1. PICK s, k, effect, slots :
        /\ s = Expected(tables, Depth) /\ k = Top.function /\ effect = Effect(k, globals, Top.ip, s)
        /\ slots = (IF k = MainId THEN s ELSE globals)
  OBVIOUS
<1>2. Admits(Op, Arg, k, s, Len(s), slots, effect) /\ effect = Effect(Top.function, globals, Top.ip, s)
  BY <1>1, EffectHere
<1>3. MachineOK /\ Op = "Pop"
  BY IsExecutable DEF Pop, Accepted
<1>4. Len(s) >= 1 /\ effect = SubSeq(s, 1, Len(s) - 1)
  BY <1>2, <1>3 DEF Admits
<1>5. 1 \in Nat /\ 1 <= Len(s) /\ stack # <<>>
  <2>1. /\ Len(s) \in Nat /\ Top.stack_bottom \in Nat
        /\ Top.stack_bottom + Len(s) = Len(stack)
    BY <1>1, OwnFacts
  <2>2. Len(stack) >= 1
    BY <1>4, <2>1
  <2> QED
    BY <1>4, <2>1, <2>2
<1>6. Replace(1, <<>>)
  BY <1>5 DEF Pop
<1> QED
  BY <1>1, <1>2, <1>3, <1>4, <1>5, <1>6, NoneAccepted DEF Unwritten

\* A jump leads to an instruction before which the verifier expects what it leaves.
LEMMA JumpAccepted ==
  ASSUME NEW globals, NEW tables, NEW needs, Accepted(globals, tables, needs), MachineOK', Jump \/ JumpIfNot
  PROVE  Accepted(globals, tables, needs)'
<1>1. PICK s, k, effect, slots :
        /\ s = Expected(tables, Depth) /\ k = Top.function /\ effect = Effect(k, globals, Top.ip, s)
        /\ slots = (IF k = MainId THEN s ELSE globals)
  OBVIOUS
<1>2. Admits(Op, Arg, k, s, Len(s), slots, effect) /\ effect = Effect(Top.function, globals, Top.ip, s)
  BY <1>1, EffectHere
<1>3. MachineOK /\ Op \in {"Jump", "JumpIfNot"} /\ Same
  BY IsExecutable DEF Jump, JumpIfNot, Accepted
<1>4. /\ IsSequence(s) /\ Len(s) \in Nat /\ Len(stack) \in Nat /\ IsSequence(stack)
      /\ Top.stack_bottom \in Nat /\ Top.stack_bottom + Len(s) = Len(stack)
  BY <1>1, <1>3, OwnFacts, SeqIsSequence DEF MachineOK
<1>5. /\ After + Offset \in Successors(Top.function, Top.ip)
      /\ Op = "JumpIfNot" => After \in Successors(Top.function, Top.ip)
  BY <1>3, HereFacts, SuccessorsAre DEF Unwritten
<1>6. PICK values : values = <<>>
  OBVIOUS
<1>7. IsSequence(values) /\ Fits(values, values)
  <2>1. IsSequence(values) /\ Len(values) = 0
    BY <1>6, SmallSequences
  <2>2. Len(values) = Len(values) /\ \A j \in 1..Len(values) : HasType(values[j], values[j])
    BY <2>1
  <2> QED
    BY <2>1, <2>2 DEF Fits
<1>8. CASE Jump
  <2>1. Op = "Jump" /\ MoveTo(After + Offset) /\ stack' = stack
    BY <1>3, <1>8, IsExecutable DEF Jump
  <2>2. EndsWith(effect, s, Len(s) - 0, values)
    <3>1. effect = s
      BY <1>2, <2>1 DEF Admits
    <3>2. Len(s) - 0 = Len(s)
      BY <1>4
    <3> QED
      BY <1>4, <1>6, <3>1, <3>2, EndKept
  <2>3. stack' = Drop(0) \o values
    <3>1. 0 \in 0..Len(stack)
      BY <1>4
    <3>2. Drop(0) \in Seq(KnownValues) /\ stack \in Seq(KnownValues) /\ Len(Drop(0)) = Len(stack)
          /\ \A i \in 1..Len(stack) : Drop(0)[i] = stack[i]
      BY <1>3, <1>4, <3>1, StackFacts DEF MachineOK
    <3>3. Drop(0) = stack
      BY <3>2, SeqEqual
    <3> QED
      BY <1>3, <1>6, <2>1, <3>2, <3>3, ConcatEmptySeq DEF MachineOK
  <2>4. 0 \in Nat /\ 0 <= Len(s)
    BY <1>4
  <2> QED
    BY <1>1, <1>2, <1>3, <1>5, <1>7, <2>1, <2>2, <2>3, <2>4, ReplaceAccepted
<1>9. CASE JumpIfNot
  <2>1. PICK next : next = (IF Peek(0).v = 0 THEN After + Offset ELSE After) /\ MoveTo(next)
    BY <1>9 DEF JumpIfNot
  <2>2. Op = "JumpIfNot" /\ stack' = Drop(1)
    BY <1>3, <1>9, IsExecutable DEF JumpIfNot
  <2>3. Len(s) >= 1 /\ effect = SubSeq(s, 1, Len(s) - 1)
    BY <1>2, <2>2 DEF Admits
  <2>4. EndsWith(effect, s, Len(s) - 1, values)
    <3>1. PICK c \in 0..Len(s) : c = Len(s) - 1
      <4>1. Len(s) - 1 \in 0..Len(s)
        BY <1>4, <2>3
      <4> QED
        BY <4>1
    <3> QED
      BY <1>4, <1>6, <2>3, <3>1, EndDropped
  <2>5. stack' = Drop(1) \o values
    <3>1. 1 \in 0..Len(stack)
      BY <1>4, <2>3
    <3>2. Drop(1) \in Seq(KnownValues)
      BY <1>3, <3>1, StackFacts
    <3> QED
      BY <1>6, <2>2, <3>2, ConcatEmptySeq
  <2>6. 1 \in Nat /\ 1 <= Len(s)
    BY <1>4, <2>3
  <2>7. next \in Successors(Top.function, Top.ip)
    BY <1>5, <2>1, <2>2
  <2> QED
    BY <1>1, <1>2, <1>3, <1>7, <2>1, <2>4, <2>5, <2>6, <2>7, ReplaceAccepted
<1> QED
  BY <1>8, <1>9

\* A native function gives a value of its type, and new_obj an object.
LEMMA NativeAccepted ==
  ASSUME NEW globals, NEW tables, NEW needs, Accepted(globals, tables, needs), MachineOK', CallNative
  PROVE  Accepted(globals, tables, needs)'
<1>1. PICK s, k, effect, slots, c :
        /\ s = Expected(tables, Depth) /\ k = Top.function /\ effect = Effect(k, globals, Top.ip, s)
        /\ slots = (IF k = MainId THEN s ELSE globals)
        /\ c = s[Len(s) - Arg].f
  OBVIOUS
<1>2. Admits(Op, Arg, k, s, Len(s), slots, effect) /\ effect = Effect(Top.function, globals, Top.ip, s)
  BY <1>1, EffectHere
<1>3. MachineOK /\ Executable /\ Op = "CallNative"
  BY IsExecutable DEF CallNative, Accepted
<1>4. Arg \in Nat /\ Len(s) >= Arg + 1 /\ Callee.v = c /\ c \in DOMAIN Natives
  BY <1>1, <1>3, CalleeFound
<1>5. effect = SubSeq(s, 1, Len(s) - (Arg + 1)) \o <<Of(Natives[c].gives)>>
  BY <1>1, <1>2, <1>3 DEF Admits
<1>6. PICK x \in Results(Natives[c].gives) : Replace(Arg + 1, <<x>>)
  BY <1>4 DEF CallNative
<1>7. HasType(x, Of(Natives[c].gives))
  <2>1. Natives[c] \in Native /\ ~Natives[c].builds
    BY <1>4, RegistryAssumption, ElementOfSeq, LenProperties DEF CallNative
  <2>2. Natives[c].gives \in Types \ {"Function", "NativeFunc", "Object"}
    BY <1>4, <2>1, RegistryAssumption DEF Native
  <2> QED
    BY <2>2, ResultsKnown, HasOwnType
<1>8. Arg + 1 \in Nat /\ Arg + 1 <= Len(s)
  <2>1. Len(s) \in Nat
    BY <1>1, OwnFacts
  <2> QED
    BY <1>4, <2>1
<1>9. PICK n, t : n = Arg + 1 /\ t = Of(Natives[c].gives)
  OBVIOUS
<1>10. n \in Nat /\ n <= Len(s) /\ HasType(x, t) /\ effect = SubSeq(s, 1, Len(s) - n) \o <<t>> /\ Replace(n, <<x>>)
  BY <1>5, <1>6, <1>7, <1>8, <1>9
<1> QED
  BY <1>1, <1>2, <1>3, <1>10, OneAccepted DEF Unwritten

\* The native function of a struct puts an object there.
LEMMA NewObjectAccepted ==
  ASSUME NEW globals, NEW tables, NEW needs, Accepted(globals, tables, needs), MachineOK', NewObject
  PROVE  Accepted(globals, tables, needs)'
<1>1. PICK s, k, ip, effect, slots, c :
        /\ s = Expected(tables, Depth) /\ k = Top.function /\ ip = Top.ip /\ effect = Effect(k, globals, Top.ip, s)
        /\ slots = (IF k = MainId THEN s ELSE globals)
        /\ c = s[Len(s) - Arg].f
  OBVIOUS
<1>2. Admits(Op, Arg, k, s, Len(s), slots, effect) /\ effect = Effect(Top.function, globals, Top.ip, s)
  BY <1>1, EffectHere
<1>3. MachineOK /\ Executable /\ Op = "CallNative"
  BY IsExecutable DEF NewObject, Accepted
<1>4. Arg \in Nat /\ Len(s) >= Arg + 1 /\ Callee.v = c /\ c \in DOMAIN Natives
  BY <1>1, <1>3, CalleeFound
<1>5. effect = SubSeq(s, 1, Len(s) - (Arg + 1)) \o <<Of(Natives[c].gives)>>
  BY <1>1, <1>2, <1>3 DEF Admits
<1>6. PICK x : x = Val("Object", Len(heap) + 1) /\ stack' = Append(Drop(Arg + 1), x)
  BY DEF NewObject
<1>7. HasType(x, Of(Natives[c].gives))
  <2>1. Natives[c].gives = "Object"
    BY <1>4, RegistryAssumption DEF NewObject
  <2> QED
    BY <1>6, <2>1, HasOwnType DEF Val
<1>8. /\ IsSequence(s) /\ Len(s) \in Nat /\ Len(stack) \in Nat /\ IsSequence(stack)
      /\ Top.stack_bottom \in Nat /\ Top.stack_bottom + Len(s) = Len(stack)
  BY <1>1, <1>3, OwnFacts, SeqIsSequence DEF MachineOK
<1>9. PICK n, t : n \in Nat /\ n = Arg + 1 /\ t = Of(Natives[c].gives)
  BY <1>4
<1>10. PICK f \in 0..Len(s), d \in 0..Len(stack) : f = Len(s) - n /\ d = Len(stack) - n
  <2>1. Len(s) - n \in 0..Len(s) /\ Len(stack) - n \in 0..Len(stack)
    BY <1>4, <1>8, <1>9
  <2> QED
    BY <2>1
<1>11. f \in Nat /\ f <= Len(s) /\ d = Top.stack_bottom + f
  BY <1>8, <1>9, <1>10
<1>12. PICK values, types : values = <<x>> /\ types = <<t>>
  OBVIOUS
<1>13. IsSequence(values) /\ IsSequence(types) /\ Fits(values, types)
  <2>1. IsSequence(values) /\ Len(values) = 1 /\ values[1] = x
    BY <1>12, SmallSequences
  <2>2. IsSequence(types) /\ Len(types) = 1 /\ types[1] = t
    BY <1>12, SmallSequences
  <2>3. Len(types) = Len(values) /\ \A j \in 1..Len(types) : HasType(values[j], types[j])
    BY <1>7, <1>9, <2>1, <2>2
  <2> QED
    BY <2>1, <2>2, <2>3 DEF Fits
<1>14. EndsWith(effect, s, f, types)
  <2>1. effect = SubSeq(s, 1, f) \o types
    BY <1>5, <1>9, <1>10, <1>12
  <2> QED
    BY <1>8, <1>10, <1>13, <2>1, EndReplaced
<1>15. EndsWith(stack', stack, d, values)
  <2>1. EndsWith(SubSeq(stack, 1, d) \o values, stack, d, values)
    BY <1>8, <1>10, <1>13, EndReplaced
  <2>2. stack' = Append(SubSeq(stack, 1, d), x)
    BY <1>6, <1>9, <1>10 DEF Drop
  <2>3. IsSequence(SubSeq(stack, 1, d))
    BY <1>8, <1>10, FirstPart
  <2>4. SubSeq(stack, 1, d) \o <<x>> = Append(SubSeq(stack, 1, d), x)
    <3>1. PICK r : r = SubSeq(stack, 1, d)
      OBVIOUS
    <3>2. r \in Seq(Range(r) \cup {x})
      BY <2>3, <3>1, SeqMonotonic DEF IsSequence
    <3> QED
      BY <3>1, <3>2, AppendIsConcat
  <2> QED
    BY <1>12, <2>1, <2>2, <2>4
<1>16. After \in Successors(k, ip) /\ MoveTo(After) /\ program' = program
  <2>1. Op \notin {"Return", "Crash", "Jump"} \cup Unwritten
    BY <1>3 DEF Unwritten
  <2>2. After \in Successors(k, ip)
    BY <1>1, <2>1, HereFacts, SuccessorsAre DEF Unwritten
  <2> QED
    BY <2>2 DEF NewObject
<1>17. effect = Effect(k, globals, ip, s)
  BY <1>1
<1> QED
  BY <1>1, <1>11, <1>13, <1>14, <1>15, <1>16, <1>17, ReplaceTyped

\* Conversions and computing leave a value of the type that they give.
LEMMA ComputeAccepted ==
  ASSUME NEW globals, NEW tables, NEW needs, Accepted(globals, tables, needs), MachineOK',
         WrapAny \/ ValEqual \/ Compute \/ TESTYield \/ (UnwrapAny /\ status' = "running")
  PROVE  Accepted(globals, tables, needs)'
<1>1. PICK s, k, effect, slots :
        /\ s = Expected(tables, Depth) /\ k = Top.function /\ effect = Effect(k, globals, Top.ip, s)
        /\ slots = (IF k = MainId THEN s ELSE globals)
  OBVIOUS
<1>2. Admits(Op, Arg, k, s, Len(s), slots, effect) /\ effect = Effect(Top.function, globals, Top.ip, s)
  BY <1>1, EffectHere
<1>3. MachineOK /\ Len(s) \in Nat
  BY <1>1, OwnFacts DEF Accepted
<1>4. PICK n, x, t : /\ n \in Nat /\ Op \notin {"Return", "Crash", "Jump"} \cup Unwritten
                     /\ n <= Len(s) /\ HasType(x, Of(t)) /\ Replace(n, <<x>>)
                     /\ effect = SubSeq(s, 1, Len(s) - n) \o <<Of(t)>>
  <2>1. CASE WrapAny
    <3>1. Op = "WrapAny" /\ Replace(1, <<Wrapped(Peek(0))>>)
      BY <1>3, <2>1, IsExecutable DEF WrapAny
    <3>2. 1 <= Len(s) /\ effect = SubSeq(s, 1, Len(s) - 1) \o <<Of("Any")>>
      BY <1>2, <1>3, <3>1 DEF Admits
    <3>3. HasType(Wrapped(Peek(0)), Of("Any"))
      BY HasOwnType DEF Wrapped
    <3> QED
      BY <3>1, <3>2, <3>3 DEF Unwritten
  <2>2. CASE ValEqual
    <3>1. PICK x \in Results("Bool") : Op = "ValEqual" /\ Replace(2, <<x>>)
      BY <1>3, <2>2, IsExecutable DEF ValEqual
    <3>2. 2 <= Len(s) /\ effect = SubSeq(s, 1, Len(s) - 2) \o <<Of("Bool")>>
      BY <1>2, <1>3, <3>1 DEF Admits
    <3>3. HasType(x, Of("Bool"))
      BY ResultsKnown, HasOwnType DEF Types
    <3> QED
      BY <3>1, <3>2, <3>3 DEF Unwritten
  <2>3. CASE Compute
    <3>1. PICK x \in Results(Computing[Op].gives) :
             Op \in DOMAIN Computing /\ Replace(Len(Computing[Op].takes), <<x>>)
      BY <1>3, <2>3, IsExecutable DEF Compute
    <3>2. Len(Computing[Op].takes) \in Nat /\ Len(Computing[Op].takes) <= Len(s)
          /\ effect = SubSeq(s, 1, Len(s) - Len(Computing[Op].takes)) \o <<Of(Computing[Op].gives)>>
      BY <1>2, <1>3, <3>1, TakesOneOrTwo DEF Admits
    <3>3. HasType(x, Of(Computing[Op].gives))
      BY <3>1, ComputingIs, ResultsKnown, HasOwnType DEF Types
    <3>4. Op \notin {"Return", "Crash", "Jump"} \cup Unwritten
      BY <3>1, ComputingIs DEF FloatBinary, IntBinary, Unwritten
    <3> QED
      BY <3>1, <3>2, <3>3, <3>4
  <2>4. CASE TESTYield
    <3>1. Op = "TESTYield" /\ Replace(1, <<NoneVal>>)
      BY <1>3, <2>4, IsExecutable DEF TESTYield
    <3>2. 1 <= Len(s) /\ effect = SubSeq(s, 1, Len(s) - 1) \o <<Of("None")>>
      BY <1>2, <1>3, <3>1 DEF Admits
    <3>3. HasType(NoneVal, Of("None"))
      BY HasOwnType DEF NoneVal, Val
    <3> QED
      BY <3>1, <3>2, <3>3 DEF Unwritten
  <2>5. CASE UnwrapAny /\ status' = "running"
    <3>1. PICK top : top = Peek(0)
      OBVIOUS
    <3>2. Op \in DOMAIN Unwraps /\ top.within = Unwraps[Op] /\ Replace(1, <<Unwrapped(top)>>)
      BY <1>3, <2>5, <3>1, IsExecutable DEF UnwrapAny
    <3>3. 1 <= Len(s) /\ effect = SubSeq(s, 1, Len(s) - 1) \o <<Of(Unwraps[Op])>>
      BY <1>2, <1>3, <3>2 DEF Admits
    <3>4. HasType(Unwrapped(top), Of(Unwraps[Op]))
      BY <3>2, HasOwnType DEF Unwrapped, Val
    <3>5. Op \notin {"Return", "Crash", "Jump"} \cup Unwritten
      BY <3>2, UnwrapsAre DEF Unwritten
    <3> QED
      BY <3>2, <3>3, <3>4, <3>5
  <2> QED
    BY <2>1, <2>2, <2>3, <2>4, <2>5
<1> QED
  BY <1>1, <1>2, <1>4, OneAccepted

\* A slot takes a value of the type that every activation which holds it expects.
LEMMA StoreAccepted ==
  ASSUME NEW globals, NEW tables, NEW needs, Accepted(globals, tables, needs), MachineOK',
         Op \notin {"Return", "Crash", "Jump"} \cup Unwritten, NEW s, s = Expected(tables, Depth),
         s = Effect(Top.function, globals, Top.ip, s),
         NEW slot, slot + 1 \in 1..Len(stack), StoreAt(slot),
         \A i \in 1..Depth : \A j \in 1..Len(Held(tables, i)) :
            Bottom(i) + j = slot + 1 => HasType(Peek(0), Held(tables, i)[j])
  PROVE  Accepted(globals, tables, needs)'
<1>1. PICK k, ip, b, next, x :
        k = Top.function /\ ip = Top.ip /\ b = Top.stack_bottom /\ next = After /\ x = Peek(0)
  OBVIOUS
<1>2. PICK p \in 1..Len(stack) : p = slot + 1
  OBVIOUS
<1>3. /\ MachineOK /\ Typed(tables) /\ Depth \in Nat \ {0} /\ Depth \in 1..Depth
      /\ \A i \in 1..Depth : /\ Bottom(i) \in Nat /\ EndOf(i) \in Nat
                             /\ Len(Held(tables, i)) \in Nat
                             /\ Bottom(i) + Len(Held(tables, i)) = EndOf(i)
                             /\ EndOf(i) <= Len(stack)
  BY FramesFacts
<1>4. IsSequence(stack) /\ Len(stack) \in Nat /\ DOMAIN stack = 1..Len(stack)
  BY <1>3, SeqIsSequence, Places DEF MachineOK
<1>5. PICK old, new : old = stack /\ new = stack'
  OBVIOUS
<1>6. Len(new) = Len(old) /\ new[p] = x /\ \A i \in 1..Len(old) : i # p => new[i] = old[i]
  <2>1. new = [old EXCEPT ![p] = x]
    BY <1>1, <1>2, <1>5 DEF StoreAt
  <2>2. IsSequence(old) /\ p \in DOMAIN old /\ DOMAIN old = 1..Len(old)
    BY <1>2, <1>4, <1>5
  <2> QED
    BY <2>1, <2>2, ReplacedAt
<1>7. \A i \in 1..Depth : \A j \in 1..Len(Held(tables, i)) : HasType(new[Bottom(i) + j], Held(tables, i)[j])
  <2> TAKE i \in 1..Depth
  <2> TAKE j \in 1..Len(Held(tables, i))
  <2>1. CASE Bottom(i) + j = p
    BY <1>1, <1>2, <1>6, <2>1
  <2>2. CASE Bottom(i) + j # p
    <3>1. Bottom(i) + j \in 1..Len(old)
      <4>1. PICK from \in Nat, l \in Nat : from = Bottom(i) /\ l = Len(Held(tables, i))
        BY <1>3
      <4>2. from + l <= Len(old) /\ j \in 1..l
        BY <1>3, <1>5, <4>1
      <4> QED
        BY <1>4, <1>5, <4>1, <4>2
    <3>2. HasType(old[Bottom(i) + j], Held(tables, i)[j])
      BY <1>3, <1>5 DEF Typed
    <3> QED
      BY <1>6, <2>2, <3>1, <3>2
  <2> QED
    BY <2>1, <2>2
<1>8. BelowKept(tables)
  <2>1. \A i \in 1..(Depth - 1) : i \in 1..Depth
    BY <1>3
  <2> QED
    BY <1>5, <1>7, <2>1 DEF BelowKept
<1>9. EndsTyped(b, s)'
  <2>1. Held(tables, Depth) = s /\ Bottom(Depth) = b
    BY <1>1, <1>3, TopFacts DEF Held, Bottom
  <2>2. \A j \in 1..Len(s) : HasType(new[b + j], s[j])
    BY <1>3, <1>7, <2>1
  <2>3. Len(new) = b + Len(s)
    BY <1>1, <1>5, <1>6, OwnFacts
  <2> QED
    BY <1>5, <2>2, <2>3 DEF EndsTyped, HasType
<1>10. program' = program /\ MoveTo(next) /\ next \in Successors(k, ip) /\ IsSequence(s)
  BY <1>1, HereFacts, SuccessorsAre, OwnFacts DEF StoreAt, Same, Unwritten
<1>11. s = Effect(k, globals, ip, s)
  BY <1>1
<1> QED
  BY <1>1, <1>8, <1>9, <1>10, <1>11, StepKeeps

\* A variable takes a value of its own type, wherever its slot is.
LEMMA SetAccepted ==
  ASSUME NEW globals, NEW tables, NEW needs, Accepted(globals, tables, needs), MachineOK', SetLocal \/ SetGlobal
  PROVE  Accepted(globals, tables, needs)'
<1>1. PICK s, k, effect, slots :
        /\ s = Expected(tables, Depth) /\ k = Top.function /\ effect = Effect(k, globals, Top.ip, s)
        /\ slots = (IF k = MainId THEN s ELSE globals)
  OBVIOUS
<1>2. Admits(Op, Arg, k, s, Len(s), slots, effect)
  BY <1>1, EffectHere
<1>3. MachineOK /\ Executable /\ Op \in {"SetLocal", "SetGlobal"}
  BY IsExecutable DEF SetLocal, SetGlobal, Accepted
<1>4. PICK arg \in Nat, n \in Nat, b \in Nat : arg = Arg /\ arg \in Byte /\ n = Len(s) /\ b = Top.stack_bottom
  BY <1>1, <1>3, ArgFacts, OwnFacts
<1>5. n >= 1 /\ effect = s
  BY <1>2, <1>3, <1>4 DEF Admits
<1>6. HasType(Peek(0), s[n])
  <2>1. 0 \in Nat /\ 0 < Len(s) /\ Len(s) - 0 = n
    BY <1>4, <1>5
  <2>2. HasType(Peek(0), s[Len(s) - 0])
    BY <1>1, <2>1, OwnPeek
  <2> QED
    BY <2>1, <2>2
<1>7. /\ Depth \in Nat \ {0} /\ Depth \in 1..Depth /\ 1 \in 1..Depth /\ ScriptFirst /\ Stacked(tables)
      /\ Held(tables, Depth) = s /\ Bottom(Depth) = b
      /\ \A i \in 1..Depth : /\ Bottom(i) \in Nat /\ EndOf(i) \in Nat
                             /\ Len(Held(tables, i)) \in Nat
                             /\ Bottom(i) + Len(Held(tables, i)) = EndOf(i)
                             /\ i < Depth => EndOf(i) <= Top.stack_bottom
  BY <1>1, <1>3, <1>4, FramesFacts, TopFacts DEF Held, Bottom
<1>8. PICK slot : /\ slot + 1 \in 1..Len(stack) /\ StoreAt(slot)
                  /\ \A i \in 1..Depth : \A j \in 1..Len(Held(tables, i)) :
                        Bottom(i) + j = slot + 1 => HasType(Peek(0), Held(tables, i)[j])
  <2>1. CASE SetLocal
    <3>1. Op = "SetLocal" /\ StoreAt(LocalSlot) /\ LocalSlot = b + arg
      BY <1>3, <1>4, <2>1, IsExecutable DEF SetLocal, LocalSlot
    <3>2. n >= arg + 1 /\ s[arg + 1] = s[n]
      BY <1>2, <1>4, <3>1 DEF Admits
    <3>3. LocalSlot + 1 \in 1..Len(stack)
      BY <1>3, <3>1, SlotFacts
    <3>4. ASSUME NEW i \in 1..Depth, NEW j \in 1..Len(Held(tables, i)), Bottom(i) + j = LocalSlot + 1
          PROVE  HasType(Peek(0), Held(tables, i)[j])
      <4>1. PICK from \in Nat, l \in Nat : from = Bottom(i) /\ l = Len(Held(tables, i))
        BY <1>7
      <4>2. j \in 1..l /\ from + j = b + arg + 1
        BY <3>1, <3>4, <4>1
      <4>3. i = Depth
        <5>1. ~(i < Depth)
          <6>1. i < Depth => from + l <= b
            BY <1>4, <1>7, <4>1
          <6> QED
            BY <4>2, <6>1
        <5> QED
          BY <1>7, <5>1
      <4>4. j = arg + 1 /\ Held(tables, i) = s
        BY <1>7, <4>1, <4>2, <4>3
      <4> QED
        BY <1>6, <3>2, <4>4
    <3> QED
      BY <3>1, <3>3, <3>4
  <2>2. CASE SetGlobal
    <3>1. Op = "SetGlobal" /\ StoreAt(Arg)
      BY <1>3, <2>2, IsExecutable DEF SetGlobal
    <3>2. Arg < Len(slots) /\ slots[Arg + 1] = s[n]
      BY <1>2, <1>4, <3>1 DEF Admits
    <3>3. /\ Arg + 1 \in 1..Len(Held(tables, 1)) /\ Arg + 1 \in 1..Len(stack)
          /\ Held(tables, 1)[Arg + 1] = slots[Arg + 1]
      BY <1>1, <1>4, <3>1, <3>2, GlobalSlot
    <3>4. ASSUME NEW i \in 1..Depth, NEW j \in 1..Len(Held(tables, i)), Bottom(i) + j = Arg + 1
          PROVE  HasType(Peek(0), Held(tables, i)[j])
      <4>1. PICK from \in Nat, l \in Nat, first \in Nat :
               from = Bottom(i) /\ l = Len(Held(tables, i)) /\ first = Len(Held(tables, 1))
        BY <1>7
      <4>2. j \in 1..l /\ from + j = arg + 1 /\ arg + 1 <= first
        BY <1>4, <3>3, <3>4, <4>1
      <4>3. Bottom(1) = 0 /\ EndOf(1) = first
        BY <1>7, <4>1 DEF ScriptFirst
      <4>4. i = 1
        <5>1. ~(1 < i)
          <6>1. 1 < i => first <= from
            BY <1>7, <4>1, <4>3 DEF Stacked
          <6> QED
            BY <4>2, <6>1
        <5> QED
          BY <1>7, <5>1
      <4>5. j = arg + 1
        BY <4>1, <4>2, <4>3, <4>4
      <4> QED
        BY <1>4, <1>6, <3>2, <3>3, <4>4, <4>5
    <3> QED
      BY <3>1, <3>3, <3>4
  <2> QED
    BY <2>1, <2>2
<1>9. Op \notin {"Return", "Crash", "Jump"} \cup Unwritten /\ s = Effect(Top.function, globals, Top.ip, s)
  BY <1>1, <1>3, <1>5 DEF Unwritten
<1> QED
  BY <1>1, <1>8, <1>9, StoreAccepted

\* What a function starts with.
LEMMA EntryIs ==
  ASSUME NEW c, c # MainId, program[c].params \in Seq(Types)
  PROVE  /\ IsSequence(Entry(c)) /\ Len(Entry(c)) = 1 + Len(program[c].params)
         /\ Entry(c)[1] = [t |-> "Function", f |-> c]
         /\ \A i \in 1..Len(program[c].params) : Entry(c)[1 + i] = Of(program[c].params[i])
         /\ Entry(c) # Dead
<1>1. PICK p \in Seq(Types), l \in Nat : p = program[c].params /\ l = Len(p)
  OBVIOUS
<1>2. PICK first, others : first = <<[t |-> "Function", f |-> c]>> /\ others = [i \in 1..l |-> Of(p[i])]
  OBVIOUS
<1>3. Entry(c) = first \o others
  BY <1>1, <1>2, LenProperties DEF Entry
<1>4. IsSequence(others) /\ Len(others) = l /\ \A i \in 1..l : others[i] = Of(p[i])
  <2>1. others = [i \in 1..l |-> others[i]]
    BY <1>2
  <2> QED
    BY <1>2, <2>1, FunctionIsSequence
<1>5. IsSequence(first) /\ Len(first) = 1 /\ first[1] = [t |-> "Function", f |-> c]
  BY <1>2, SmallSequences
<1>6. /\ IsSequence(Entry(c)) /\ Len(Entry(c)) = 1 + l /\ Entry(c)[1] = [t |-> "Function", f |-> c]
      /\ \A i \in 1..l : Entry(c)[1 + i] = Of(p[i])
  <2>1. IsSequence(first) /\ IsSequence(others)
    BY <1>4, <1>5
  <2>2. /\ IsSequence(first \o others) /\ Len(first \o others) = Len(first) + Len(others)
        /\ \A i \in 1..Len(first) : (first \o others)[i] = first[i]
        /\ \A i \in 1..Len(others) : (first \o others)[Len(first) + i] = others[i]
    BY <2>1, Joined
  <2> QED
    BY <1>3, <1>4, <1>5, <2>2
<1>7. Entry(c) # Dead
  <2>1. Entry(c)[1].t = "Function" /\ Dead[1].t = "dead"
    BY <1>6 DEF Dead, Mark
  <2> QED
    BY <2>1
<1> QED
  BY <1>1, <1>6, <1>7

\* What the caller expects after the call, and holds until then.
WaitsFor(effect, s, m, t) ==
    /\ IsSequence(effect) /\ effect # <<>> /\ Last(effect) = t
    /\ Len(Front(effect)) = m /\ \A i \in 1..m : Front(effect)[i] = s[i]

\* The table behind a call is what it finds, with the result in place of the callee.
LEMMA CallEffect ==
  ASSUME NEW s, IsSequence(s), NEW m \in 0..Len(s), NEW t, NEW effect, effect = SubSeq(s, 1, m) \o <<t>>
  PROVE  WaitsFor(effect, s, m, t)
<1>1. IsSequence(<<t>>) /\ Len(<<t>>) = 1 /\ <<t>>[1] = t
  BY SmallSequences
<1>2. EndsWith(effect, s, m, <<t>>) /\ m \in Nat
  BY <1>1, EndReplaced, Places
<1>3. /\ IsSequence(effect) /\ Len(effect) = m + 1 /\ effect[m + 1] = t
      /\ \A i \in 1..m : effect[i] = s[i]
  BY <1>1, <1>2 DEF EndsWith
<1>4. effect # <<>>
  BY <1>2, <1>3, EmptySeq
<1>5. Last(effect) = t
  BY <1>3 DEF Last
<1>6. Len(Front(effect)) = m /\ \A i \in 1..m : Front(effect)[i] = effect[i]
  <2>1. Len(effect) - 1 = m
    BY <1>2, <1>3
  <2> QED
    BY <1>3, <1>4, <2>1, Popped
<1> QED
  BY <1>3, <1>4, <1>5, <1>6 DEF WaitsFor

\* A call adds a frame.
LEMMA CalledFrames ==
  ASSUME MachineOK, CallUser
  PROVE  /\ Depth' = Depth + 1 /\ stack' = stack /\ program' = program
         /\ \A i \in 1..Depth : /\ call_stack'[i].function = call_stack[i].function
                                /\ call_stack'[i].stack_bottom = call_stack[i].stack_bottom
                                /\ call_stack'[i].ip = IF i = Depth THEN After ELSE call_stack[i].ip
         /\ call_stack'[Depth + 1] = Frame(Callee.v, CalleeSlot)
<1>1. Executable /\ Op = "CallUser" /\ Same /\ stack' = stack
  BY IsExecutable DEF CallUser
<1>2. PICK f, below, frame : /\ f = [Top EXCEPT !.ip = After] /\ below = [call_stack EXCEPT ![Depth].ip = After]
                             /\ frame = Frame(Callee.v, CalleeSlot)
  OBVIOUS
<1>3. After \in Nat /\ Depth \in 1..Len(call_stack) /\ Top \in FrameSet /\ Depth = Len(call_stack)
      /\ Depth \in Nat /\ call_stack \in Seq(FrameSet)
  BY <1>1, OperandFacts, TopFacts DEF Depth, MachineOK
<1>4. f \in FrameSet /\ f.function = Top.function /\ f.stack_bottom = Top.stack_bottom /\ f.ip = After
  BY <1>2, <1>3 DEF FrameSet
<1>5. below \in Seq(FrameSet) /\ Len(below) = Depth
      /\ \A j \in 1..Depth : below[j] = IF j = Depth THEN f ELSE call_stack[j]
  <2>1. below = [call_stack EXCEPT ![Depth] = f]
    BY <1>2 DEF Top
  <2> QED
    BY <1>3, <1>4, <2>1, ExceptSeq
<1>6. call_stack' = Append(below, frame)
  BY <1>2 DEF CallUser
<1>7. Len(call_stack') = Depth + 1 /\ call_stack'[Depth + 1] = frame
      /\ \A j \in 1..Depth : call_stack'[j] = below[j]
  <2>1. IsSequence(below)
    BY <1>5, SeqIsSequence
  <2> QED
    BY <1>5, <1>6, <2>1, Appended
<1>8. \A i \in 1..Depth : /\ call_stack'[i].function = call_stack[i].function
                          /\ call_stack'[i].stack_bottom = call_stack[i].stack_bottom
                          /\ call_stack'[i].ip = IF i = Depth THEN After ELSE call_stack[i].ip
  BY <1>4, <1>5, <1>7 DEF Top
<1> QED
  BY <1>1, <1>2, <1>7, <1>8 DEF Depth, Same

\* The callee starts with itself and its arguments; the caller keeps what lies below
\* them, and waits for a value of the type that the callee returns.
LEMMA CallTyped ==
  ASSUME NEW globals, NEW tables, NEW needs, Accepted(globals, tables, needs), CallUser
  PROVE  LET s == Expected(tables, Depth)
             c == Callee.v
             m == Len(s) - Arg - 1
         IN /\ c \in DOMAIN program \ {MainId} /\ m \in 0..Len(s) /\ CalleeSlot = Top.stack_bottom + m
            /\ CalleeSlot + Len(Entry(c)) = Len(stack) /\ CalleeSlot \in Nat
            /\ IsSequence(Entry(c)) /\ Entry(c) # Dead /\ tables[c][1] = Entry(c)
            /\ 0 < Len(program[c].code)
            /\ \A j \in 1..Len(Entry(c)) : HasType(stack[CalleeSlot + j], Entry(c)[j])
            /\ LET effect == Effect(Top.function, globals, Top.ip, s)
               IN effect = SubSeq(s, 1, m) \o <<Of(program[c].ret_type)>>
<1>1. PICK s, k, effect, slots, c, args :
        /\ s = Expected(tables, Depth) /\ k = Top.function /\ effect = Effect(k, globals, Top.ip, s)
        /\ slots = (IF k = MainId THEN s ELSE globals)
        /\ c = s[Len(s) - Arg].f /\ args = SubSeq(s, Len(s) - Arg + 1, Len(s))
  OBVIOUS
<1>2. Admits(Op, Arg, k, s, Len(s), slots, effect)
  BY <1>1, EffectHere
<1>3. MachineOK /\ Op = "CallUser" /\ TablesOK(globals, tables)
  BY IsExecutable DEF CallUser, Accepted
<1>4. /\ Arg \in Nat /\ Len(s) >= Arg + 1 /\ Callee.v = c /\ Callee.t = "Function"
      /\ c \in DOMAIN program \ {MainId} /\ program[c].params = Variants(args)
  BY <1>1, <1>3, CalleeFound
<1>5. PICK arg \in Nat, n \in Nat, b \in Nat : arg = Arg /\ n = Len(s) /\ b = Top.stack_bottom
  BY <1>1, <1>4, OwnFacts
<1>6. /\ CalleeSlot + 1 \in 1..Len(stack) /\ CalleeSlot = Top.stack_bottom + (Len(s) - Arg - 1)
      /\ CalleeSlot \in Nat /\ Len(Args) = Arg
      /\ IsSequence(args) /\ Len(args) = Arg
      /\ \A i \in 1..Arg : HasType(Args[i], args[i])
  BY <1>1, <1>4, OwnArgs
<1>7. PICK p \in Seq(Types) : p = program[c].params
  BY <1>3, <1>4 DEF MachineOK, IsProgram
<1>8. Len(p) = arg /\ \A i \in 1..arg : p[i] = args[i].t
  <2>1. DOMAIN args = 1..arg
    BY <1>5, <1>6, Places
  <2>2. p = [i \in 1..arg |-> args[i].t]
    BY <1>4, <1>7, <2>1 DEF Variants
  <2>3. Len(p) = arg
    BY <2>2, FunctionIsSequence
  <2> QED
    BY <2>2, <2>3
<1>9. PICK entry : entry = Entry(c)
  OBVIOUS
<1>10. /\ IsSequence(entry) /\ Len(entry) = 1 + arg /\ entry[1] = [t |-> "Function", f |-> c]
       /\ \A i \in 1..arg : entry[1 + i] = Of(p[i])
       /\ entry # Dead
  <2>1. c # MainId /\ program[c].params \in Seq(Types)
    BY <1>4, <1>7
  <2>2. /\ IsSequence(Entry(c)) /\ Len(Entry(c)) = 1 + Len(program[c].params)
        /\ Entry(c)[1] = [t |-> "Function", f |-> c]
        /\ \A i \in 1..Len(program[c].params) : Entry(c)[1 + i] = Of(program[c].params[i])
        /\ Entry(c) # Dead
    BY <2>1, EntryIs
  <2> QED
    BY <1>7, <1>8, <1>9, <2>2
<1>11. PICK slot \in Nat : slot = CalleeSlot
  BY <1>6
<1>12. n - arg - 1 \in 0..n /\ slot = b + (n - arg - 1) /\ slot + (1 + arg) = Len(stack)
  <2>1. b + n = Len(stack)
    BY <1>1, <1>5, OwnFacts
  <2>2. n >= arg + 1
    BY <1>4, <1>5
  <2>3. slot = b + (n - arg - 1)
    BY <1>5, <1>6, <1>11
  <2> QED
    BY <2>1, <2>2, <2>3
<1>13. \A j \in 1..Len(entry) : HasType(stack[slot + j], entry[j])
  <2> TAKE j \in 1..Len(entry)
  <2>1. CASE j = 1
    <3>1. stack[slot + 1] = Callee
      BY <1>11 DEF Callee
    <3> QED
      BY <1>4, <1>10, <2>1, <3>1 DEF HasType
  <2>2. CASE j # 1
    <3>1. PICK i \in 1..arg : j = 1 + i
      <4>1. j - 1 \in 1..arg /\ j = 1 + (j - 1)
        BY <1>10, <2>2
      <4> QED
        BY <4>1
    <3>2. stack[slot + j] = Args[i]
      <4>1. PICK len \in Nat, from \in Nat : len = Len(stack) /\ from = slot + 2
        BY <1>3, TopFacts
      <4>2. Args = SubSeq(stack, from, len)
        BY <1>11, <4>1 DEF Args
      <4>3. from \in 1..(len + 1) /\ len - from + 1 = arg /\ from + i - 1 = slot + j
        BY <1>12, <3>1, <4>1
      <4>4. \A h \in from..len : stack[h] \in KnownValues
        <5>1. \A h \in from..len : h \in 1..Len(stack)
          BY <4>1, <4>3
        <5> QED
          BY <1>3, <5>1, ElementOfSeq DEF MachineOK
      <4>5. \A h \in 1..(len - from + 1) : SubSeq(stack, from, len)[h] = stack[from + h - 1]
        BY <4>4, SubSeqProperties
      <4> QED
        BY <4>2, <4>3, <4>5
    <3>3. HasType(Args[i], args[i]) /\ entry[j] = Of(args[i].t)
      BY <1>5, <1>6, <1>8, <1>10, <3>1
    <3> QED
      BY <3>2, <3>3 DEF HasType, Of
  <2> QED
    BY <2>1, <2>2
<1>14. effect = SubSeq(s, 1, n - arg - 1) \o <<Of(program[c].ret_type)>>
  <2>1. effect = SubSeq(s, 1, Len(s) - (Arg + 1)) \o <<Of(program[c].ret_type)>>
    BY <1>1, <1>2, <1>3 DEF Admits
  <2>2. Len(s) - (Arg + 1) = n - arg - 1
    BY <1>5
  <2> QED
    BY <2>1, <2>2
<1>15. tables[c][1] = entry /\ 0 < Len(program[c].code)
  <2>1. FunctionOK(c, globals, tables[c])
    BY <1>3, <1>4 DEF TablesOK
  <2>2. tables[c][1] = entry
    BY <1>9, <2>1 DEF FunctionOK
  <2>3. 0 \in 0..Len(program[c].code) /\ tables[c][0 + 1] # Dead
    <3>1. program[c].code \in Seq(Byte)
      BY <1>3, <1>4 DEF MachineOK, IsProgram
    <3>2. Len(program[c].code) \in Nat
      BY <3>1, LenProperties
    <3> QED
      BY <1>10, <2>2, <3>2
  <2>4. Readable(c, 0)
    BY <2>1, <2>3 DEF FunctionOK
  <2> QED
    BY <2>2, <2>4 DEF Readable
<1> QED
  BY <1>1, <1>4, <1>5, <1>9, <1>10, <1>11, <1>12, <1>13, <1>14, <1>15

\* The globals are there for a function that is called.
LEMMA CalleeGlobals ==
  ASSUME NEW globals, NEW tables, NEW needs, Accepted(globals, tables, needs), CallUser, NEW g \in needs[Callee.v]
  PROVE  LET s == Expected(tables, Depth)
         IN IF Depth = 1 THEN g < Len(s) - Arg - 1 /\ s[g + 1] = globals[g + 1]
                         ELSE g \in needs[Top.function]
<1>1. PICK s, k, ip, c, arg :
        s = Expected(tables, Depth) /\ k = Top.function /\ ip = Top.ip /\ c = Callee.v /\ arg = Arg
  OBVIOUS
<1>2. Op = "CallUser" /\ c = s[Len(s) - arg].f
  <2>1. MachineOK
    BY DEF Accepted
  <2>2. Op = "CallUser"
    BY <2>1, IsExecutable DEF CallUser
  <2> QED
    BY <1>1, <2>2, CalleeFound
<1>3. /\ k \in DOMAIN program /\ ip \in Nat /\ ip < Len(program[k].code)
      /\ Readable(k, ip) /\ Op = Decode(Ip(k, ip)) /\ arg = Ip(k, ip + 1)
      /\ (k = MainId) <=> (Depth = 1)
      /\ s = tables[k][ip + 1] /\ tables[k][ip + 1] \notin {Dead, Bad} /\ Len(program[k].code) \in Nat
  BY <1>1, HereFacts, TopFacts
<1>4. ip \in Reached(k, tables[k], {"CallUser"})
  <2>1. ip \in 0..(Len(program[k].code) - 1)
    BY <1>3
  <2> QED
    BY <1>2, <1>3, <2>1 DEF Reached
<1>5. CalledAt(k, tables[k], ip) = c
  BY <1>2, <1>3 DEF CalledAt
<1>6. Covers(tables, needs) /\ MainReady(globals, tables[MainId], needs)
  BY FramesFacts
<1>7. CASE Depth = 1
  <2>1. k = MainId
    BY <1>3, <1>7
  <2>2. g < Len(s) - Ip(MainId, ip + 1) - 1 /\ s[g + 1] = globals[g + 1]
    BY <1>1, <1>3, <1>4, <1>5, <1>6, <2>1 DEF MainReady
  <2> QED
    BY <1>1, <1>3, <1>7, <2>1, <2>2
<1>8. CASE Depth # 1
  <2>1. k # MainId
    BY <1>3, <1>8
  <2>2. c \in Calls(k, tables[k])
    BY <1>4, <1>5 DEF Calls
  <2>3. needs[c] \subseteq needs[k]
    BY <1>3, <1>6, <2>1, <2>2 DEF Covers
  <2> QED
    BY <1>1, <1>8, <2>3
<1> QED
  BY <1>7, <1>8

\* A call keeps what the tables say.
LEMMA CallAccepted ==
  ASSUME NEW globals, NEW tables, NEW needs, Accepted(globals, tables, needs), MachineOK', CallUser
  PROVE  Accepted(globals, tables, needs)'
<1>1. PICK s, k, ip, effect, c, m, next :
        /\ s = Expected(tables, Depth) /\ k = Top.function /\ ip = Top.ip /\ effect = Effect(k, globals, ip, s)
        /\ c = Callee.v /\ m = Len(s) - Arg - 1 /\ next = After
  OBVIOUS
<1>2. PICK entry, ret, slot : entry = Entry(c) /\ ret = Of(program[c].ret_type) /\ slot = CalleeSlot
  OBVIOUS
<1>3. PICK n \in Nat, b \in Nat : n = Depth /\ b = Top.stack_bottom
  BY FramesFacts, OwnFacts
<1>4. /\ MachineOK /\ ScriptFirst /\ Reaches(tables) /\ Stacked(tables) /\ Typed(tables) /\ Waits(tables)
      /\ GlobalsThere(globals, tables, needs) /\ TablesOK(globals, tables)
      /\ NeedsOK(globals, tables, needs) /\ n \in Nat \ {0} /\ n \in 1..n /\ 1 \in 1..n
      /\ \A i \in 1..n : Bottom(i) \in Nat /\ EndOf(i) \in Nat /\ (i < n => EndOf(i) <= b)
  BY <1>3, FramesFacts
<1>5. /\ c \in DOMAIN program \ {MainId} /\ m \in 0..Len(s) /\ slot = b + m
      /\ slot + Len(entry) = Len(stack) /\ slot \in Nat
      /\ IsSequence(entry) /\ entry # Dead /\ tables[c][1] = entry
      /\ 0 < Len(program[c].code)
      /\ \A j \in 1..Len(entry) : HasType(stack[slot + j], entry[j])
      /\ effect = SubSeq(s, 1, m) \o <<ret>>
  BY <1>1, <1>2, <1>3, CallTyped
<1>6. /\ Depth' = n + 1 /\ stack' = stack /\ program' = program
      /\ \A i \in 1..n : /\ call_stack'[i].function = call_stack[i].function
                         /\ call_stack'[i].stack_bottom = call_stack[i].stack_bottom
                         /\ call_stack'[i].ip = IF i = n THEN next ELSE call_stack[i].ip
      /\ call_stack'[n + 1].function = c /\ call_stack'[n + 1].ip = 0 /\ call_stack'[n + 1].stack_bottom = slot
  <2>1. call_stack'[n + 1] = Frame(c, slot)
    BY <1>1, <1>2, <1>3, <1>4, CalledFrames
  <2> QED
    BY <1>1, <1>3, <1>4, <2>1, CalledFrames DEF Frame
<1>7. /\ next \in 0..(Len(program[k].code) - 1) /\ next \in Nat /\ tables[k][next + 1] = effect /\ effect # Dead
      /\ k = call_stack[n].function /\ next < Len(program[k].code) /\ Len(program[k].code) \in Nat
  <2>1. Op = "CallUser"
    BY <1>4, IsExecutable DEF CallUser
  <2>2. next \in Successors(k, ip)
    BY <1>1, <2>1, HereFacts, SuccessorsAre DEF Unwritten
  <2>3. /\ next \in 0..(Len(Fn.code) - 1) /\ tables[k][next + 1] = effect /\ effect # Dead /\ Fn = program[k]
    BY <1>1, <2>2, HereFacts
  <2>4. Len(program[k].code) \in Nat /\ k = call_stack[n].function
    BY <1>1, <1>3, <1>4, <2>3, TopFacts
  <2> QED
    BY <2>3, <2>4
<1>8. /\ IsSequence(effect) /\ effect # <<>> /\ Last(effect) = ret
      /\ Len(Front(effect)) = m /\ \A i \in 1..m : Front(effect)[i] = s[i]
  <2>1. IsSequence(s)
    BY <1>1, OwnFacts
  <2>2. m \in 0..Len(s) /\ effect = SubSeq(s, 1, m) \o <<ret>>
    BY <1>5
  <2>3. WaitsFor(effect, s, m, ret)
    BY <2>1, <2>2, CallEffect
  <2> QED
    BY <2>3 DEF WaitsFor
<1>9. MainId' = MainId
  BY <1>6 DEF MainId
<1>10. \A i \in 1..n : /\ Bottom(i)' = Bottom(i)
                       /\ Expected(tables, i)' = IF i = n THEN effect ELSE Expected(tables, i)
                       /\ Held(tables, i)' = IF i = n THEN Front(effect) ELSE Held(tables, i)
                       /\ EndOf(i)' = IF i = n THEN slot ELSE EndOf(i)
  <2> TAKE i \in 1..n
  <2>1. Bottom(i)' = Bottom(i)
    BY <1>6 DEF Bottom
  <2>2. Expected(tables, i)' = IF i = n THEN effect ELSE Expected(tables, i)
    BY <1>6, <1>7 DEF Expected
  <2>3. i < n + 1 /\ (i # n => i < n)
    BY <1>4
  <2>4. Held(tables, i)' = IF i = n THEN Front(effect) ELSE Held(tables, i)
    BY <1>3, <1>6, <2>2, <2>3 DEF Held
  <2>5. EndOf(i)' = IF i = n THEN slot ELSE EndOf(i)
    <3>1. i < n => i + 1 \in 1..n
      BY <1>4
    <3> QED
      BY <1>3, <1>6, <2>3, <3>1 DEF EndOf, Bottom
  <2> QED
    BY <2>1, <2>2, <2>4, <2>5
<1>11. PICK l \in Nat : l = n + 1 /\ l \in 1..l /\ l # 1 /\ \A i \in 1..l : i = l \/ i \in 1..n
  BY <1>4
<1>12. /\ Bottom(l)' = slot /\ Expected(tables, l)' = entry /\ Held(tables, l)' = entry
       /\ EndOf(l)' = Len(stack)
  <2>1. Bottom(l)' = slot
    BY <1>6, <1>11 DEF Bottom
  <2>2. Expected(tables, l)' = entry
    BY <1>5, <1>6, <1>11 DEF Expected
  <2>3. ~(l < Depth')
    BY <1>6, <1>11
  <2> QED
    BY <1>6, <2>1, <2>2, <2>3 DEF Held, EndOf
<1>13. ScriptFirst'
  <2>1. Bottom(1)' = 0
    BY <1>4, <1>10 DEF ScriptFirst
  <2>2. \A i \in 1..l : (call_stack'[i].function = MainId) <=> (i = 1)
    <3> TAKE i \in 1..l
    <3>1. CASE i = l
      BY <1>5, <1>6, <1>11, <3>1
    <3>2. CASE i \in 1..n
      BY <1>3, <1>4, <1>6, <3>2 DEF ScriptFirst
    <3> QED
      BY <1>11, <3>1, <3>2
  <2> QED
    BY <1>6, <1>9, <1>11, <2>1, <2>2 DEF ScriptFirst
<1>14. Reaches(tables)'
  <2> SUFFICES ASSUME NEW i \in 1..l
               PROVE  /\ IsSequence(Expected(tables, i))' /\ (Expected(tables, i))' # Dead
                      /\ call_stack'[i].ip < Len(program'[call_stack'[i].function].code)
    BY <1>6, <1>11 DEF Reaches
  <2>1. CASE i = l
    BY <1>5, <1>6, <1>11, <1>12, <2>1 DEF IsSequence
  <2>2. CASE i \in 1..n
    <3>1. CASE i = n
      BY <1>6, <1>7, <1>8, <1>10, <2>2, <3>1 DEF IsSequence
    <3>2. CASE i # n
      BY <1>3, <1>4, <1>6, <1>10, <2>2, <3>2 DEF Reaches, IsSequence
    <3> QED
      BY <3>1, <3>2
  <2> QED
    BY <1>11, <2>1, <2>2
<1>15. Stacked(tables)'
  <2>1. \A i \in 1..l : Bottom(i)' + Len(Held(tables, i)') = EndOf(i)'
    <3> TAKE i \in 1..l
    <3>1. CASE i = l
      BY <1>5, <1>12, <3>1
    <3>2. CASE i = n
      <4>1. Bottom(n) = b
        BY <1>3, TopFacts, <1>4 DEF Bottom
      <4> QED
        BY <1>4, <1>5, <1>8, <1>10, <3>2, <4>1
    <3>3. CASE i \in 1..n /\ i # n
      <4>1. Bottom(i) + Len(Held(tables, i)) = EndOf(i)
        BY <1>3, <1>4, <3>3 DEF Stacked
      <4> QED
        BY <1>10, <3>3, <4>1
    <3> QED
      BY <1>11, <3>1, <3>2, <3>3
  <2>2. \A i, j \in 1..l : i < j => EndOf(i)' <= Bottom(j)'
    <3> TAKE i, j \in 1..l
    <3> HAVE i < j
    <3>1. i \in 1..n
      BY <1>11
    <3>2. CASE j = l
      <4>1. CASE i = n
        BY <1>5, <1>10, <1>12, <3>1, <3>2, <4>1
      <4>2. CASE i # n
        <5>1. EndOf(i)' = EndOf(i) /\ EndOf(i) \in Nat /\ EndOf(i) <= b
          BY <1>4, <1>10, <3>1, <4>2
        <5>2. slot >= b
          BY <1>5
        <5> QED
          BY <1>5, <1>12, <3>2, <5>1, <5>2
      <4> QED
        BY <4>1, <4>2
    <3>3. CASE j \in 1..n
      <4>1. i # n
        BY <3>1, <3>3
      <4>2. EndOf(i) <= Bottom(j)
        BY <1>3, <1>4, <3>1, <3>3 DEF Stacked
      <4> QED
        BY <1>10, <3>1, <3>3, <4>1, <4>2
    <3> QED
      BY <1>11, <3>2, <3>3
  <2> QED
    BY <1>6, <1>11, <2>1, <2>2 DEF Stacked
<1>16. Typed(tables)'
  <2> SUFFICES ASSUME NEW i \in 1..l, NEW j \in 1..Len(Held(tables, i)')
               PROVE  HasType(stack[Bottom(i)' + j], Held(tables, i)'[j])
    BY <1>6, <1>11 DEF Typed, HasType
  <2>1. CASE i = l
    BY <1>5, <1>12, <2>1
  <2>2. CASE i = n
    <3>1. j \in 1..m /\ Front(effect)[j] = s[j] /\ Held(tables, i)' = Front(effect)
      BY <1>4, <1>8, <1>10, <2>2
    <3>2. j \in 1..Len(s) /\ Bottom(n) = b
      <4>1. Len(s) \in Nat
        BY <1>1, OwnFacts
      <4>2. Bottom(n) = b
        BY <1>3, <1>4, TopFacts DEF Bottom
      <4> QED
        BY <1>5, <3>1, <4>1, <4>2
    <3>3. HasType(stack[b + j], s[j])
      BY <1>1, <1>3, <3>2, OwnFacts
    <3> QED
      BY <1>4, <1>10, <2>2, <3>1, <3>2, <3>3
  <2>3. CASE i \in 1..n /\ i # n
    <3>1. Held(tables, i)' = Held(tables, i) /\ Bottom(i)' = Bottom(i)
      BY <1>10, <2>3
    <3> QED
      BY <1>3, <1>4, <2>3, <3>1 DEF Typed
  <2> QED
    BY <1>11, <2>1, <2>2, <2>3
<1>17. Waits(tables)'
  <2> SUFFICES ASSUME NEW i \in 1..(l - 1)
               PROVE  /\ Expected(tables, i)' # <<>>
                      /\ Last(Expected(tables, i)') = Of(program[call_stack'[i + 1].function].ret_type)
    BY <1>6, <1>11 DEF Waits, Of, Last
  <2>1. i \in 1..n
    BY <1>11
  <2>2. CASE i = n
    BY <1>2, <1>6, <1>8, <1>10, <2>1, <2>2
  <2>3. CASE i # n
    <3>1. i \in 1..(n - 1) /\ i + 1 \in 1..n
      BY <2>1, <2>3
    <3> QED
      BY <1>3, <1>4, <1>6, <1>10, <2>1, <2>3, <3>1 DEF Waits
  <2> QED
    BY <2>2, <2>3
<1>18. GlobalsThere(globals, tables, needs)'
  <2> SUFFICES ASSUME NEW i \in 2..l, NEW g \in Byte, g \in needs[call_stack'[i].function]
               PROVE  g < Len(Held(tables, 1)') /\ Held(tables, 1)'[g + 1] = globals[g + 1]
    BY <1>6, <1>11 DEF GlobalsThere, Byte
  <2>1. CASE n = 1
    <3>1. i = l
      BY <1>11, <2>1
    <3>2. g < m /\ s[g + 1] = globals[g + 1]
      BY <1>1, <1>3, <1>6, <1>11, <2>1, <3>1, CalleeGlobals
    <3>3. g + 1 \in 1..m
      <4>1. m \in Nat /\ g \in Nat
        BY <1>8, <1>5 DEF Byte
      <4> QED
        BY <3>2, <4>1
    <3>4. Held(tables, 1)' = Front(effect)
      BY <1>4, <1>10, <2>1
    <3> QED
      BY <1>8, <3>2, <3>3, <3>4
  <2>2. CASE n # 1
    <3>1. Held(tables, 1)' = Held(tables, 1)
      BY <1>4, <1>10, <2>2
    <3>2. PICK j \in 2..n : g \in needs[call_stack[j].function]
      <4>1. CASE i = l
        <5>1. g \in needs[k]
          BY <1>1, <1>3, <1>6, <1>11, <2>2, <4>1, CalleeGlobals
        <5>2. n \in 2..n
          BY <1>4, <2>2
        <5> QED
          BY <1>7, <5>1, <5>2
      <4>2. CASE i # l
        <5>1. i \in 2..n /\ i \in 1..n
          BY <1>11, <4>2
        <5> QED
          BY <1>6, <5>1
      <4> QED
        BY <4>1, <4>2
    <3> QED
      BY <1>3, <1>4, <3>1, <3>2 DEF GlobalsThere
  <2> QED
    BY <2>1, <2>2
<1> QED
  BY <1>4, <1>6, <1>13, <1>14, <1>15, <1>16, <1>17, <1>18, SameTables, SameNeeds DEF Accepted, FramesOK

\* A return takes the frame and what it holds, except for the topmost value.
LEMMA ReturnedFrames ==
  ASSUME NEW globals, NEW tables, NEW needs, Accepted(globals, tables, needs), Return, Depth # 1,
         NEW s, s = Expected(tables, Depth), NEW b, b = Top.stack_bottom
  PROVE  /\ Depth' = Depth - 1 /\ program' = program /\ status' = status
         /\ Depth - 1 \in Nat \ {0} /\ Len(s) \in Nat /\ Len(s) >= 1
         /\ s[Len(s)] = Of(program[Top.function].ret_type)
         /\ \A i \in 1..(Depth - 1) : call_stack'[i] = call_stack[i]
         /\ Len(stack') = b + 1 /\ stack'[b + 1] = Peek(0) /\ \A i \in 1..b : stack'[i] = stack[i]
         /\ b \in Nat /\ b + 1 <= Len(stack)
<1>1. PICK k, effect, slots :
        /\ k = Top.function /\ effect = Effect(k, globals, Top.ip, s)
        /\ slots = (IF k = MainId THEN s ELSE globals)
  OBVIOUS
<1>2. Admits(Op, Arg, k, s, Len(s), slots, effect)
  BY <1>1, EffectHere
<1>3. MachineOK /\ Op = "Return" /\ k # MainId /\ Depth \in Nat \ {0}
  <2>1. MachineOK
    BY DEF Accepted
  <2> QED
    BY <1>1, <2>1, IsExecutable, HereFacts, TopFacts DEF Return
<1>4. Len(s) >= 1 /\ s[Len(s)] = Of(program[k].ret_type)
  BY <1>2, <1>3 DEF Admits
<1>5. b \in Nat /\ Len(s) \in Nat /\ b + Len(s) = Len(stack) /\ b + 1 <= Len(stack) /\ Len(stack) \in Nat
  BY <1>4, OwnFacts
<1>6. PICK top, old, n : top = Peek(0) /\ old = stack /\ n = Depth - 1 /\ n \in Nat \ {0}
  BY <1>3
<1>7. stack' = Append(SubSeq(old, 1, b), top) /\ call_stack' = SubSeq(call_stack, 1, n) /\ Same
  BY <1>5, <1>6 DEF Return
<1>8. Len(stack') = b + 1 /\ stack'[b + 1] = top /\ \A i \in 1..b : stack'[i] = stack[i]
  <2>1. PICK low : low = SubSeq(old, 1, b)
    OBVIOUS
  <2>2. IsSequence(old) /\ b \in 0..Len(old)
    BY <1>3, <1>5, <1>6, SeqIsSequence DEF MachineOK
  <2>3. IsSequence(low) /\ Len(low) = b /\ \A i \in 1..b : low[i] = old[i]
    BY <2>1, <2>2, FirstPart
  <2>4. /\ Len(Append(low, top)) = Len(low) + 1 /\ Append(low, top)[Len(low) + 1] = top
        /\ \A i \in 1..Len(low) : Append(low, top)[i] = low[i]
    BY <2>3, Appended
  <2> QED
    BY <1>6, <1>7, <2>1, <2>3, <2>4
<1>9. Len(call_stack') = n /\ \A i \in 1..n : call_stack'[i] = call_stack[i]
  <2>1. IsSequence(call_stack) /\ n \in 0..Len(call_stack)
    BY <1>3, <1>6, SeqIsSequence DEF MachineOK, Depth
  <2> QED
    BY <1>7, <2>1, FirstPart
<1> QED
  BY <1>1, <1>4, <1>5, <1>6, <1>7, <1>8, <1>9 DEF Depth, Same

\* A return keeps what the tables say: the caller now holds the value that it waited
\* for.
LEMMA ReturnAccepted ==
  ASSUME NEW globals, NEW tables, NEW needs, Accepted(globals, tables, needs), MachineOK', Return, Depth # 1
  PROVE  Accepted(globals, tables, needs)'
<1>1. PICK s, k, top : s = Expected(tables, Depth) /\ k = Top.function /\ top = Peek(0)
  OBVIOUS
<1>2. PICK d \in Nat, b \in Nat : d = Depth /\ b = Top.stack_bottom
  BY FramesFacts, OwnFacts
<1>3. /\ MachineOK /\ ScriptFirst /\ Reaches(tables) /\ Stacked(tables) /\ Typed(tables) /\ Waits(tables)
      /\ GlobalsThere(globals, tables, needs) /\ TablesOK(globals, tables)
      /\ NeedsOK(globals, tables, needs)
      /\ \A i \in 1..d : /\ Bottom(i) \in Nat /\ EndOf(i) \in Nat
                         /\ Len(Held(tables, i)) \in Nat /\ Bottom(i) + Len(Held(tables, i)) = EndOf(i)
                         /\ i < d => EndOf(i) <= b
  BY <1>2, FramesFacts
<1>4. PICK n \in Nat \ {0} : n = d - 1
  BY <1>2, ReturnedFrames
<1>5. /\ Depth' = n /\ program' = program /\ n \in 1..n
      /\ Len(s) \in Nat /\ Len(s) >= 1 /\ s[Len(s)] = Of(program[k].ret_type)
      /\ \A i \in 1..n : call_stack'[i] = call_stack[i]
      /\ Len(stack') = b + 1 /\ stack'[b + 1] = top /\ \A i \in 1..b : stack'[i] = stack[i]
  BY <1>1, <1>2, <1>4, ReturnedFrames
<1>6. PICK here : here = Expected(tables, n)
  OBVIOUS
<1>7. \A i \in 1..n : i \in 1..d /\ i < d /\ i + 1 \in 1..d /\ i \in 1..(d - 1)
  BY <1>4
<1>8. n + 1 = d
  BY <1>4
<1>9. /\ IsSequence(here) /\ here # <<>> /\ here # Dead /\ Held(tables, n) = Front(here)
      /\ Last(here) = Of(program[k].ret_type) /\ EndOf(n) = b
  <2>1. IsSequence(here) /\ here # Dead
    BY <1>2, <1>3, <1>5, <1>6, <1>7 DEF Reaches
  <2>2. here # <<>> /\ Last(here) = Of(program[call_stack[n + 1].function].ret_type)
    BY <1>2, <1>3, <1>5, <1>6, <1>7 DEF Waits
  <2>3. call_stack[n + 1].function = k /\ call_stack[n + 1].stack_bottom = b
    BY <1>1, <1>2, <1>3, <1>8, TopFacts
  <2>4. Held(tables, n) = Front(here) /\ EndOf(n) = b
    BY <1>2, <1>5, <1>6, <1>7, <2>3 DEF Held, EndOf, Bottom
  <2> QED
    BY <2>1, <2>2, <2>3, <2>4
<1>10. PICK h \in Nat : /\ h = Len(Held(tables, n)) /\ Len(here) = h + 1 /\ Bottom(n) + h = b
                        /\ here[h + 1] = Of(program[k].ret_type)
                        /\ \A j \in 1..h : here[j] = Held(tables, n)[j]
  <2>1. Len(here) \in Nat \ {0} /\ Len(Front(here)) = Len(here) - 1
        /\ \A j \in 1..(Len(here) - 1) : Front(here)[j] = here[j]
    BY <1>9, Popped
  <2>2. here[Len(here)] = Of(program[k].ret_type)
    BY <1>9 DEF Last
  <2>3. PICK h \in Nat : h = Len(here) - 1
    BY <2>1
  <2>4. h = Len(Held(tables, n)) /\ Len(here) = h + 1
    BY <1>9, <2>1, <2>3
  <2>5. Bottom(n) + h = b
    BY <1>3, <1>5, <1>7, <1>9, <2>4
  <2> QED
    BY <1>9, <2>1, <2>2, <2>3, <2>4, <2>5
<1>11. MainId' = MainId
  BY <1>5 DEF MainId
<1>12. \A i \in 1..n : /\ Bottom(i)' = Bottom(i) /\ Expected(tables, i)' = Expected(tables, i)
                       /\ Held(tables, i)' = IF i = n THEN here ELSE Held(tables, i)
                       /\ EndOf(i)' = IF i = n THEN b + 1 ELSE EndOf(i)
  <2> TAKE i \in 1..n
  <2>1. Bottom(i)' = Bottom(i) /\ Expected(tables, i)' = Expected(tables, i)
    BY <1>5 DEF Bottom, Expected
  <2>2. i < d /\ (i # n => i < n)
    BY <1>4
  <2>3. Held(tables, i)' = IF i = n THEN here ELSE Held(tables, i)
    BY <1>2, <1>5, <1>6, <2>1, <2>2 DEF Held
  <2>4. EndOf(i)' = IF i = n THEN b + 1 ELSE EndOf(i)
    <3>1. i < n => i + 1 \in 1..n
      BY <1>4
    <3> QED
      BY <1>2, <1>5, <2>2, <3>1 DEF EndOf, Bottom
  <2> QED
    BY <2>1, <2>3, <2>4
<1>13. ScriptFirst'
  <2>1. Bottom(1)' = 0
    BY <1>3, <1>4, <1>12 DEF ScriptFirst
  <2>2. \A i \in 1..n : (call_stack'[i].function = MainId) <=> (i = 1)
    BY <1>2, <1>3, <1>5, <1>7 DEF ScriptFirst
  <2> QED
    BY <1>5, <1>11, <2>1, <2>2 DEF ScriptFirst
<1>14. Reaches(tables)'
  <2> SUFFICES ASSUME NEW i \in 1..n
               PROVE  /\ IsSequence(Expected(tables, i))' /\ (Expected(tables, i))' # Dead
                      /\ call_stack'[i].ip < Len(program'[call_stack'[i].function].code)
    BY <1>5 DEF Reaches
  <2> QED
    BY <1>2, <1>3, <1>5, <1>7, <1>12 DEF Reaches, IsSequence
<1>15. Stacked(tables)'
  <2>1. \A i \in 1..n : Bottom(i)' + Len(Held(tables, i)') = EndOf(i)'
    <3> TAKE i \in 1..n
    <3>1. CASE i = n
      <4>1. Bottom(n) \in Nat
        BY <1>3, <1>5, <1>7
      <4> QED
        BY <1>10, <1>12, <3>1, <4>1
    <3>2. CASE i # n
      BY <1>3, <1>7, <1>12, <3>2
    <3> QED
      BY <3>1, <3>2
  <2>2. \A i, j \in 1..n : i < j => EndOf(i)' <= Bottom(j)'
    <3> TAKE i, j \in 1..n
    <3> HAVE i < j
    <3>1. i # n
      BY <1>4
    <3>2. EndOf(i) <= Bottom(j)
      BY <1>2, <1>3, <1>7 DEF Stacked
    <3> QED
      BY <1>12, <3>1, <3>2
  <2> QED
    BY <1>5, <2>1, <2>2 DEF Stacked
<1>16. Typed(tables)'
  <2> SUFFICES ASSUME NEW i \in 1..n, NEW j \in 1..Len(Held(tables, i)')
               PROVE  HasType(stack'[Bottom(i)' + j], Held(tables, i)'[j])
    BY <1>5 DEF Typed, HasType
  <2>1. CASE i = n /\ j = h + 1
    <3>1. Bottom(n) + j = b + 1
      <4>1. Bottom(n) \in Nat
        BY <1>3, <1>5, <1>7
      <4> QED
        BY <1>10, <2>1, <4>1
    <3>2. HasType(top, s[Len(s)])
      <4>1. 0 \in Nat /\ 0 < Len(s) /\ Len(s) - 0 = Len(s)
        BY <1>5
      <4>2. HasType(Peek(0), s[Len(s) - 0])
        BY <1>1, <4>1, OwnPeek
      <4> QED
        BY <1>1, <4>1, <4>2
    <3> QED
      BY <1>5, <1>10, <1>12, <2>1, <3>1, <3>2
  <2>2. CASE ~(i = n /\ j = h + 1)
    <3>1. j \in 1..Len(Held(tables, i)) /\ Held(tables, i)'[j] = Held(tables, i)[j]
      <4>1. CASE i = n
        <5>1. j \in 1..h
          BY <1>10, <1>12, <2>2, <4>1
        <5> QED
          BY <1>10, <1>12, <4>1, <5>1
      <4>2. CASE i # n
        BY <1>12, <4>2
      <4> QED
        BY <4>1, <4>2
    <3>2. Bottom(i) + j \in 1..b
      <4>1. PICK from \in Nat, l \in Nat : from = Bottom(i) /\ l = Len(Held(tables, i))
        BY <1>3, <1>7
      <4>2. from + l <= b
        BY <1>3, <1>7, <4>1
      <4> QED
        BY <3>1, <4>1, <4>2
    <3>3. HasType(stack[Bottom(i) + j], Held(tables, i)[j])
      BY <1>2, <1>3, <1>7, <3>1 DEF Typed
    <3> QED
      BY <1>5, <1>12, <3>1, <3>2, <3>3
  <2> QED
    BY <2>1, <2>2
<1>17. Waits(tables)'
  <2> SUFFICES ASSUME NEW i \in 1..(n - 1)
               PROVE  /\ Expected(tables, i)' # <<>>
                      /\ Last(Expected(tables, i)') = Of(program[call_stack'[i + 1].function].ret_type)
    BY <1>5 DEF Waits, Of, Last
  <2>1. i \in 1..n /\ i + 1 \in 1..n
    OBVIOUS
  <2> QED
    BY <1>2, <1>3, <1>5, <1>7, <1>12, <2>1 DEF Waits
<1>18. GlobalsThere(globals, tables, needs)'
  <2> SUFFICES ASSUME NEW i \in 2..n, NEW g \in Byte, g \in needs[call_stack'[i].function]
               PROVE  g < Len(Held(tables, 1)') /\ Held(tables, 1)'[g + 1] = globals[g + 1]
    BY <1>5 DEF GlobalsThere, Byte
  <2>1. i \in 1..n /\ i \in 2..d /\ 1 \in 1..n /\ 1 # n
    BY <1>4
  <2>2. Held(tables, 1)' = Held(tables, 1) /\ g \in needs[call_stack[i].function]
    BY <1>5, <1>12, <2>1
  <2> QED
    BY <1>2, <1>3, <2>1, <2>2 DEF GlobalsThere
<1> QED
  BY <1>3, <1>5, <1>13, <1>14, <1>15, <1>16, <1>17, <1>18, SameTables, SameNeeds DEF Accepted, FramesOK

\* An instruction on the fields of an object is refused by the verifier.
LEMMA NoFields ==
  ASSUME NEW globals, NEW tables, NEW needs, Accepted(globals, tables, needs)
  PROVE  ~FieldGet /\ ~FieldSet
<1>1. PICK s, k, effect, slots :
        /\ s = Expected(tables, Depth) /\ k = Top.function /\ effect = Effect(k, globals, Top.ip, s)
        /\ slots = (IF k = MainId THEN s ELSE globals)
  OBVIOUS
<1>2. Admits(Op, Arg, k, s, Len(s), slots, effect)
  BY <1>1, EffectHere
<1> QED
  BY <1>2 DEF Admits, FieldGet, FieldSet, Executing

\* Every cycle of the machine on an accepted program leaves what the tables say or
\* ends the run, and not in a panic that the machine does not guard against.
LEMMA CycleAccepted ==
  ASSUME NEW globals, NEW tables, NEW needs, Accepted(globals, tables, needs), status = "running", Cycle
  PROVE  /\ MachineOK' /\ status' \notin Faults
         /\ status' = "running" => Accepted(globals, tables, needs)'
<1>1. MachineOK /\ MachineOK'
  BY CycleKeeps DEF Accepted
<1>2. "running" \notin Faults /\ "ended" \notin Faults /\ "ManualCrash" \notin Faults
      /\ "TypeError" \notin Faults /\ "arithmetic_panic" \notin Faults
  BY DEF Faults
<1>3. CASE Pass \/ PushLiteral \/ TESTTakeInput
  <2>1. status' = status
    BY <1>3 DEF Pass, PushLiteral, TESTTakeInput, Replace, Same
  <2> QED
    BY <1>1, <1>2, <1>3, <2>1, PushAccepted
<1>4. CASE GetLocal \/ GetGlobal
  <2>1. status' = status
    BY <1>4 DEF GetLocal, GetGlobal, Replace, Same
  <2> QED
    BY <1>1, <1>2, <1>4, <2>1, GetAccepted
<1>5. CASE SetLocal \/ SetGlobal
  <2>1. status' = status
    BY <1>5 DEF SetLocal, SetGlobal, StoreAt, Same
  <2> QED
    BY <1>1, <1>2, <1>5, <2>1, SetAccepted
<1>6. CASE Pop
  <2>1. status' = status
    BY <1>6 DEF Pop, Replace, Same
  <2> QED
    BY <1>1, <1>2, <1>6, <2>1, PopAccepted
<1>7. CASE Jump \/ JumpIfNot
  <2>1. status' = status
    BY <1>7 DEF Jump, JumpIfNot, Same
  <2> QED
    BY <1>1, <1>2, <1>7, <2>1, JumpAccepted
<1>8. CASE CallUser
  <2>1. status' = status
    BY <1>8 DEF CallUser, Same
  <2> QED
    BY <1>1, <1>2, <1>8, <2>1, CallAccepted
<1>9. CASE CallNative
  <2>1. status' = status
    BY <1>9 DEF CallNative, Replace, Same
  <2> QED
    BY <1>1, <1>2, <1>9, <2>1, NativeAccepted
<1>10. CASE NewObject
  <2>1. status' = status
    BY <1>10 DEF NewObject
  <2> QED
    BY <1>1, <1>2, <1>10, <2>1, NewObjectAccepted
<1>11. CASE Return
  <2>1. CASE Depth = 1
    <3>1. status' = "ended"
      BY <1>11, <2>1 DEF Return
    <3> QED
      BY <1>1, <1>2, <3>1
  <2>2. CASE Depth # 1
    <3>1. status' = status
      BY <1>11, <2>2 DEF Return, Same
    <3> QED
      BY <1>1, <1>2, <1>11, <2>2, <3>1, ReturnAccepted
  <2> QED
    BY <2>1, <2>2
<1>12. CASE FieldGet \/ FieldSet
  BY <1>12, NoFields
<1>13. CASE UnwrapAny
  <2>1. CASE status' = "running"
    BY <1>1, <1>2, <1>13, <2>1, ComputeAccepted
  <2>2. CASE status' # "running"
    <3>1. status' = "TypeError"
      <4>1. PICK top : top = Peek(0)
        OBVIOUS
      <4>2. CASE top.within = Unwraps[Op]
        BY <1>13, <2>2, <4>1, <4>2 DEF UnwrapAny, Replace, Same
      <4>3. CASE top.within # Unwraps[Op]
        BY <1>13, <4>1, <4>3 DEF UnwrapAny
      <4> QED
        BY <4>2, <4>3
    <3> QED
      BY <1>1, <1>2, <3>1
  <2> QED
    BY <2>1, <2>2
<1>14. CASE WrapAny \/ ValEqual \/ Compute \/ TESTYield
  <2>1. status' = status
    BY <1>14 DEF WrapAny, ValEqual, Compute, TESTYield, Replace, Same
  <2> QED
    BY <1>1, <1>2, <1>14, <2>1, ComputeAccepted
<1>15. CASE ArithmeticPanic
  <2>1. status' = "arithmetic_panic"
    BY <1>15 DEF ArithmeticPanic
  <2> QED
    BY <1>1, <1>2, <2>1
<1>16. CASE Crash
  <2>1. status' = "ManualCrash"
    BY <1>16 DEF Crash
  <2> QED
    BY <1>1, <1>2, <2>1
<1>17. CASE Fault
  <2>1. status' = Problem /\ Problem # "none"
    BY <1>17 DEF Fault
  <2>2. Problem \in {"none"} \cup Limits \cup Faults /\ "running" \notin Limits
    BY RefusalIsEnd DEF Problem, Limits, Faults
  <2>3. Problem \notin Faults
    BY NoFault
  <2> QED
    BY <1>1, <2>1, <2>2, <2>3
<1> QED
  BY <1>3, <1>4, <1>5, <1>6, <1>7, <1>8, <1>9, <1>10, <1>11, <1>12, <1>13, <1>14, <1>15, <1>16, <1>17 DEF Cycle

\* A run starts with what the verifier expects of the main script.
LEMMA BootAccepted ==
  ASSUME NEW globals, NEW tables, NEW needs, IsProgram(program), Boot(MainId),
         TablesOK(globals, tables), NeedsOK(globals, tables, needs)
  PROVE  Accepted(globals, tables, needs)
<1>1. MachineOK
  BY BootHolds
<1>2. MainId \in DOMAIN program
  BY EmptySeq, LenProperties DEF IsProgram, MainId
<1>3. /\ Depth = 1 /\ call_stack[1].function = MainId /\ call_stack[1].ip = 0 /\ call_stack[1].stack_bottom = 0
      /\ stack = NativeValues
  BY DEF Boot, FirstFrame, Frame, Depth
<1>4. PICK n \in Nat : n = Len(Natives) /\ DOMAIN Natives = 1..n
  BY RegistryAssumption
<1>5. PICK entry : entry = Entry(MainId)
  OBVIOUS
<1>6. entry = [i \in 1..n |-> [t |-> "NativeFunc", f |-> i]]
  BY <1>4, <1>5 DEF Entry
<1>7. IsSequence(entry) /\ Len(entry) = n
  <2>1. entry = [i \in 1..n |-> entry[i]]
    BY <1>6
  <2> QED
    BY <2>1, FunctionIsSequence
<1>8. Len(stack) = n /\ \A i \in 1..n : stack[i] = Val("NativeFunc", i)
  <2>1. stack = [i \in 1..n |-> Val("NativeFunc", i)]
    BY <1>3, <1>4 DEF NativeValues
  <2>2. stack = [i \in 1..n |-> stack[i]]
    BY <2>1
  <2> QED
    BY <2>1, <2>2, FunctionIsSequence
<1>9. entry # Dead
  <2>1. n # 0
    BY <1>4, RegistryAssumption
  <2>2. entry[1].t = "NativeFunc" /\ Dead[1].t = "dead"
    BY <1>6, <2>1 DEF Dead, Mark
  <2> QED
    BY <2>2
<1>10. tables[MainId][1] = entry /\ 0 < Len(program[MainId].code)
  <2>1. FunctionOK(MainId, globals, tables[MainId])
    BY <1>2 DEF TablesOK
  <2>2. tables[MainId][1] = entry
    BY <1>5, <2>1 DEF FunctionOK
  <2>3. program[MainId].code \in Seq(Byte)
    BY <1>2 DEF IsProgram
  <2>4. 0 \in 0..Len(program[MainId].code) /\ tables[MainId][0 + 1] # Dead
    BY <1>9, <2>2, <2>3, LenProperties
  <2>5. Readable(MainId, 0)
    BY <2>1, <2>4 DEF FunctionOK
  <2> QED
    BY <2>2, <2>5 DEF Readable
<1>11. Expected(tables, 1) = entry /\ Held(tables, 1) = entry /\ Bottom(1) = 0 /\ EndOf(1) = n
  BY <1>3, <1>8, <1>10 DEF Expected, Held, Bottom, EndOf
<1>12. ScriptFirst /\ Reaches(tables) /\ Stacked(tables) /\ Waits(tables) /\ GlobalsThere(globals, tables, needs)
  <2>1. ScriptFirst
    BY <1>3, <1>11 DEF ScriptFirst
  <2>2. Reaches(tables)
    BY <1>3, <1>7, <1>9, <1>10, <1>11 DEF Reaches
  <2>3. Stacked(tables)
    BY <1>3, <1>7, <1>11 DEF Stacked
  <2>4. Waits(tables) /\ GlobalsThere(globals, tables, needs)
    BY <1>3 DEF Waits, GlobalsThere
  <2> QED
    BY <2>1, <2>2, <2>3, <2>4
<1>13. Typed(tables)
  <2>1. \A j \in 1..n : HasType(stack[j], entry[j])
    BY <1>6, <1>8 DEF HasType, Val
  <2>2. \A j \in 1..n : 0 + j = j
    OBVIOUS
  <2> QED
    BY <1>3, <1>7, <1>11, <2>1, <2>2 DEF Typed
<1> QED
  BY <1>1, <1>12, <1>13 DEF Accepted, FramesOK

\* Doing nothing keeps what they say.
LEMMA StutterAccepted ==
  ASSUME NEW globals, NEW tables, NEW needs, Accepted(globals, tables, needs), UNCHANGED vmVars
  PROVE  Accepted(globals, tables, needs)'
<1>1. program' = program /\ stack' = stack /\ heap' = heap /\ call_stack' = call_stack /\ status' = status
  BY DEF vmVars
<1>2. MachineOK'
  BY StutterKeeps DEF Accepted
<1>3. FramesOK(globals, tables, needs)'
  BY <1>1 DEF Accepted, FramesOK, ScriptFirst, Reaches, Stacked, Typed, Waits, GlobalsThere,
              Expected, Held, Bottom, EndOf, Depth, MainId
<1> QED
  BY <1>1, <1>2, <1>3, SameTables, SameNeeds DEF Accepted

(***************************************************************************)
(* What a cycle leaves alone.                                              *)
(***************************************************************************)
\* The activations stay, and so does the stack below the one that runs, except for
\* a global.
Works ==
    /\ Depth' = Depth
    /\ \A i \in 1..Depth : /\ call_stack'[i].function = call_stack[i].function
                           /\ call_stack'[i].stack_bottom = call_stack[i].stack_bottom
    /\ \E p \in Nat : /\ Depth > 1 => p <= EndOf(1)
                      /\ \A j \in 1..Top.stack_bottom : j # p => stack'[j] = stack[j]

\* An instruction pointer moves and no more of the frames.
LEMMA MovesOnly ==
  ASSUME MachineOK, NEW ip, MoveTo(ip)
  PROVE  /\ Depth' = Depth
         /\ \A i \in 1..Depth : /\ call_stack'[i].function = call_stack[i].function
                                /\ call_stack'[i].stack_bottom = call_stack[i].stack_bottom
<1>1. PICK old, new, d, f : old = call_stack /\ new = call_stack' /\ d = Depth /\ f = [Top EXCEPT !.ip = ip]
  OBVIOUS
<1>2. IsSequence(old) /\ d \in DOMAIN old /\ DOMAIN old = 1..d /\ d = Len(old) /\ Top \in FrameSet /\ Top = old[d]
  BY <1>1, TopFacts, SeqIsSequence DEF MachineOK, Depth
<1>3. f.function = Top.function /\ f.stack_bottom = Top.stack_bottom
  BY <1>1, <1>2 DEF FrameSet
<1>4. new = [old EXCEPT ![d] = f]
  BY <1>1, <1>2 DEF MoveTo
<1>5. Len(new) = Len(old) /\ new[d] = f /\ \A i \in DOMAIN old : i # d => new[i] = old[i]
  BY <1>2, <1>4, ReplacedAt
<1> QED
  BY <1>1, <1>2, <1>3, <1>5 DEF Depth

\* A stack that changes only in what the activation that runs holds.
LEMMA WorksAbove ==
  ASSUME NEW globals, NEW tables, NEW needs, Accepted(globals, tables, needs), NEW ip, MoveTo(ip),
         \A j \in 1..Top.stack_bottom : stack'[j] = stack[j]
  PROVE  Works
<1>1. 0 \in Nat /\ (Depth > 1 => 0 <= EndOf(1))
  BY FramesFacts
<1>2. MachineOK
  BY FramesFacts
<1> QED
  BY <1>1, <1>2, MovesOnly DEF Works

\* Popping what the instruction may pop is such a change.
LEMMA DropKeepsBelow ==
  ASSUME NEW globals, NEW tables, NEW needs, Accepted(globals, tables, needs),
         NEW n, n \in Nat, n <= Len(Expected(tables, Depth)), NEW values, IsSequence(values),
         stack' = Drop(n) \o values \/ stack' = Drop(n)
  PROVE  \A j \in 1..Top.stack_bottom : stack'[j] = stack[j]
<1>1. PICK b \in Nat, l \in Nat, h \in Nat : b = Top.stack_bottom /\ l = Len(stack) /\ h = Len(Expected(tables, Depth))
  BY OwnFacts
<1>2. b + h = l /\ n <= h
  BY <1>1, OwnFacts
<1>3. n \in 0..Len(stack) /\ MachineOK
  BY <1>1, <1>2 DEF Accepted
<1>4. Drop(n) \in Seq(KnownValues) /\ Len(Drop(n)) = l - n /\ \A i \in 1..(l - n) : Drop(n)[i] = stack[i]
  BY <1>1, <1>3, StackFacts
<1>5. PICK low : low = Drop(n)
  OBVIOUS
<1>6. \A j \in 1..b : j \in 1..(l - n)
  BY <1>2
<1>7. CASE stack' = low
  BY <1>1, <1>4, <1>5, <1>6, <1>7
<1>8. CASE stack' = low \o values
  <2>1. IsSequence(low)
    BY <1>4, <1>5, SeqIsSequence
  <2>2. \A i \in 1..Len(low) : (low \o values)[i] = low[i]
    BY <2>1, Joined
  <2> QED
    BY <1>1, <1>4, <1>5, <1>6, <1>8, <2>2
<1> QED
  BY <1>5, <1>7, <1>8

\* An instruction that replaces topmost values leaves the slots below alone.
LEMMA ReplaceWorks ==
  ASSUME NEW globals, NEW tables, NEW needs, Accepted(globals, tables, needs),
         NEW n, n \in Nat, n <= Len(Expected(tables, Depth)), NEW values, IsSequence(values), Replace(n, values)
  PROVE  Works
BY WorksAbove, DropKeepsBelow DEF Replace

\* Every instruction but a call and a return.
LEMMA CycleWorks ==
  ASSUME NEW globals, NEW tables, NEW needs, Accepted(globals, tables, needs), Cycle,
         ~CallUser, ~(Return /\ Depth # 1)
  PROVE  Works \/ UNCHANGED <<call_stack, stack>>
<1>1. PICK s, k, effect, slots :
        /\ s = Expected(tables, Depth) /\ k = Top.function /\ effect = Effect(k, globals, Top.ip, s)
        /\ slots = (IF k = MainId THEN s ELSE globals)
  OBVIOUS
<1>2. Admits(Op, Arg, k, s, Len(s), slots, effect)
  BY <1>1, EffectHere
<1>3. /\ MachineOK /\ Len(s) \in Nat /\ Len(stack) \in Nat /\ Top.stack_bottom \in Nat
      /\ Top.stack_bottom + Len(s) = Len(stack) /\ Wanted \in Nat /\ Wanted <= Len(s)
  BY <1>1, OwnFacts, FindsOperands DEF Accepted
<1>4. \A x : IsSequence(<<x>>) /\ IsSequence(<<>>)
  BY SmallSequences
<1>5. 0 \in Nat /\ 0 <= Len(Expected(tables, Depth))
  BY <1>1, <1>3
<1>6. CASE Pass \/ PushLiteral \/ TESTTakeInput \/ GetLocal \/ GetGlobal
  <2>1. PICK values : IsSequence(values) /\ Replace(0, values)
    BY <1>4, <1>6 DEF Pass, PushLiteral, TESTTakeInput, GetLocal, GetGlobal
  <2> QED
    BY <1>5, <2>1, ReplaceWorks
<1>7. CASE Pop
  <2>1. Op = "Pop"
    BY <1>3, <1>7, IsExecutable DEF Pop
  <2>2. Len(s) >= 1
    BY <1>2, <2>1 DEF Admits
  <2>3. PICK n \in {0, 1} : Replace(n, <<>>)
    BY <1>7 DEF Pop
  <2>4. n \in Nat /\ n <= Len(Expected(tables, Depth))
    BY <1>1, <1>3, <2>2
  <2> QED
    BY <1>4, <2>3, <2>4, ReplaceWorks
<1>8. CASE Jump
  <2>1. PICK ip : MoveTo(ip)
    BY <1>8 DEF Jump
  <2>2. stack' = stack
    BY <1>8 DEF Jump
  <2> QED
    BY <2>1, <2>2, WorksAbove
<1>9. CASE JumpIfNot
  <2>1. PICK ip : MoveTo(ip)
    BY <1>9 DEF JumpIfNot
  <2>2. stack' = Drop(1) /\ Wanted = 1
    BY <1>3, <1>9, IsExecutable, WantedIs DEF JumpIfNot
  <2>3. \A j \in 1..Top.stack_bottom : stack'[j] = stack[j]
    BY <1>1, <1>3, <1>4, <2>2, DropKeepsBelow
  <2> QED
    BY <2>1, <2>3, WorksAbove
<1>10. CASE CallNative
  <2>1. Wanted = Arg + 1 /\ \E x : Replace(Arg + 1, <<x>>)
    BY <1>3, <1>10, IsExecutable, WantedIs DEF CallNative
  <2>2. PICK x, n : n = Wanted /\ Replace(n, <<x>>)
    BY <2>1
  <2> QED
    BY <1>1, <1>3, <1>4, <2>2, ReplaceWorks
<1>11. CASE NewObject
  <2>1. PICK n, x : n = Wanted /\ stack' = Append(Drop(n), x)
    BY <1>3, <1>11, IsExecutable, WantedIs DEF NewObject
  <2>2. MoveTo(After)
    BY <1>11 DEF NewObject
  <2>3. stack' = Drop(n) \o <<x>>
    <3>1. n \in 0..Len(stack)
      BY <1>3, <2>1
    <3>2. PICK low : low = Drop(n) /\ low \in Seq(KnownValues)
      BY <1>3, <3>1, StackFacts
    <3>3. low \in Seq(KnownValues \cup {x})
      BY <3>2, SeqMonotonic
    <3> QED
      BY <2>1, <3>2, <3>3, AppendIsConcat
  <2>4. \A j \in 1..Top.stack_bottom : stack'[j] = stack[j]
    BY <1>1, <1>3, <1>4, <2>1, <2>3, DropKeepsBelow
  <2> QED
    BY <2>2, <2>4, WorksAbove
<1>12. CASE SetLocal
  <2>1. MoveTo(After) /\ Op = "SetLocal" /\ Executable
    BY <1>3, <1>12, IsExecutable DEF SetLocal, StoreAt
  <2>2. PICK arg, b, x : /\ arg \in Nat /\ b \in Nat
                         /\ arg = Arg /\ b = Top.stack_bottom /\ stack' = [stack EXCEPT ![b + arg + 1] = x]
    BY <1>3, <1>12, <2>1, ArgFacts DEF SetLocal, StoreAt, LocalSlot
  <2>3. \A j \in 1..b : stack'[j] = stack[j]
    BY <1>3, <2>2 DEF MachineOK
  <2> QED
    BY <2>1, <2>2, <2>3, WorksAbove
<1>13. CASE SetGlobal
  <2>1. MoveTo(After) /\ Op = "SetGlobal" /\ Executable
    BY <1>3, <1>13, IsExecutable DEF SetGlobal, StoreAt
  <2>2. PICK arg, x : arg \in Nat /\ arg = Arg /\ arg \in Byte /\ stack' = [stack EXCEPT ![arg + 1] = x]
    BY <1>13, <2>1, ArgFacts DEF SetGlobal, StoreAt
  <2>3. Arg < Len(slots)
    BY <1>2, <2>1 DEF Admits
  <2>4. arg + 1 \in 1..Len(Held(tables, 1))
    BY <1>1, <2>1, <2>2, <2>3, GlobalSlot
  <2>5. Bottom(1) = 0 /\ Bottom(1) + Len(Held(tables, 1)) = EndOf(1) /\ EndOf(1) \in Nat
        /\ Len(Held(tables, 1)) \in Nat
    BY FramesFacts DEF ScriptFirst
  <2>6. arg + 1 \in Nat /\ arg + 1 <= EndOf(1)
    BY <2>2, <2>4, <2>5
  <2>7. \A j \in 1..Top.stack_bottom : j # arg + 1 => stack'[j] = stack[j]
    BY <1>3, <2>2 DEF MachineOK
  <2> QED
    BY <1>3, <2>1, <2>6, <2>7, MovesOnly DEF Works
<1>14. CASE FieldGet \/ FieldSet
  BY <1>14, NoFields
<1>15. CASE WrapAny \/ ValEqual \/ Compute \/ TESTYield
  <2>1. PICK n, x : n = Wanted /\ Replace(n, <<x>>)
    <3>1. CASE WrapAny
      BY <1>3, <3>1, IsExecutable, WantedIs DEF WrapAny
    <3>2. CASE ValEqual
      BY <1>3, <3>2, IsExecutable, WantedIs DEF ValEqual
    <3>3. CASE Compute
      BY <1>3, <3>3, IsExecutable, WantedIs DEF Compute
    <3>4. CASE TESTYield
      BY <1>3, <3>4, IsExecutable, WantedIs DEF TESTYield
    <3> QED
      BY <1>15, <3>1, <3>2, <3>3, <3>4
  <2> QED
    BY <1>1, <1>3, <1>4, <2>1, ReplaceWorks
<1>16. CASE UnwrapAny
  <2>1. Wanted = 1 /\ MoveTo(After)
    BY <1>3, <1>16, IsExecutable, WantedIs DEF UnwrapAny, Replace
  <2>2. PICK values : IsSequence(values) /\ (stack' = Drop(1) \o values \/ stack' = Drop(1))
    BY <1>4, <1>16 DEF UnwrapAny, Replace
  <2>3. \A j \in 1..Top.stack_bottom : stack'[j] = stack[j]
    BY <1>1, <1>3, <2>1, <2>2, DropKeepsBelow
  <2> QED
    BY <2>1, <2>3, WorksAbove
<1>17. CASE (Return /\ Depth = 1) \/ Crash
  <2>1. MoveTo(After) /\ stack' = stack
    BY <1>17 DEF Return, Crash
  <2> QED
    BY <2>1, WorksAbove
<1>18. CASE ArithmeticPanic \/ Fault
  BY <1>18 DEF ArithmeticPanic, Fault
<1> QED
  BY <1>6, <1>7, <1>8, <1>9, <1>10, <1>11, <1>12, <1>13, <1>14, <1>15, <1>16, <1>17, <1>18 DEF Cycle

(***************************************************************************)
(* The shared stack with its bottoms: a cycle of a program that the        *)
(* verifier's tables describe gives every activation slots of its own.     *)
(***************************************************************************)
Own == INSTANCE Frames WITH acts <- Activations

\* Parts of a stack that hold the same values are the same.
LEMMA SameSlots ==
  ASSUME NEW s, NEW t, NEW m \in Int, NEW n \in Int, \A i \in m..n : t[i] = s[i]
  PROVE  SubSeq(t, m, n) = SubSeq(s, m, n)
<1>1. PICK S : S = {s[i] : i \in m..n}
  OBVIOUS
<1>2. \A i \in m..n : s[i] \in S /\ t[i] \in S
  BY <1>1
<1>3. /\ SubSeq(s, m, n) \in Seq(S)
      /\ Len(SubSeq(s, m, n)) = IF m <= n THEN n - m + 1 ELSE 0
      /\ \A i \in 1 .. n - m + 1 : SubSeq(s, m, n)[i] = s[m + i - 1]
  BY <1>2, SubSeqProperties
<1>4. /\ SubSeq(t, m, n) \in Seq(S)
      /\ Len(SubSeq(t, m, n)) = IF m <= n THEN n - m + 1 ELSE 0
      /\ \A i \in 1 .. n - m + 1 : SubSeq(t, m, n)[i] = t[m + i - 1]
  BY <1>2, SubSeqProperties
<1>5. \A i \in 1..Len(SubSeq(t, m, n)) : SubSeq(t, m, n)[i] = SubSeq(s, m, n)[i]
  <2> TAKE i \in 1..Len(SubSeq(t, m, n))
  <2>1. i \in 1..(n - m + 1) /\ m + i - 1 \in m..n
    BY <1>4
  <2> QED
    BY <1>2, <1>3, <1>4, <2>1
<1> QED
  BY <1>3, <1>4, <1>5, SeqEqual

\* What each activation holds.
Activity(i) == [function |-> call_stack[i].function, slots |-> SubSeq(stack, Bottom(i) + 1, EndOf(i))]

ActsOK ==
    /\ IsSequence(Activations) /\ Len(Activations) = Depth
    /\ \A i \in 1..Depth : Activations[i] = Activity(i)

\* Every running activation is in Activations, at its place.
LEMMA ActsAre == ASSUME MachineOK PROVE ActsOK
<1>1. Depth \in Nat \ {0} /\ DOMAIN call_stack = 1..Depth
  BY TopFacts
<1>2. PICK acts : acts = Activations
  OBVIOUS
<1>3. acts = [i \in 1..Depth |-> Activity(i)]
  BY <1>1, <1>2 DEF Activations, Slots, Bottom, EndOf, Activity
<1>4. IsSequence(acts) /\ Len(acts) = Depth
  <2>1. acts = [i \in 1..Depth |-> acts[i]]
    BY <1>3
  <2> QED
    BY <1>1, <2>1, FunctionIsSequence
<1>5. \A i \in 1..Depth : acts[i] = Activity(i)
  BY <1>3
<1> QED
  BY <1>2, <1>4, <1>5 DEF ActsOK

\* Also behind a step.
LEMMA ActsNext == MachineOK' => ActsOK'
<1>1. MachineOK => ActsOK
  BY ActsAre
<1> QED
  BY <1>1, PTL

\* The first values of a stack.
LEMMA LongPart ==
  ASSUME NEW s, NEW n \in Nat
  PROVE  /\ Len(SubSeq(s, 1, n)) = n /\ DOMAIN SubSeq(s, 1, n) = 1..n
         /\ \A i \in 1..n : SubSeq(s, 1, n)[i] = s[i]
<1>1. PICK S : S = {s[i] : i \in 1..n}
  OBVIOUS
<1>2. /\ SubSeq(s, 1, n) \in Seq(S)
      /\ Len(SubSeq(s, 1, n)) = IF 1 <= n THEN n - 1 + 1 ELSE 0
      /\ \A i \in 1 .. n - 1 + 1 : SubSeq(s, 1, n)[i] = s[1 + i - 1]
  <2>1. \A i \in 1..n : s[i] \in S
    BY <1>1
  <2> QED
    BY <2>1, SubSeqProperties
<1>3. Len(SubSeq(s, 1, n)) = n
  BY <1>2
<1>4. \A i \in 1..n : SubSeq(s, 1, n)[i] = s[i]
  BY <1>2
<1> QED
  BY <1>2, <1>3, <1>4, LenProperties

\* An instruction of the activation that runs.
LEMMA WorksImplemented ==
  ASSUME NEW globals, NEW tables, NEW needs, Accepted(globals, tables, needs), MachineOK', Works
  PROVE  Own!Work
<1>1. PICK d \in Nat \ {0}, b \in Nat : d = Depth /\ b = Top.stack_bottom
  BY FramesFacts, OwnFacts
<1>2. PICK p \in Nat : /\ d > 1 => p <= EndOf(1)
                       /\ \A j \in 1..b : j # p => stack'[j] = stack[j]
  BY <1>1 DEF Works
<1>3. /\ Depth' = d
      /\ \A i \in 1..d : /\ call_stack'[i].function = call_stack[i].function
                         /\ call_stack'[i].stack_bottom = call_stack[i].stack_bottom
  BY <1>1 DEF Works
<1>4. /\ MachineOK /\ Stacked(tables) /\ ScriptFirst /\ 1 \in 1..d
      /\ \A i \in 1..d : Bottom(i) \in Nat /\ EndOf(i) \in Nat /\ (i < d => EndOf(i) <= b)
  BY <1>1, FramesFacts
<1>5. Len(Activations) = d /\ \A i \in 1..d : Activations[i] = Activity(i)
  BY <1>1, <1>4, ActsAre DEF ActsOK
<1>6. Len(Activations') = d /\ \A i \in 1..d : Activations'[i] = Activity(i)'
  <2>1. Len(Activations') = Depth' /\ \A i \in 1..Depth' : Activations'[i] = Activity(i)'
    BY ActsNext DEF ActsOK
  <2> QED
    BY <1>3, <2>1
<1>7. \A i \in 1..d : /\ Activity(i).function = call_stack[i].function
                      /\ Activity(i)'.function = call_stack'[i].function
                      /\ Activity(i).slots = SubSeq(stack, Bottom(i) + 1, EndOf(i))
                      /\ Activity(i)'.slots = SubSeq(stack', Bottom(i)' + 1, EndOf(i)')
  BY DEF Activity
<1>8. \A i \in 1..d : i < d => Bottom(i)' = Bottom(i) /\ EndOf(i)' = EndOf(i)
  <2> TAKE i \in 1..d
  <2> HAVE i < d
  <2>1. i + 1 \in 1..d
    OBVIOUS
  <2> QED
    BY <1>1, <1>3, <2>1 DEF Bottom, EndOf
<1>9. \A i \in 2..(d - 1) : Activity(i)'.slots = Activity(i).slots
  <2> TAKE i \in 2..(d - 1)
  <2>1. i \in 1..d /\ i < d /\ d > 1 /\ 1 < i
    OBVIOUS
  <2>2. PICK from \in Nat, to \in Nat : from = Bottom(i) /\ to = EndOf(i)
    BY <1>4, <2>1
  <2>3. p <= from /\ to <= b
    <3>1. EndOf(1) <= Bottom(i) /\ EndOf(1) \in Nat
      BY <1>1, <1>4, <2>1 DEF Stacked
    <3> QED
      BY <1>2, <1>4, <2>1, <2>2, <3>1
  <2>4. \A j \in (from + 1)..to : stack'[j] = stack[j]
    <3> TAKE j \in (from + 1)..to
    <3>1. j \in 1..b /\ j # p
      BY <2>3
    <3> QED
      BY <1>2, <3>1
  <2>5. SubSeq(stack', from + 1, to) = SubSeq(stack, from + 1, to)
    BY <2>4, SameSlots
  <2> QED
    BY <1>7, <1>8, <2>1, <2>2, <2>5
<1>10. ASSUME d > 1 PROVE Own!OneGlobalAtMost(Activity(1).slots, Activity(1)'.slots)
  <2>1. PICK to \in Nat : to = EndOf(1)
    BY <1>4
  <2>2. Bottom(1) = 0 /\ Bottom(1)' = 0 /\ EndOf(1)' = to /\ to <= b
    BY <1>4, <1>8, <1>10, <2>1 DEF ScriptFirst
  <2>3. PICK old, new : old = Activity(1).slots /\ new = Activity(1)'.slots
    OBVIOUS
  <2>4. old = SubSeq(stack, 1, to) /\ new = SubSeq(stack', 1, to)
    <3>1. 0 + 1 = 1
      OBVIOUS
    <3> QED
      BY <1>4, <1>7, <2>1, <2>2, <2>3, <3>1
  <2>5. /\ Len(old) = to /\ DOMAIN old = 1..to /\ \A i \in 1..to : old[i] = stack[i]
        /\ Len(new) = to /\ \A i \in 1..to : new[i] = stack'[i]
    BY <2>4, LongPart
  <2>6. \A i \in Own!Differ(old, new) : i = p
    <3> TAKE i \in Own!Differ(old, new)
    <3>1. i \in 1..to /\ stack'[i] # stack[i]
      BY <2>5 DEF Own!Differ
    <3>2. i \in 1..b
      BY <2>2, <3>1
    <3> QED
      BY <1>2, <3>1, <3>2
  <2>7. Own!OneGlobalAtMost(old, new)
    BY <2>5, <2>6 DEF Own!OneGlobalAtMost
  <2> QED
    BY <2>3, <2>7
<1>11. PICK acts, next : acts = Activations /\ next = Activations'
  OBVIOUS
<1>12. acts # <<>> /\ Len(acts) = d /\ Len(next) = d
  BY <1>5, <1>6, <1>11
<1>13. \A i \in 1..d : next[i].function = acts[i].function
  BY <1>3, <1>5, <1>6, <1>7, <1>11
<1>14. \A i \in 2..(d - 1) : next[i].slots = acts[i].slots
  <2>1. \A i \in 2..(d - 1) : i \in 1..d
    OBVIOUS
  <2> QED
    BY <1>5, <1>6, <1>9, <1>11, <2>1
<1>15. d > 1 => Own!OneGlobalAtMost(acts[1].slots, next[1].slots)
  BY <1>4, <1>5, <1>6, <1>10, <1>11
<1> QED
  BY <1>11, <1>12, <1>13, <1>14, <1>15 DEF Own!Work, Own!Running

\* Sequences with the same elements are the same.
LEMMA SameElements ==
  ASSUME NEW s, NEW t, IsSequence(s), IsSequence(t), Len(s) = Len(t), \A i \in 1..Len(s) : s[i] = t[i]
  PROVE  s = t
<1>1. PICK S : S = Range(s) \cup Range(t)
  OBVIOUS
<1>2. s \in Seq(S) /\ t \in Seq(S)
  BY <1>1, SeqMonotonic DEF IsSequence
<1> QED
  BY <1>2, SeqEqual

\* A part of a stack by its places.
LEMMA PartIs ==
  ASSUME NEW s, NEW from \in Nat, NEW to \in Nat, from <= to
  PROVE  /\ IsSequence(SubSeq(s, from + 1, to)) /\ Len(SubSeq(s, from + 1, to)) = to - from
         /\ \A i \in 1..(to - from) : SubSeq(s, from + 1, to)[i] = s[from + i]
<1>1. PICK first \in Nat : first = from + 1
  OBVIOUS
<1>2. PICK S : S = {s[i] : i \in first..to}
  OBVIOUS
<1>3. /\ SubSeq(s, first, to) \in Seq(S)
      /\ Len(SubSeq(s, first, to)) = IF first <= to THEN to - first + 1 ELSE 0
      /\ \A i \in 1 .. to - first + 1 : SubSeq(s, first, to)[i] = s[first + i - 1]
  <2>1. \A i \in first..to : s[i] \in S
    BY <1>2
  <2> QED
    BY <2>1, SubSeqProperties
<1>4. Len(SubSeq(s, first, to)) = to - from
  BY <1>1, <1>3
<1>5. ASSUME NEW i \in 1..(to - from) PROVE SubSeq(s, first, to)[i] = s[from + i]
  <2>1. i \in 1..(to - first + 1) /\ first + i - 1 = from + i
    BY <1>1
  <2> QED
    BY <1>3, <2>1
<1>6. IsSequence(SubSeq(s, first, to))
  BY <1>3, SeqIsSequence
<1> QED
  BY <1>1, <1>4, <1>5, <1>6

\* A part of a part.
LEMMA PartOfPart ==
  ASSUME NEW s, NEW b \in Nat, NEW l \in Nat, b <= l, NEW i \in Nat, NEW j \in Nat, i <= j, b + j <= l,
         NEW from, from = b + i, NEW to, to = b + j
  PROVE  SubSeq(SubSeq(s, b + 1, l), i + 1, j) = SubSeq(s, from + 1, to)
<1>1. PICK part : part = SubSeq(s, b + 1, l)
  OBVIOUS
<1>2. Len(part) = l - b /\ \A h \in 1..(l - b) : part[h] = s[b + h]
  BY <1>1, PartIs
<1>3. /\ IsSequence(SubSeq(part, i + 1, j)) /\ Len(SubSeq(part, i + 1, j)) = j - i
      /\ \A h \in 1..(j - i) : SubSeq(part, i + 1, j)[h] = part[i + h]
  BY PartIs
<1>4. PICK low \in Nat, high \in Nat : low = from /\ high = to /\ low <= high /\ high - low = j - i
  OBVIOUS
<1>5. /\ IsSequence(SubSeq(s, low + 1, high)) /\ Len(SubSeq(s, low + 1, high)) = high - low
      /\ \A h \in 1..(high - low) : SubSeq(s, low + 1, high)[h] = s[low + h]
  <2>1. low <= high
    BY <1>4
  <2> QED
    BY <2>1, PartIs
<1>6. ASSUME NEW h \in 1..(j - i) PROVE SubSeq(part, i + 1, j)[h] = SubSeq(s, low + 1, high)[h]
  <2>1. i + h \in 1..(l - b) /\ b + (i + h) = low + h /\ h \in 1..(high - low)
    BY <1>4
  <2>2. SubSeq(part, i + 1, j)[h] = part[i + h]
    BY <1>3
  <2>3. part[i + h] = s[b + (i + h)]
    BY <1>2, <2>1
  <2>4. SubSeq(s, low + 1, high)[h] = s[low + h]
    BY <1>5, <2>1
  <2> QED
    BY <2>1, <2>2, <2>3, <2>4
<1>7. SubSeq(part, i + 1, j) = SubSeq(s, low + 1, high)
  BY <1>3, <1>4, <1>5, <1>6, SameElements
<1> QED
  BY <1>1, <1>4, <1>7

\* A part with one more value.
LEMMA PartAppended ==
  ASSUME NEW s, NEW t, NEW from \in Nat, NEW to \in Nat, from <= to, NEW x,
         \A i \in 1..to : t[i] = s[i], t[to + 1] = x
  PROVE  SubSeq(t, from + 1, to + 1) = Append(SubSeq(s, from + 1, to), x)
<1>1. PICK part, longer : part = SubSeq(s, from + 1, to) /\ longer = SubSeq(t, from + 1, to + 1)
  OBVIOUS
<1>2. IsSequence(part) /\ Len(part) = to - from /\ \A i \in 1..(to - from) : part[i] = s[from + i]
  BY <1>1, PartIs
<1>3. PICK end \in Nat : end = to + 1
  OBVIOUS
<1>4. IsSequence(longer) /\ Len(longer) = end - from /\ \A i \in 1..(end - from) : longer[i] = t[from + i]
  <2>1. from <= end
    BY <1>3
  <2> QED
    BY <1>1, <1>3, <2>1, PartIs
<1>5. /\ IsSequence(Append(part, x)) /\ Len(Append(part, x)) = Len(part) + 1
      /\ Append(part, x)[Len(part) + 1] = x
      /\ \A i \in 1..Len(part) : Append(part, x)[i] = part[i]
  BY <1>2, Appended
<1>6. \A i \in 1..Len(longer) : longer[i] = Append(part, x)[i]
  <2> TAKE i \in 1..Len(longer)
  <2>1. i \in 1..(end - from)
    BY <1>4
  <2>2. CASE i = end - from
    <3>1. from + i = to + 1 /\ i = Len(part) + 1
      BY <1>2, <1>3, <2>2
    <3> QED
      BY <1>4, <1>5, <2>1, <3>1
  <2>3. CASE i # end - from
    <3>1. i \in 1..(to - from) /\ from + i \in 1..to
      BY <1>3, <2>1, <2>3
    <3> QED
      BY <1>2, <1>4, <1>5, <2>1, <3>1
  <2> QED
    BY <2>2, <2>3
<1>7. Len(longer) = Len(Append(part, x))
  BY <1>2, <1>3, <1>4, <1>5
<1> QED
  BY <1>1, <1>4, <1>5, <1>6, <1>7, SameElements

\* A call moves the callee and its arguments into an activation of their own.
LEMMA CallImplemented ==
  ASSUME NEW globals, NEW tables, NEW needs, Accepted(globals, tables, needs), MachineOK', CallUser
  PROVE  Own!Call
<1>1. PICK s, c : s = Expected(tables, Depth) /\ c = Callee.v
  OBVIOUS
<1>2. PICK d \in Nat \ {0}, b \in Nat, l \in Nat : d = Depth /\ b = Top.stack_bottom /\ l = Len(stack)
  BY FramesFacts, OwnFacts
<1>3. MachineOK /\ Op = "CallUser" /\ b + Len(s) = l /\ Len(s) \in Nat
  <2>1. MachineOK
    BY FramesFacts
  <2> QED
    BY <1>1, <1>2, <2>1, IsExecutable, OwnFacts DEF CallUser
<1>4. PICK arg \in Nat, m \in Nat : arg = Arg /\ m = Len(s) - arg - 1
  <2>1. Arg \in Nat /\ Len(s) >= Arg + 1
    BY <1>1, <1>3, CalleeFound
  <2>2. Len(s) - Arg - 1 \in Nat
    BY <1>3, <2>1
  <2> QED
    BY <2>1, <2>2
<1>5. PICK slot \in Nat : slot = CalleeSlot /\ slot = b + m /\ slot + arg + 1 = l
  <2>1. CalleeSlot = b + m
    BY <1>1, <1>2, <1>4, CallTyped
  <2> QED
    BY <1>3, <1>4, <2>1
<1>6. /\ Depth' = d + 1 /\ stack' = stack
      /\ \A i \in 1..d : /\ call_stack'[i].function = call_stack[i].function
                         /\ call_stack'[i].stack_bottom = call_stack[i].stack_bottom
      /\ call_stack'[d + 1].function = c /\ call_stack'[d + 1].stack_bottom = slot
  <2>1. call_stack'[d + 1] = Frame(c, slot)
    BY <1>1, <1>2, <1>3, <1>5, CalledFrames
  <2> QED
    BY <1>2, <1>3, <2>1, CalledFrames DEF Frame
<1>7. PICK acts, next : acts = Activations /\ next = Activations'
  OBVIOUS
<1>8. IsSequence(acts) /\ Len(acts) = d /\ \A i \in 1..d : acts[i] = Activity(i)
  BY <1>2, <1>3, <1>7, ActsAre DEF ActsOK
<1>9. IsSequence(next) /\ Len(next) = d + 1 /\ \A i \in 1..(d + 1) : next[i] = Activity(i)'
  <2>1. IsSequence(next) /\ Len(next) = Depth' /\ \A i \in 1..Depth' : next[i] = Activity(i)'
    BY <1>7, ActsNext DEF ActsOK, IsSequence
  <2> QED
    BY <1>6, <2>1
<1>10. Bottom(d) = b /\ EndOf(d) = l /\ call_stack[d] = Top
  BY <1>2, <1>3, TopFacts DEF Bottom, EndOf
<1>11. PICK slots : slots = acts[d].slots /\ slots = SubSeq(stack, b + 1, l)
  <2>1. acts[d] = Activity(d)
    BY <1>8
  <2>2. Activity(d).slots = SubSeq(stack, Bottom(d) + 1, EndOf(d))
    BY DEF Activity
  <2>3. acts[d].slots = SubSeq(stack, b + 1, l)
    BY <1>10, <2>1, <2>2
  <2> QED
    BY <2>3
<1>12. Len(slots) = l - b /\ slots[m + 1] = stack[b + (m + 1)]
  <2>1. b <= l /\ m + 1 \in 1..(l - b)
    BY <1>3, <1>4
  <2> QED
    BY <1>11, <2>1, PartIs
<1>13. PICK kept, moved : /\ kept = SubSeq(stack, b + 1, slot) /\ kept = SubSeq(slots, 1, m)
                          /\ moved = SubSeq(stack, slot + 1, l) /\ moved = SubSeq(slots, m + 1, Len(slots))
                          /\ moved[1].v = c
  <2>1. SubSeq(slots, 1, m) = SubSeq(stack, b + 1, slot)
    <3>1. PICK zero \in Nat : zero = 0 /\ zero + 1 = 1
      OBVIOUS
    <3>2. b <= l /\ zero <= m /\ b + m <= l /\ b = b + zero /\ slot = b + m
      BY <1>3, <1>5, <3>1
    <3>3. SubSeq(SubSeq(stack, b + 1, l), zero + 1, m) = SubSeq(stack, b + 1, slot)
      BY <3>2, PartOfPart
    <3> QED
      BY <1>11, <3>1, <3>3
  <2>2. SubSeq(slots, m + 1, Len(slots)) = SubSeq(stack, slot + 1, l)
    <3>1. PICK j \in Nat : j = l - b
      <4>1. l - b \in Nat
        BY <1>3
      <4> QED
        BY <4>1
    <3>2. b <= l /\ m <= j /\ b + j = l
      BY <1>3, <1>4, <3>1
    <3>3. SubSeq(SubSeq(stack, b + 1, l), m + 1, j) = SubSeq(stack, slot + 1, l)
      BY <1>5, <3>2, PartOfPart
    <3> QED
      BY <1>11, <1>12, <3>1, <3>3
  <2>3. SubSeq(stack, slot + 1, l)[1] = stack[slot + 1]
    <3>1. slot <= l /\ 1 \in 1..(l - slot)
      BY <1>5
    <3> QED
      BY <3>1, PartIs
  <2>4. stack[slot + 1].v = c
    BY <1>1, <1>5 DEF Callee
  <2> QED
    BY <2>1, <2>2, <2>3, <2>4
<1>14. PICK below, new : /\ below = [acts EXCEPT ![d].slots = kept]
                         /\ new = [function |-> moved[1].v, slots |-> moved]
  OBVIOUS
<1>15. IsSequence(below) /\ Len(below) = d /\ \A i \in 1..d : below[i] = next[i]
  <2>1. PICK caller : caller = [acts[d] EXCEPT !.slots = kept]
    OBVIOUS
  <2>2. below = [acts EXCEPT ![d] = caller]
    BY <1>14, <2>1
  <2>3. d \in DOMAIN acts /\ DOMAIN acts = 1..d
    BY <1>8, Places
  <2>4. IsSequence(below) /\ Len(below) = d /\ below[d] = caller /\ \A i \in 1..d : i # d => below[i] = acts[i]
    BY <1>8, <2>2, <2>3, ReplacedAt
  <2>5. caller = next[d]
    <3>1. caller = [function |-> call_stack[d].function, slots |-> kept]
      BY <1>8, <2>1 DEF Activity
    <3>2. d \in 1..(d + 1) /\ d < d + 1
      OBVIOUS
    <3>3. Bottom(d)' = b /\ EndOf(d)' = slot
      BY <1>6, <1>10, <3>2 DEF Bottom, EndOf
    <3>4. Activity(d)' = [function |-> call_stack'[d].function,
                          slots |-> SubSeq(stack', Bottom(d)' + 1, EndOf(d)')]
      BY DEF Activity
    <3>5. call_stack'[d].function = call_stack[d].function
      BY <1>6
    <3>6. SubSeq(stack', Bottom(d)' + 1, EndOf(d)') = kept
      BY <1>6, <1>13, <3>3
    <3> QED
      BY <1>9, <3>1, <3>2, <3>4, <3>5, <3>6
  <2>6. ASSUME NEW i \in 1..d, i # d PROVE acts[i] = next[i]
    <3>1. i \in 1..(d + 1) /\ i < d /\ i < d + 1 /\ i + 1 \in 1..d
      BY <2>6
    <3>2. Bottom(i)' = Bottom(i) /\ EndOf(i)' = EndOf(i)
      BY <1>2, <1>6, <3>1 DEF Bottom, EndOf
    <3>3. Activity(i)' = Activity(i)
      BY <1>6, <3>2 DEF Activity
    <3> QED
      BY <1>8, <1>9, <3>1, <3>3
  <2> QED
    BY <2>4, <2>5, <2>6
<1>16. next[d + 1] = new
  <2>1. d + 1 \in 1..(d + 1) /\ ~(d + 1 < d + 1)
    OBVIOUS
  <2>2. Bottom(d + 1)' = slot /\ EndOf(d + 1)' = l
    BY <1>2, <1>6, <2>1 DEF Bottom, EndOf
  <2>3. Activity(d + 1)' = [function |-> c, slots |-> moved]
    BY <1>6, <1>13, <2>2 DEF Activity
  <2> QED
    BY <1>9, <1>13, <1>14, <2>1, <2>3
<1>17. next = Append(below, new)
  <2>1. /\ IsSequence(Append(below, new)) /\ Len(Append(below, new)) = Len(below) + 1
        /\ \A i \in 1..Len(below) : Append(below, new)[i] = below[i]
        /\ Append(below, new)[Len(below) + 1] = new
    BY <1>15, Appended
  <2>2. \A i \in 1..Len(next) : next[i] = Append(below, new)[i]
    <3> TAKE i \in 1..Len(next)
    <3>1. i \in 1..d \/ i = d + 1
      BY <1>9
    <3> QED
      BY <1>15, <1>16, <2>1, <3>1
  <2> QED
    BY <1>9, <1>15, <2>1, <2>2, SameElements
<1>18. arg \in 0..(Len(slots) - 1) /\ Len(slots) - arg - 1 = m
  BY <1>3, <1>4, <1>12
<1>19. acts # <<>>
  BY <1>8
<1>20. \E n \in 0..(Len(acts[Len(acts)].slots) - 1) :
          LET old == acts[Len(acts)].slots
              rest == Len(old) - n - 1
              part == SubSeq(old, rest + 1, Len(old))
          IN next = Append([acts EXCEPT ![Len(acts)].slots = SubSeq(old, 1, rest)],
                           [function |-> part[1].v, slots |-> part])
  <2>1. Len(acts) = d /\ acts[d].slots = slots
    BY <1>8, <1>11
  <2>2. next = Append([acts EXCEPT ![d].slots = SubSeq(slots, 1, m)],
                      [function |-> SubSeq(slots, m + 1, Len(slots))[1].v,
                       slots |-> SubSeq(slots, m + 1, Len(slots))])
    BY <1>13, <1>14, <1>17
  <2> QED
    BY <1>18, <2>1, <2>2
<1> QED
  BY <1>7, <1>19, <1>20 DEF Own!Call, Own!Running

\* A return hands the topmost value of the activation that ends to the one below.
LEMMA LeaveImplemented ==
  ASSUME NEW globals, NEW tables, NEW needs, Accepted(globals, tables, needs), MachineOK', Return,
         Depth # 1
  PROVE  Own!Leave
<1>1. PICK s, top : s = Expected(tables, Depth) /\ top = Peek(0)
  OBVIOUS
<1>2. PICK d \in Nat \ {0}, b \in Nat, l \in Nat : d = Depth /\ b = Top.stack_bottom /\ l = Len(stack)
  BY FramesFacts, OwnFacts
<1>3. PICK n \in Nat \ {0} : n = d - 1
  BY <1>1, <1>2, ReturnedFrames
<1>4. /\ Depth' = n /\ b + 1 <= l
      /\ \A i \in 1..n : call_stack'[i] = call_stack[i]
      /\ Len(stack') = b + 1 /\ stack'[b + 1] = top /\ \A i \in 1..b : stack'[i] = stack[i]
  BY <1>1, <1>2, <1>3, ReturnedFrames
<1>5. /\ MachineOK /\ Stacked(tables) /\ Bottom(d) = b /\ EndOf(d) = l
      /\ \A i \in 1..d : Bottom(i) \in Nat /\ EndOf(i) \in Nat /\ (i < d => EndOf(i) <= b)
                         /\ Bottom(i) <= EndOf(i)
  <2>1. MachineOK /\ Stacked(tables)
        /\ \A i \in 1..d : Bottom(i) \in Nat /\ EndOf(i) \in Nat /\ (i < d => EndOf(i) <= b)
                           /\ Len(Held(tables, i)) \in Nat /\ Bottom(i) + Len(Held(tables, i)) = EndOf(i)
    BY <1>2, FramesFacts
  <2>2. Bottom(d) = b /\ EndOf(d) = l
    BY <1>2, <2>1, TopFacts DEF Bottom, EndOf
  <2> QED
    BY <2>1, <2>2
<1>6. PICK acts, next : acts = Activations /\ next = Activations'
  OBVIOUS
<1>7. IsSequence(acts) /\ Len(acts) = d /\ \A i \in 1..d : acts[i] = Activity(i)
  BY <1>2, <1>5, <1>6, ActsAre DEF ActsOK
<1>8. IsSequence(next) /\ Len(next) = n /\ \A i \in 1..n : next[i] = Activity(i)'
  <2>1. IsSequence(next) /\ Len(next) = Depth' /\ \A i \in 1..Depth' : next[i] = Activity(i)'
    BY <1>6, ActsNext DEF ActsOK, IsSequence
  <2> QED
    BY <1>4, <2>1
<1>9. n \in 1..n /\ n + 1 = d /\ \A i \in 1..n : i \in 1..d /\ i < d
  BY <1>3
<1>10. EndOf(n) = b
  BY <1>2, <1>5, <1>9 DEF EndOf
<1>11. acts[d].slots # <<>> /\ Last(acts[d].slots) = top
  <2>1. PICK slots : slots = acts[d].slots /\ slots = SubSeq(stack, b + 1, l)
    <3>1. acts[d] = Activity(d)
      BY <1>7
    <3>2. Activity(d).slots = SubSeq(stack, Bottom(d) + 1, EndOf(d))
      BY DEF Activity
    <3>3. acts[d].slots = SubSeq(stack, b + 1, l)
      BY <1>5, <3>1, <3>2
    <3> QED
      BY <3>3
  <2>2. PICK len \in Nat \ {0} : len = l - b
    <3>1. l - b \in Nat \ {0}
      BY <1>4
    <3> QED
      BY <3>1
  <2>3. IsSequence(slots) /\ Len(slots) = len /\ slots[len] = stack[b + len]
    <3>1. b <= l
      BY <1>4
    <3>2. PICK part : part = SubSeq(stack, b + 1, l)
      OBVIOUS
    <3>3. /\ IsSequence(part) /\ Len(part) = l - b
          /\ \A i \in 1..(l - b) : part[i] = stack[b + i]
      BY <3>1, <3>2, PartIs
    <3>4. len \in 1..(l - b)
      BY <2>2
    <3> QED
      BY <2>1, <2>2, <3>2, <3>3, <3>4
  <2>4. b + len = l /\ l - 0 = l
    BY <2>2
  <2>5. stack[l] = top
    BY <1>1, <1>2, <2>4 DEF Peek
  <2>6. slots # <<>> /\ Last(slots) = slots[Len(slots)]
    BY <2>3 DEF Last
  <2> QED
    BY <2>1, <2>3, <2>4, <2>5, <2>6
<1>12. PICK front : front = Front(acts)
  OBVIOUS
<1>13. IsSequence(front) /\ Len(front) = n /\ DOMAIN front = 1..n /\ \A i \in 1..n : front[i] = acts[i]
  <2>1. acts # <<>> /\ Len(acts) - 1 = n
    BY <1>3, <1>7
  <2> QED
    BY <1>7, <1>12, <2>1, Popped
<1>14. PICK caller : caller = [front[n] EXCEPT !.slots = Append(@, top)]
  OBVIOUS
<1>15. caller = next[n]
  <2>1. caller = [function |-> call_stack[n].function, slots |-> Append(SubSeq(stack, Bottom(n) + 1, b), top)]
    <3>1. front[n] = Activity(n)
      BY <1>7, <1>9, <1>13
    <3>2. PICK f, part : f = call_stack[n].function /\ part = SubSeq(stack, Bottom(n) + 1, b)
      OBVIOUS
    <3>3. front[n] = [function |-> f, slots |-> part]
      BY <1>10, <3>1, <3>2 DEF Activity
    <3>4. PICK longer : longer = Append(part, top)
      OBVIOUS
    <3>5. front[n].slots = part
      BY <3>3
    <3>6. caller = [front[n] EXCEPT !.slots = longer]
      BY <1>14, <3>4, <3>5
    <3>7. caller = [function |-> f, slots |-> longer]
      BY <3>3, <3>6
    <3> QED
      BY <3>2, <3>4, <3>7
  <2>2. PICK from \in Nat : from = Bottom(n) /\ from <= b
    BY <1>5, <1>9, <1>10
  <2>3. SubSeq(stack', from + 1, b + 1) = Append(SubSeq(stack, from + 1, b), top)
    <3>1. PICK s0, t0 : s0 = stack /\ t0 = stack'
      OBVIOUS
    <3>2. from <= b /\ t0[b + 1] = top /\ \A i \in 1..b : t0[i] = s0[i]
      BY <1>4, <2>2, <3>1
    <3>3. SubSeq(t0, from + 1, b + 1) = Append(SubSeq(s0, from + 1, b), top)
      BY <3>2, PartAppended
    <3> QED
      BY <3>1, <3>3
  <2>4. Bottom(n)' = from /\ EndOf(n)' = b + 1
    BY <1>4, <1>9, <2>2 DEF Bottom, EndOf
  <2>5. Activity(n)' = [function |-> call_stack[n].function, slots |-> SubSeq(stack', from + 1, b + 1)]
    BY <1>4, <1>9, <2>4 DEF Activity
  <2> QED
    BY <1>8, <1>9, <2>1, <2>2, <2>3, <2>5
<1>16. PICK lower : lower = [front EXCEPT ![n] = caller]
  OBVIOUS
<1>17. IsSequence(lower) /\ Len(lower) = n /\ lower[n] = caller /\ \A i \in 1..n : i # n => lower[i] = front[i]
  BY <1>9, <1>13, <1>16, ReplacedAt
<1>18. ASSUME NEW i \in 1..n, i # n PROVE acts[i] = next[i]
  <2>1. i < n /\ i + 1 \in 1..n /\ i < d
    BY <1>9, <1>18
  <2>2. Bottom(i)' = Bottom(i) /\ EndOf(i)' = EndOf(i)
    BY <1>2, <1>4, <2>1 DEF Bottom, EndOf
  <2>3. PICK from \in Nat, to \in Nat : from = Bottom(i) /\ to = EndOf(i) /\ to <= b
    BY <1>5, <1>9, <2>1
  <2>4. SubSeq(stack', from + 1, to) = SubSeq(stack, from + 1, to)
    <3>1. \A j \in (from + 1)..to : j \in 1..b
      BY <2>3
    <3>2. \A j \in (from + 1)..to : stack'[j] = stack[j]
      BY <1>4, <3>1
    <3>3. from + 1 \in Int
      OBVIOUS
    <3> QED
      BY <3>2, <3>3, SameSlots
  <2>5. Activity(i)' = Activity(i)
    BY <1>4, <2>2, <2>3, <2>4 DEF Activity
  <2> QED
    BY <1>7, <1>8, <1>9, <2>5
<1>19. next = lower
  <2>1. \A i \in 1..Len(next) : next[i] = lower[i]
    BY <1>8, <1>13, <1>15, <1>17, <1>18
  <2> QED
    BY <1>8, <1>17, <2>1, SameElements
<1>20. lower = [front EXCEPT ![n].slots = Append(@, top)]
  BY <1>14, <1>16
<1>21. d > 1 /\ d - 1 = n
  BY <1>3
<1>22. /\ Len(acts) > 1 /\ acts[Len(acts)].slots # <<>>
       /\ next = [Front(acts) EXCEPT ![Len(acts) - 1].slots = Append(@, Last(acts[Len(acts)].slots))]
  BY <1>7, <1>11, <1>12, <1>19, <1>20, <1>21
<1> QED
  BY <1>6, <1>22 DEF Own!Leave, Own!Running, Own!Front, Own!Last, Front, Last

\* So a cycle is a step of the machine with a stack for each activation, or it leaves
\* the activations alone.
LEMMA CycleImplemented ==
  ASSUME NEW globals, NEW tables, NEW needs, Accepted(globals, tables, needs), MachineOK', Cycle,
         status = "running"
  PROVE  Own!Next \/ UNCHANGED Activations
<1>1. CASE CallUser
  <2>1. Own!Call
    BY <1>1, CallImplemented
  <2> QED
    BY <2>1 DEF Own!Next
<1>2. CASE Return /\ Depth # 1
  <2>1. Own!Leave
    BY <1>2, LeaveImplemented
  <2> QED
    BY <2>1 DEF Own!Next
<1>3. CASE ~CallUser /\ ~(Return /\ Depth # 1)
  <2>1. Works \/ UNCHANGED <<call_stack, stack>>
    BY <1>3, CycleWorks
  <2>2. CASE Works
    <3>1. Own!Work
      BY <2>2, WorksImplemented
    <3> QED
      BY <3>1 DEF Own!Next
  <2>3. CASE UNCHANGED <<call_stack, stack>>
    BY <2>3 DEF Activations, Slots, Depth
  <2> QED
    BY <2>1, <2>2, <2>3
<1> QED
  BY <1>1, <1>2, <1>3
===============================================================================
