--------------------------------- MODULE VM ----------------------------------
(***************************************************************************)
(* The virtual machine of runtime.rs: one value stack shared by all the    *)
(* activations, a stack of frames, each with its function, instruction     *)
(* pointer and the place of the shared stack where it begins, and one      *)
(* action per instruction (or family of instructions).  The machine checks *)
(* very little: a program that reads outside the stack or the code, or     *)
(* finds a value of another variant than the instruction expects, panics.  *)
(* Those ends, and the ones the language defines, are values of status.    *)
(***************************************************************************)
EXTENDS Program

CONSTANTS
    StackCapacity,   \* VM_STACK_CAPACITY
    Data,            \* payloads that a computed value may have
    Inputs,          \* what the embedding test hands to run_with_input
    MaxObjects,      \* bound on the objects one run creates
    MaxFrames        \* bound on the depth of calls: VM_CALLS_CAPACITY limits nothing

VARIABLES
    call_stack,   \* <<[function, ip, stack_bottom], ...>>
    stack,        \* TypedValues
    heap,         \* the fields of every object created so far
    status        \* "running", or how the run ended

vmVars == <<program, call_stack, stack, heap, status>>

(***************************************************************************)
(* Values.  The payload is an integer throughout: 0 or 1 for a Bool, an    *)
(* index for a function, a native function or an object, a member of Data  *)
(* or a byte for the rest.  within is the variant inside an Any.           *)
(***************************************************************************)
Value == [t : Types, within : Types, v : Int]
Val(t, v) == [t |-> t, within |-> "None", v |-> v]
NoneVal == Val("None", 0)
BoolVal(b) == Val("Bool", IF b THEN 1 ELSE 0)
Wrapped(x) == [t |-> "Any", within |-> x.t, v |-> x.v]
Unwrapped(x) == Val(x.within, x.v)

ASSUME VMAssumption ==
    /\ StackCapacity \in Nat
    /\ MaxObjects \in Nat
    /\ MaxFrames \in Nat
    /\ Data \subseteq Int /\ Data # {}
    /\ Inputs \subseteq {x \in Value : x.t = InputType}
    /\ InputType \notin {"Function", "NativeFunc", "Object"}

\* What the machine is handed: a constant that is a function is one of these,
\* and none is an object, as no expression is evaluated before the run.
IsProgram(p) ==
    /\ p # <<>> /\ p \in Seq(Range(p))
    /\ \A k \in DOMAIN p :
          /\ p[k].code \in Seq(Byte)
          /\ p[k].constants \in Seq(Value)
          /\ p[k].params \in Seq(Types) /\ p[k].ret_type \in Types
          /\ \A x \in Range(p[k].constants) :
                x.t \in {"Function", "NativeFunc", "Object"} => x.t = "Function" /\ x.v \in DOMAIN p

\* What a native function or an instruction may compute: any value of the type.
Results(type) ==
    CASE type = "None" -> {NoneVal}
      [] type = "Bool" -> {BoolVal(TRUE), BoolVal(FALSE)}
      [] OTHER -> {Val(type, d) : d \in Data}

Frame(function, bottom) == [function |-> function, ip |-> 0, stack_bottom |-> bottom]

\* VM::new: the main script's frame, and the native functions as first globals.
FirstFrame(main) == <<Frame(main, 0)>>
NativeValues == [i \in DOMAIN Natives |-> Val("NativeFunc", i)]
Boot(main) ==
    /\ call_stack = FirstFrame(main)
    /\ stack = NativeValues
    /\ heap = <<>>
    /\ status = "running"

(***************************************************************************)
(* Reading the code and the stack.                                         *)
(***************************************************************************)
Depth == Len(call_stack)
Top == call_stack[Depth]
Fn == program[Top.function]
Op == Decode(Fn.code[Top.ip + 1])
Arg == Fn.code[Top.ip + 2]                                  \* read_byte
Offset == Signed16(Fn.code[Top.ip + 2], Fn.code[Top.ip + 3])  \* read_short
After == Top.ip + Width(Op)
Peek(dist) == stack[Len(stack) - dist]
Drop(n) == SubSeq(stack, 1, Len(stack) - n)

\* Slots are counted from 0; the first definition forgets the frame's bottom.
LocalSlotUnbased == Arg
LocalSlot == Top.stack_bottom + Arg
CalleeSlot == Len(stack) - Arg - 1
Callee == stack[CalleeSlot + 1]
Args == SubSeq(stack, CalleeSlot + 2, Len(stack))
Fields(object) == heap[object.v]

\* The values an instruction pops or peeks at.
Wanted ==
    CASE Op \in {"JumpIfNot", "SetLocal", "SetGlobal", "FieldGet", "TESTYield", "WrapAny"} -> 1
      [] Op \in {"FieldSet", "ValEqual"} -> 2
      [] Op \in {"CallUser", "CallNative"} -> Arg + 1
      [] Op \in DOMAIN Unwraps -> 1
      [] Op \in DOMAIN Computing -> Len(Computing[Op].takes)
      [] Op = "Return" -> IF Depth = 1 THEN 0 ELSE 1
      [] OTHER -> 0

Accepts(native, args) ==
    \/ native.builds
    \/ /\ Len(args) >= Len(native.takes)
       /\ \A i \in DOMAIN native.takes : args[i].t = native.takes[i]

\* Why an instruction that can be read and finds enough operands panics.
Refusal ==
    CASE Op \in Unwritten -> "todo"
      [] Op = "JumpIfNot" /\ Peek(0).t # "Bool" -> "internal_error"
      [] Op = "Jump" /\ After + Offset < 0 -> "bad_jump"
      [] Op = "JumpIfNot" /\ Peek(0).v = 0 /\ After + Offset < 0 -> "bad_jump"
      [] Op = "CallUser" /\ Callee.t # "Function" -> "internal_error"
      [] Op = "CallNative" /\ Callee.t # "NativeFunc" -> "internal_error"
      [] Op = "CallNative" /\ ~Accepts(Natives[Callee.v], Args) -> "native_panic"
      [] Op \in {"GetLocal", "SetLocal"} /\ LocalSlot >= Len(stack) -> "bad_slot"
      [] Op \in {"GetGlobal", "SetGlobal"} /\ Arg >= Len(stack) -> "bad_slot"
      [] Op \in {"FieldGet", "FieldSet"} /\ Peek(0).t # "Object" -> "internal_error"
      [] Op \in {"FieldGet", "FieldSet"} /\ Arg >= Len(Fields(Peek(0))) -> "bad_field"
      [] Op = "Constant" /\ Arg >= Len(Fn.constants) -> "bad_constant"
      [] Op \in DOMAIN Unwraps /\ Peek(0).t # "Any" -> "internal_error"
      [] Op \in DOMAIN Computing /\
           \E i \in DOMAIN Computing[Op].takes :
              Computing[Op].takes[i] # Peek(Len(Computing[Op].takes) - i).t -> "internal_error"
      [] OTHER -> "none"

Fetches == Top.ip < Len(Fn.code) /\ IsOp(Fn.code[Top.ip + 1])

\* The panic (or InvalidCode) that the next cycle ends in, "none" if it goes on.
\* Where an instruction would panic for two reasons, as a JumpIfNot that finds
\* neither its offset nor a value, the order in which the code meets them is not
\* told apart.
Problem ==
    IF Len(stack) >= StackCapacity THEN "stack_overflow"
    ELSE IF Top.ip >= Len(Fn.code) THEN "off_code"
    ELSE IF ~IsOp(Fn.code[Top.ip + 1]) THEN "invalid_code"
    ELSE IF After > Len(Fn.code) THEN "off_code"
    ELSE IF Len(stack) < Wanted THEN "underflow"
    ELSE Refusal

(***************************************************************************)
(* The instructions.                                                       *)
(***************************************************************************)
Executing(ops) ==
    /\ status = "running"
    /\ Fetches
    /\ Op \in ops
    /\ Problem = "none"

MoveTo(ip) == call_stack' = [call_stack EXCEPT ![Depth].ip = ip]
Same == UNCHANGED <<program, heap, status>>

\* An instruction that replaces the n topmost values by those of the sequence.
Replace(n, values) == stack' = Drop(n) \o values /\ MoveTo(After) /\ Same

Pass == Executing({"Pass"}) /\ Replace(0, <<>>)

PushLiteral ==
    /\ Executing({"None", "True", "False", "LoadByte", "Constant"})
    /\ Replace(0, << CASE Op = "None" -> NoneVal
                       [] Op = "True" -> BoolVal(TRUE)
                       [] Op = "False" -> BoolVal(FALSE)
                       [] Op = "LoadByte" -> Val("Int", Signed8(Arg))
                       [] Op = "Constant" -> Fn.constants[Arg + 1] >>)

GetLocal == Executing({"GetLocal"}) /\ Replace(0, <<stack[LocalSlot + 1]>>)
GetGlobal == Executing({"GetGlobal"}) /\ Replace(0, <<stack[Arg + 1]>>)

StoreAt(slot) == stack' = [stack EXCEPT ![slot + 1] = Peek(0)] /\ MoveTo(After) /\ Same
SetLocal == Executing({"SetLocal"}) /\ StoreAt(LocalSlot)
SetGlobal == Executing({"SetGlobal"}) /\ StoreAt(Arg)

\* On an empty stack Vec::pop does nothing.
Pop == Executing({"Pop"}) /\ Replace(IF stack = <<>> THEN 0 ELSE 1, <<>>)

Jump ==
    /\ Executing({"Jump"})
    /\ MoveTo(After + Offset)
    /\ UNCHANGED stack /\ Same

\* JumpIfNot that counts from the offset bytes instead of from behind them.
JumpIfNotFromOperand ==
    /\ Executing({"JumpIfNot"})
    /\ MoveTo(IF Peek(0).v = 0 THEN Top.ip + 1 + Offset ELSE After)
    /\ stack' = Drop(1) /\ Same

JumpIfNot ==
    /\ Executing({"JumpIfNot"})
    /\ MoveTo(IF Peek(0).v = 0 THEN After + Offset ELSE After)
    /\ stack' = Drop(1) /\ Same

\* CallUser that leaves the callee in the caller's frame.
CallUserAboveCallee ==
    /\ Executing({"CallUser"})
    /\ Depth < MaxFrames
    /\ call_stack' = Append([call_stack EXCEPT ![Depth].ip = After],
                            Frame(Callee.v, CalleeSlot + 1))
    /\ UNCHANGED stack /\ Same

\* The callee and its arguments, already on the stack, become the first slots
\* of the new frame.
CallUser ==
    /\ Executing({"CallUser"})
    /\ Depth < MaxFrames
    /\ call_stack' = Append([call_stack EXCEPT ![Depth].ip = After],
                            Frame(Callee.v, CalleeSlot))
    /\ UNCHANGED stack /\ Same

CallNative ==
    /\ Executing({"CallNative"})
    /\ ~Natives[Callee.v].builds
    /\ \E result \in Results(Natives[Callee.v].gives) : Replace(Arg + 1, <<result>>)

\* new_obj, the native function behind every struct's name.
NewObject ==
    /\ Executing({"CallNative"})
    /\ Natives[Callee.v].builds
    /\ Len(heap) < MaxObjects
    /\ heap' = Append(heap, Args)
    /\ stack' = Append(Drop(Arg + 1), Val("Object", Len(heap) + 1))
    /\ MoveTo(After)
    /\ UNCHANGED <<program, status>>

FieldGet == Executing({"FieldGet"}) /\ Replace(1, <<Fields(Peek(0))[Arg + 1]>>)

\* Objects are shared: every value that holds the object sees the new field.
FieldSet ==
    /\ Executing({"FieldSet"})
    /\ heap' = [heap EXCEPT ![Peek(0).v][Arg + 1] = Peek(1)]
    /\ stack' = Drop(1)
    /\ MoveTo(After)
    /\ UNCHANGED <<program, status>>

\* Return that does not truncate the stack.
ReturnKeepingSlots ==
    /\ Executing({"Return"})
    /\ IF Depth = 1
       THEN /\ status' = "ended"
            /\ MoveTo(After)
            /\ UNCHANGED <<stack, program, heap>>
       ELSE /\ call_stack' = SubSeq(call_stack, 1, Depth - 1)
            /\ UNCHANGED stack
            /\ Same

\* The main script's Return ends the run; another one keeps the topmost value,
\* drops everything from the frame's bottom upwards and pushes the value again.
Return ==
    /\ Executing({"Return"})
    /\ IF Depth = 1
       THEN /\ status' = "ended"
            /\ MoveTo(After)
            /\ UNCHANGED <<stack, program, heap>>
       ELSE LET kept == IF Top.stack_bottom < Len(stack) THEN Top.stack_bottom
                        ELSE Len(stack) - 1
            IN /\ call_stack' = SubSeq(call_stack, 1, Depth - 1)
               /\ stack' = Append(SubSeq(stack, 1, kept), Peek(0))
               /\ Same

Crash ==
    /\ Executing({"Crash"})
    /\ status' = "ManualCrash"
    /\ MoveTo(After)
    /\ UNCHANGED <<stack, program, heap>>

TESTTakeInput ==
    /\ Executing({"TESTTakeInput"})
    /\ \E input \in Inputs : Replace(0, <<input>>)

\* The run pauses here and hands out the value; the caller resumes it.
TESTYield == Executing({"TESTYield"}) /\ Replace(1, <<NoneVal>>)

\* A mismatch is an error of the language, found after the value was popped.
UnwrapAny ==
    /\ Executing(DOMAIN Unwraps)
    /\ IF Peek(0).within = Unwraps[Op]
       THEN Replace(1, <<Unwrapped(Peek(0))>>)
       ELSE /\ status' = "TypeError"
            /\ stack' = Drop(1)
            /\ MoveTo(After)
            /\ UNCHANGED <<program, heap>>

WrapAny == Executing({"WrapAny"}) /\ Replace(1, <<Wrapped(Peek(0))>>)

ValEqual ==
    /\ Executing({"ValEqual"})
    /\ \E result \in Results("Bool") : Replace(2, <<result>>)

Compute ==
    /\ Executing(DOMAIN Computing)
    /\ \E result \in Results(Computing[Op].gives) :
          Replace(Len(Computing[Op].takes), <<result>>)

ArithmeticPanic ==
    /\ Executing(Panicking)
    /\ status' = "arithmetic_panic"
    /\ UNCHANGED <<program, call_stack, stack, heap>>

Fault ==
    /\ status = "running"
    /\ Problem # "none"
    /\ status' = Problem
    /\ UNCHANGED <<program, call_stack, stack, heap>>

Cycle ==
    \/ Pass \/ PushLiteral
    \/ GetLocal \/ SetLocal \/ GetGlobal \/ SetGlobal \/ Pop
    \/ Jump \/ JumpIfNot
    \/ CallUser \/ CallNative \/ NewObject \/ Return
    \/ FieldGet \/ FieldSet
    \/ UnwrapAny \/ WrapAny \/ ValEqual \/ Compute \/ ArithmeticPanic
    \/ TESTTakeInput \/ TESTYield \/ Crash
    \/ Fault

(***************************************************************************)
(* The part of the stack that belongs to an activation.                    *)
(***************************************************************************)
Slots(i) ==
    SubSeq(stack, call_stack[i].stack_bottom + 1,
           IF i < Depth THEN call_stack[i + 1].stack_bottom ELSE Len(stack))
Activations ==
    [i \in DOMAIN call_stack |-> [function |-> call_stack[i].function, slots |-> Slots(i)]]

(***************************************************************************)
(* How a run may end, and the type invariant.                              *)
(***************************************************************************)
LanguageEnds == {"ended", "TypeError", "ManualCrash"}
Limits == {"stack_overflow", "todo", "arithmetic_panic"}
Faults == {"off_code", "invalid_code", "underflow", "internal_error", "bad_jump",
           "native_panic", "bad_slot", "bad_field", "bad_constant"}

VMTypeOK ==
    /\ status \in {"running"} \cup LanguageEnds \cup Limits \cup Faults
    /\ stack \in Seq(Value)
    /\ heap \in Seq(Seq(Value))
    /\ call_stack # <<>>
    /\ call_stack \in Seq([function : DOMAIN program, ip : Nat, stack_bottom : Nat])
==============================================================================
