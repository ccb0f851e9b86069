-------------------------------- MODULE MCVM ---------------------------------
(***************************************************************************)
(* The machine on every program of three small families of bytecode, most  *)
(* of which the generator would never write: the run shows what a program  *)
(* must satisfy for the machine's unchecked reads to be safe.              *)
(***************************************************************************)
EXTENDS Bytecode

MCNatives == << [name |-> "native", takes |-> <<"Any">>, gives |-> "Int", builds |-> FALSE],
                [name |-> "", takes |-> <<>>, gives |-> "Object", builds |-> TRUE] >>
MCInputs == {BoolVal(TRUE), BoolVal(FALSE)}
MCData == {0, 1}

(***************************************************************************)
(* Programs: function 1, and the main script as function 2.  Slots 0 and 1 *)
(* of the script are the natives, so its first own slot, and its only      *)
(* global, is slot 2.                                                      *)
(***************************************************************************)
I(op) == <<OpByte[op]>>
I1(op, arg) == <<OpByte[op], arg>>
I2(op, offset) == <<OpByte[op]>> \o Short(offset)

\* The concatenations of at most n instructions of the alphabet.
Codes(alphabet, n) ==
    UNION {{FlattenSeq(s) : s \in [1..k -> alphabet]} : k \in 0..n}

Function(code) == [code |-> code, constants |-> <<>>, params |-> <<"Int">>, ret_type |-> "Int"]
Main(code) ==
    [code |-> code \o I("None") \o I("Return"),
     constants |-> <<Val("Function", 1), Wrapped(Val("Int", 1)), Val("Function", 2)>>,
     params |-> <<>>, ret_type |-> "None"]

Identity == Function(I1("GetLocal", 1) \o I("Return"))

Values == { I("None"), I("True"), I1("LoadByte", 1), I1("Constant", 1), I("WrapAny"),
            I("AnyToInt"), I("AnyToBool"), I("IntToFloat"), I("FloatNegate"), I("IntAdd"),
            I("IntLess"), I("BoolNot"), I("ValEqual"), I("Pop"), I("Pass"), I("Crash"),
            I("TESTTakeInput"), I("TESTYield"), I("BoolToInt"), I1("GetLocal", 2),
            I1("SetLocal", 2), I1("GetGlobal", 0), I1("GetGlobal", 1), I1("CallNative", 1),
            I1("FieldGet", 0), I1("FieldSet", 0), <<0>> }
Starts == { I1("LoadByte", 0), I1("LoadByte", 0) \o I("TESTTakeInput"),
            I1("LoadByte", 0) \o I1("Constant", 1),
            I1("LoadByte", 0) \o I1("GetGlobal", 1) \o I1("LoadByte", 1) }
ValuePrograms ==
    {<<Identity, Main(start \o code)>> : start \in Starts, code \in Codes(Values, 2)}

Jumps == { I("True"), I1("LoadByte", 1), I("Pop"), I2("Jump", 2), I2("Jump", -4),
           I2("JumpIfNot", 1), I2("JumpIfNot", -3), I2("JumpIfNot", -9), I("TESTTakeInput") }
JumpPrograms ==
    {<<Identity, Main(code)>> : code \in Codes(Jumps, 4)}

Bodies == { I1("LoadByte", 1), I1("GetLocal", 0), I1("GetLocal", 1), I1("SetLocal", 1),
            I1("GetGlobal", 2), I1("GetGlobal", 3), I1("SetGlobal", 2), I1("CallUser", 1),
            I("Pop"), I("Return") }
Callers == { I1("LoadByte", 5), I1("Constant", 0) \o I1("LoadByte", 1) \o I1("CallUser", 1),
             I1("CallUser", 0), I1("Constant", 2) }
CallPrograms ==
    {<<Function(body \o I("Return")), Main(caller)>> :
        body \in Codes(Bodies, 3), caller \in Codes(Callers, 2)}

MCPrograms == ValuePrograms \cup JumpPrograms \cup CallPrograms

\* The verifier is told that the script's global holds an Int.
MCGlobals == <<[t |-> "NativeFunc", f |-> 1], [t |-> "NativeFunc", f |-> 2], Of("Int")>>
==============================================================================
