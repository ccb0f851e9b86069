------------------------------ MODULE Compiler -------------------------------
(***************************************************************************)
(* Compiling a program of Carabao, statement by statement: the visitors of *)
(* codegen.rs and, in lockstep, what those of analysis.rs accept and bind. *)
(* A behaviour writes one program; each action is a statement, or the      *)
(* opening or the closing of one that contains others.  The condition of   *)
(* an if or a while is the test build's input expression, of type bool.    *)
(*                                                                         *)
(* In the program the analysis of the whole tree comes before generation   *)
(* and the body of a function is analysed at its first call.  The lockstep *)
(* sees the same bindings because a body mentions only names declared      *)
(* before it, and no global is declared again once there is a function;    *)
(* functions are declared in the main script only.                         *)
(***************************************************************************)
EXTENDS Emit, Scopes, Program

CONSTANTS
    Names,         \* names of variables
    FuncNames,     \* names of functions, in the order they are declared
    ParamNames,    \* names of parameters, by position
    StructName,    \* name of a struct
    Forms,         \* the forms of statement that programs use
    RetTypes,      \* the return types that functions use
    MaxParams,     \* bound on the parameters of a function
    MaxStmts,      \* bound on the statements of a program
    MaxVisits,     \* bound on their nesting
    Tags           \* the literal that the i-th variable is given

AllForms == {"var", "var_any", "assign", "yield", "block", "while", "break", "continue",
             "if", "else", "func", "call", "print_call", "return", "return_value", "struct"}

ASSUME CompilerAssumption ==
    /\ Forms \subseteq AllForms
    /\ RetTypes \subseteq {"None", "Int", "Any"}
    /\ MaxParams \in 0..2 /\ MaxParams <= Len(ParamNames) /\ MaxStmts \in Nat /\ MaxVisits \in Nat
    /\ Tags \in Seq(-128..127)
    /\ InputType = "Bool"

VARIABLES
    contexts,          \* the functions being compiled, the innermost last: [gen, res, visits]
    global_bindings,   \* declarations of the main script's outermost scope
    phase,             \* "compile", then "panicked" or "compiled" and "running"
    left,              \* statements that the program may still have
    declared           \* how many variables it has declared

compilerVars == <<contexts, global_bindings, program, phase, left, declared>>

(***************************************************************************)
(* The current context.                                                    *)
(***************************************************************************)
Level == Len(contexts)
Gen == contexts[Level].gen
Res == contexts[Level].res
Visits == contexts[Level].visits

Context(gen, res, visits) == [gen |-> Boundary(gen), res |-> res, visits |-> visits]
Replaced(gen, res, visits) ==
    contexts' = [contexts EXCEPT ![Level] = Context(gen, res, visits)]
Put(gen, res, visits) == Replaced(Seal(gen, FALSE), res, visits)

Visit(kind, old_count, jump, start) ==
    [kind |-> kind, old_count |-> old_count, jump |-> jump, start |-> start]

Compiling == phase = "compile" /\ ~Gen.panicked

Statement(form) ==
    /\ Compiling
    /\ form \in Forms
    /\ left > 0
    /\ left' = left - 1
    /\ UNCHANGED phase

Closing(kind) ==
    /\ Compiling
    /\ Visits # <<>>
    /\ Last(Visits).kind = kind
    /\ UNCHANGED <<phase, left, declared, program, global_bindings>>

\* analyze() declares the native functions first.
NativeData ==
    [i \in DOMAIN Natives |->
        VarData(Natives[i].name, [t |-> "NativeFunc", f |-> i],
                Natives[i].takes, Natives[i].gives, 0)]

CompilerInit ==
    /\ contexts = <<Context(NewGenerator(<<>>, "None"), NewResolver(TRUE, "None"), <<>>)>>
    /\ global_bindings = NativeData
    /\ program = <<>>
    /\ phase = "compile"
    /\ left = MaxStmts
    /\ declared = 0

(***************************************************************************)
(* Variables.                                                              *)
(***************************************************************************)
IsGlobal(name) == \E i \in DOMAIN global_bindings : global_bindings[i].name = name

\* What the lockstep asks of a declaration.
MayDeclare(name) == ~(InGlobalScope(Res) /\ program # <<>> /\ IsGlobal(name))

Declare(gen, data) ==
    /\ Put(NewVar(gen), DeclareLocal(Res, data), Visits)
    /\ global_bindings' = DeclareGlobal(Res, global_bindings, data)

VarStmt(name) ==
    /\ Statement("var")
    /\ declared < Len(Tags)
    /\ MayDeclare(name)
    /\ LET tag == Tags[declared + 1]
       IN Declare(NewConstant(Gen, [t |-> "Int", within |-> "None", v |-> tag]),
                  VarData(name, [t |-> "Int", f |-> 0], <<>>, "None", tag))
    /\ declared' = declared + 1
    /\ UNCHANGED program

\* Without a type or a value the variable is an any that holds none.
VarAnyStmt(name) ==
    /\ Statement("var_any")
    /\ MayDeclare(name)
    /\ Declare(WriteInstr(WriteInstr(Gen, "None"), "WrapAny"),
               VarData(name, [t |-> "Any", f |-> 0], <<>>, "None", 0))
    /\ UNCHANGED <<declared, program>>

\* visit_variable_expr and the end of visit_assign_expr.
CodeLoad(gen, binding) ==
    WriteIndexed(gen, IF binding.space = "Stack" THEN "GetLocal" ELSE "GetGlobal", binding.slot)
CodeStore(gen, binding) ==
    WriteIndexed(gen, IF binding.space = "Stack" THEN "SetLocal" ELSE "SetGlobal", binding.slot)

CodeLiteral(gen, tag) == NewConstant(gen, [t |-> "Int", within |-> "None", v |-> tag])
ExpressionStmt(gen) == WriteInstr(gen, "Pop")

IntsNamed(name) ==
    {b \in GetIdentifier(Res, global_bindings, name) : b.data.type.t = "Int"}

AssignStmt(name) ==
    /\ Statement("assign")
    /\ \E b \in IntsNamed(name) :
          Put(ExpressionStmt(CodeStore(CodeLiteral(Gen, b.data.tag), b)), Res, Visits)
    /\ UNCHANGED <<declared, program, global_bindings>>

\* `<<name`, with which the repository's tests observe a variable.
YieldStmt(name) ==
    /\ Statement("yield")
    /\ \E b \in IntsNamed(name) :
          Put(ExpressionStmt(WriteInstr(CodeLoad(Reads(Gen, b.data.tag), b), "TESTYield")),
              Res, Visits)
    /\ UNCHANGED <<declared, program, global_bindings>>

(***************************************************************************)
(* Blocks, conditions and loops.  A body that is a single statement is     *)
(* coded like the block of that statement.                                 *)
(***************************************************************************)
Opening(gen, kind, jump, start) ==
    /\ Len(Visits) < MaxVisits
    /\ Put(gen, EnterScope(Res), Append(Visits, Visit(kind, gen.stack_size, jump, start)))
    /\ UNCHANGED <<declared, program, global_bindings>>

BlockDone == PopLocals(Gen, Last(Visits).old_count)

OpenBlock == Statement("block") /\ Opening(Gen, "block", 0, 0)
CloseBlock == Closing("block") /\ Put(BlockDone, ExitScope(Res), Front(Visits))

Condition(gen) == WriteInstr(gen, "TESTTakeInput")

BeginWhile ==
    /\ Statement("while")
    /\ Len(Visits) < MaxVisits
    /\ LET gen == WriteJump(Condition(BeginLoop(Gen)), "JumpIfNot")
       IN Put(gen, EnterScope(EnterLoop(Res)),
              Append(Visits, Visit("while", gen.stack_size, JumpArg(gen), Here(Gen))))
    /\ UNCHANGED <<declared, program, global_bindings>>

\* EndWhile that jumps back before the locals are popped.
EndWhileJumpingFirst ==
    /\ Closing("while")
    /\ LET visit == Last(Visits)
           looped == PopLocals(WriteJumpBack(Gen, visit.start), visit.old_count)
           patched == PatchJumpToNext(looped, visit.jump)
       IN Put(Landed(EndLoop(patched), visit.start), ExitLoop(ExitScope(Res)), Front(Visits))

EndWhile ==
    /\ Closing("while")
    /\ LET visit == Last(Visits)
           patched == PatchJumpToNext(WriteJumpBack(BlockDone, visit.start), visit.jump)
       IN Put(Landed(EndLoop(patched), visit.start), ExitLoop(ExitScope(Res)), Front(Visits))

BeginIf ==
    /\ Statement("if")
    /\ LET gen == WriteJump(Condition(Gen), "JumpIfNot")
       IN Opening(gen, "then", JumpArg(gen), 0)

EndIf ==
    /\ Closing("then")
    /\ Put(PatchJumpToNext(BlockDone, Last(Visits).jump), ExitScope(Res), Front(Visits))

\* The true branch jumps over the false one, which is where its condition's
\* jump leads.
BeginElse ==
    /\ Closing("then")
    /\ "else" \in Forms
    /\ LET gen == WriteJump(BlockDone, "Jump")
       IN Put(PatchJumpToNext(gen, Last(Visits).jump), EnterScope(ExitScope(Res)),
              Append(Front(Visits), Visit("else", gen.stack_size, JumpArg(gen), 0)))

EndElse ==
    /\ Closing("else")
    /\ Put(PatchJumpToNext(BlockDone, Last(Visits).jump), ExitScope(Res), Front(Visits))

\* The n-th enclosing loop, counted from the inside: n - 1 loops are inside it.
Loop(n) ==
    LET loops == {i \in DOMAIN Visits : Visits[i].kind = "while"}
    IN Visits[CHOOSE i \in loops : Cardinality({j \in loops : j > i}) = n - 1]

Leaves(gen, n) == [gen EXCEPT !.leaky = @ \/ gen.stack_size > Loop(n).old_count]

\* Break that ignores its argument.
BreakInnermost(n) ==
    /\ Statement("break")
    /\ n \in 1..Res.loop_depth
    /\ LET gen == WriteJump(Gen, "Jump")
           broken == [gen EXCEPT !.break_backlog =
                        @ \cup {[jump |-> JumpArg(gen), loop |-> Len(gen.loop_starts) - 1]}]
       IN Put(Leaves(Exits(broken, JumpArg(gen), Loop(n).start, Unknown), n), Res, Visits)
    /\ UNCHANGED <<declared, program, global_bindings>>

Break(n) ==
    /\ Statement("break")
    /\ n \in 1..Res.loop_depth
    /\ LET gen == WriteJump(Gen, "Jump")
           broken == [gen EXCEPT !.break_backlog =
                        @ \cup {[jump |-> JumpArg(gen), loop |-> Len(gen.loop_starts) - n]}]
       IN Put(Leaves(Exits(broken, JumpArg(gen), Loop(n).start, Unknown), n), Res, Visits)
    /\ UNCHANGED <<declared, program, global_bindings>>

Continue(n) ==
    /\ Statement("continue")
    /\ n \in 1..Res.loop_depth
    /\ LET gen == WriteJumpBack(Gen, Gen.loop_starts[Len(Gen.loop_starts) - n + 1])
       IN Put(Leaves(Exits(gen, JumpArg(gen), Loop(n).start, Loop(n).start), n), Res, Visits)
    /\ UNCHANGED <<declared, program, global_bindings>>

(***************************************************************************)
(* Functions and calls.                                                    *)
(***************************************************************************)
FunctionId == Len(program) + 1
ParamTag(function, i) == -(10 * function + i)

SelfData(function, params, ret_type) ==
    VarData(FuncNames[function], [t |-> "Function", f |-> function], params, ret_type, 0)

\* FunctionResolver that does not declare the function itself.
FunctionResolverWithoutSelf(function, params, ret_type) ==
    LET param(i) == VarData(ParamNames[i], [t |-> params[i], f |-> 0], <<>>, "None",
                            ParamTag(function, i))
    IN [NewResolver(FALSE, ret_type) EXCEPT !.local_bindings = [i \in DOMAIN params |-> param(i)]]

\* finish_function: a function's first local is the function, then its
\* parameters.  The test of the return value is in ReturnValue.
FunctionResolver(function, params, ret_type) ==
    LET param(i) == VarData(ParamNames[i], [t |-> params[i], f |-> 0], <<>>, "None",
                            ParamTag(function, i))
        locals == <<SelfData(function, params, ret_type)>> \o [i \in DOMAIN params |-> param(i)]
    IN [NewResolver(FALSE, ret_type) EXCEPT !.local_bindings = locals]

BeginFunc(ret_type, n) ==
    /\ Statement("func")
    /\ Level = 1
    /\ FunctionId <= Len(FuncNames)
    /\ LET params == [i \in 1..n |-> "Int"]
           self == SelfData(FunctionId, params, ret_type)
           inner == Context(NewGenerator(params, ret_type),
                            FunctionResolver(FunctionId, params, ret_type), <<>>)
       IN /\ contexts' = <<Context(Gen, DeclareLocal(Res, self), Visits), inner>>
          /\ global_bindings' = DeclareGlobal(Res, global_bindings, self)
    /\ UNCHANGED <<declared, program>>

\* A finished function; covered says that its end cannot be run past, because
\* it is an epilogue or follows a return.
Finished(gen, covered) ==
    [code |-> gen.code, constants |-> gen.constants, params |-> gen.params,
     ret_type |-> gen.ret_type, heights |-> gen.heights, reads |-> gen.reads,
     exits |-> gen.exits, leaky |-> gen.leaky, untyped |-> gen.untyped,
     misplaced |-> gen.misplaced, covered |-> covered]

EndsInReturn(gen) == gen.code # <<>> /\ Last(gen.code) = OpByte["Return"]

Dummy(type) ==
    CASE type = "None" -> [t |-> "None", within |-> "None", v |-> 0]
      [] type = "Int" -> [t |-> "Int", within |-> "None", v |-> 0]
      [] type = "Any" -> [t |-> "Any", within |-> "None", v |-> 0]

\* Epilogue that only pushes the value.
EpilogueWithoutReturn(gen) ==
    IF EndsInReturn(gen) THEN gen ELSE NewConstant(gen, Dummy(gen.ret_type))

\* Unless the last byte is that of Return, a value of the return type is
\* returned.
Epilogue(gen) ==
    IF EndsInReturn(gen) THEN gen
    ELSE WriteInstr(NewConstant(gen, Dummy(gen.ret_type)), "Return")

\* The function becomes a constant, and a variable, of the main script.  When
\* the epilogue is what the generator cannot write, that is the end of both.
EndFunc ==
    /\ Compiling
    /\ Level = 2
    /\ Visits = <<>>
    /\ LET ended == Epilogue(Gen)
           outer == contexts[1]
           value == [t |-> "Function", within |-> "None", v |-> FunctionId]
           noted == [outer.gen EXCEPT !.panicked = @ \/ ended.panicked, !.sealed = FALSE]
       IN /\ program' = Append(program, Finished(ended, Gen.sealed \/ ~EndsInReturn(Gen)))
          /\ contexts' = <<Context(NewVar(NewConstant(noted, value)), outer.res, outer.visits)>>
    /\ UNCHANGED <<global_bindings, phase, left, declared>>

\* A struct of one field: its name becomes a variable that holds new_obj.
StructStmt ==
    /\ Statement("struct")
    /\ MayDeclare(StructName)
    /\ Declare(WriteIndexed(Gen, "GetGlobal", NewObj - 1),
               VarData(StructName, [t |-> "NativeFunc", f |-> NewObj], <<"Int">>, "Object", 0))
    /\ UNCHANGED <<declared, program>>

\* In the main script a function declared in a block is called through a slot
\* that does not count the globals.
Misplaced(b) == Res.is_global /\ b.space = "Stack"

\* A parameter of a function always gets the same literal, its tag.
Literal(b, i) == IF b.data.type.t = "Function" THEN ParamTag(b.data.type.f, i) ELSE 0

\* Argument that does not convert.
ArgumentUncast(gen, b, i) == CodeLiteral(gen, Literal(b, i))

\* The i-th argument, an integer literal, converted to the parameter's type.
Argument(gen, b, i) == Coerce(CodeLiteral(gen, Literal(b, i)), "Int", b.data.params[i])

\* Calls have at most so many arguments; their number is an operand.
MaxArgs == 2

ASSUME ArgumentsAssumption == MaxArgs < IndexWidth

LoadCallee(gen, b) == CodeLoad([gen EXCEPT !.misplaced = @ \/ Misplaced(b)], b)

\* The callee, its arguments and the call.
CallWith(gen, b) ==
    LET n == Len(b.data.params)
        loaded == LoadCallee(gen, b)
        first == IF n >= 1 THEN Argument(loaded, b, 1) ELSE loaded
        called == IF n >= 2 THEN Argument(first, b, 2) ELSE first
    IN WriteIndexed(called, IF b.data.type.t = "NativeFunc" THEN "CallNative" ELSE "CallUser", n)

Callables == Range(FuncNames) \cup {StructName} \cup
             {native.name : native \in {n \in Range(Natives) : n.name # Unnamed}}

IntArgs == UNION {[1..n -> {"Int"}] : n \in 0..MaxArgs}

CallStmt(name) ==
    /\ Statement("call")
    /\ \E args \in IntArgs : \E b \in ResolveCall(Res, global_bindings, name, args) :
          Put(ExpressionStmt(CallWith(Gen, b)), Res, Visits)
    /\ UNCHANGED <<declared, program, global_bindings>>

\* `print(f())`: the value of a user function is the argument of a native one.
PrintCall(name) ==
    /\ Statement("print_call")
    /\ \E args \in IntArgs : \E b \in ResolveCall(Res, global_bindings, name, args) :
          /\ b.data.type.t = "Function"
          /\ \E print \in ResolveCall(Res, global_bindings, "print", <<b.data.ret_type>>) :
                /\ print.data.type.t = "NativeFunc"
                /\ LET value == Coerce(CallWith(LoadCallee(Gen, print), b),
                                       b.data.ret_type, print.data.params[1])
                   IN Put(ExpressionStmt(WriteIndexed(value, "CallNative", 1)), Res, Visits)
    /\ UNCHANGED <<declared, program, global_bindings>>

\* Without a value, a none is returned where the function's type can take one.
ReturnStmt ==
    /\ Statement("return")
    /\ CanConvert(Res.ret_type, "None")
    /\ LET untyped == [Gen EXCEPT !.untyped = @ \/ Gen.ret_type # "None"]
       IN Replaced(Seal(WriteInstr(WriteInstr(untyped, "None"), "Return"), Visits = <<>>),
                   Res, Visits)
    /\ UNCHANGED <<declared, program, global_bindings>>

\* ReturnValue that does not convert the value.
ReturnValueUncast ==
    /\ Statement("return_value")
    /\ CanConvert(Res.ret_type, "Int")
    /\ Replaced(Seal(WriteInstr(CodeLiteral(Gen, 0), "Return"), Visits = <<>>), Res, Visits)
    /\ UNCHANGED <<declared, program, global_bindings>>

\* The value is converted to the return type.
ReturnValue ==
    /\ Statement("return_value")
    /\ CanConvert(Res.ret_type, "Int")
    /\ LET value == Coerce(CodeLiteral(Gen, 0), "Int", Gen.ret_type)
       IN Replaced(Seal(WriteInstr(value, "Return"), Visits = <<>>), Res, Visits)
    /\ UNCHANGED <<declared, program, global_bindings>>

(***************************************************************************)
(* The end of the program, and of a compilation that cannot go on.         *)
(***************************************************************************)
Finish ==
    /\ Compiling
    /\ Level = 1
    /\ Visits = <<>>
    /\ program' = Append(program,
                           Finished(WriteInstr(WriteInstr(Gen, "None"), "Return"), TRUE))
    /\ phase' = "compiled"
    /\ contexts' = <<>>
    /\ left' = 0 /\ declared' = 0
    /\ UNCHANGED global_bindings

Abort ==
    /\ phase = "compile"
    /\ Gen.panicked
    /\ phase' = "panicked"
    /\ contexts' = <<>>
    /\ UNCHANGED <<global_bindings, program, left, declared>>

Compile ==
    \/ \E name \in Names : VarStmt(name) \/ VarAnyStmt(name)
    \/ \E name \in Names \cup Range(ParamNames) : AssignStmt(name) \/ YieldStmt(name)
    \/ OpenBlock \/ CloseBlock
    \/ BeginWhile \/ EndWhile
    \/ BeginIf \/ EndIf \/ BeginElse \/ EndElse
    \/ \E n \in 1..MaxVisits : Break(n) \/ Continue(n)
    \/ \E ret_type \in RetTypes, n \in 0..MaxParams : BeginFunc(ret_type, n)
    \/ EndFunc
    \/ StructStmt
    \/ \E name \in Callables : CallStmt(name) \/ PrintCall(name)
    \/ ReturnStmt \/ ReturnValue
    \/ Finish \/ Abort

(***************************************************************************)
(* The types.                                                              *)
(***************************************************************************)
CompilerTypeOK ==
    /\ phase \in {"compile", "compiled", "panicked", "running"}
    /\ left \in 0..MaxStmts
    /\ declared \in 0..Len(Tags)
    /\ phase = "compile" <=> contexts # <<>>
    /\ \A i \in DOMAIN contexts :
          /\ contexts[i].gen.code \in Seq(Byte)
          /\ contexts[i].gen.stack_size \in Nat
          /\ contexts[i].gen.loop_starts \in Seq(Nat)
          /\ contexts[i].res.depth \in Nat
          /\ contexts[i].res.loop_depth \in Nat
    /\ \A i \in DOMAIN program : program[i].code \in Seq(Byte)
==============================================================================
