----------------------------- MODULE Expressions -----------------------------
(***************************************************************************)
(* Expressions, from the tree to the value: the visitors of analysis.rs    *)
(* that give every node its type, those of codegen.rs that write its       *)
(* bytecode, and the cycles of runtime.rs that execute it.  VM.tla leaves  *)
(* computed values open; here they are computed, for the properties are    *)
(* about them.  A behaviour builds one tree, node by node, as the analysis *)
(* meets it, then codes it and runs the code.                              *)
(*                                                                         *)
(* A type is a sequence: <<"Int">>, <<"List", "Int">>, and so on, so that  *)
(* Tail is the item type of a list and the bound type of a range.  A node  *)
(* is a record [kind, op, value, kids, type, both, gaps]: op its operator,  *)
(* field or name, value that of a literal; kids the nodes below it in the  *)
(* order of their evaluation; type the one the analysis records for its id; both the *)
(* one it records for the operands of a binary expression; gaps belongs to *)
(* the properties.                                                         *)
(***************************************************************************)
EXTENDS Emit, Scopes, Iterables

CONSTANTS
    Literals,       \* the values of literals
    Variables,      \* the script's globals above the natives: <<[name, type, value], ...>>
    FirstHeap,      \* the lists and objects that they hold
    StructFields,   \* the fields of the only struct: <<[name, type], ...>>
    BinaryOps,      \* operators, fields and types that the trees use
    Fields,
    CastTypes,
    MaxLeaves,      \* bound on the leaves of a tree
    MaxInner        \* bound on its other nodes

ASSUME ExpressionsAssumption ==
    /\ BinaryOps \subseteq {"+", "-", "*", "/", "%", "<<", ">>", "&", "^", "|",
                            "<", ">", "<=", ">=", "==", "!=", ".."}
    /\ MaxLeaves \in Nat /\ MaxInner \in Nat

VARIABLES
    trees,     \* analysed expressions, the operands of what comes next
    leaves, inner,   \* the nodes that were built
    phase,     \* "write", "refused" or "panicked" by the analysis, "stuck" in the generator, "run"
    gen,       \* the generator's function, as in Emit
    ip, stack, heap, status   \* the machine; the natives below the variables are left out

vars == <<trees, leaves, inner, phase, gen, ip, stack, heap, status>>

(***************************************************************************)
(* Types.                                                                  *)
(***************************************************************************)
Of(name) == <<name>>
ListOf(type) == <<"List">> \o type
RangeType(type) == <<"Range">> \o type
Unchecked == Of("Unchecked")

\* can_convert_type on types that may have parts.
Convertible(expected, given) ==
    \/ given = Unchecked
    \/ expected = given
    \/ Head(expected) # Head(given) /\ CanConvert(Head(expected), Head(given))

\* Not types: an error was reported, which makes the analysis fail whatever
\* follows, or it panicked.
Refused == Of("refused")
Panicked == Of("panicked")

CoerceBinary(left, adding, right) ==
    IF left = right THEN left
    ELSE IF adding /\ Of("String") \in {left, right} THEN Of("String")
    ELSE IF {left, right} = {Of("Int"), Of("Float")} THEN Of("Float")
    ELSE IF {left, right} = {Of("Int"), Of("Char")} THEN Of("Int")
    ELSE Refused

Equalities == {"==", "!="}
Orders == {"<", ">", "<=", ">="}
FloatArithmetic == {"+", "-", "*", "/", "%"}
IntArithmetic == FloatArithmetic \cup {"<<", ">>", "&", "^", "|"}

\* visit_binary_expr: the type of `left op right` whose operands become both.
BinaryType(op, both) ==
    CASE both = Refused -> Refused
      [] both # Refused /\ op \in Equalities -> Of("Bool")
      [] both # Refused /\ op = ".." ->
            IF both \in {Of("Int"), Of("Float"), Of("Char"), Of("String")} THEN RangeType(both)
            ELSE Refused
      [] both # Refused /\ op \notin Equalities \cup {".."} ->
            CASE both = Unchecked -> Unchecked
              [] Head(both) \in {"Any", "Range", "Function", "UserType"} -> Panicked
              [] both = Of("Int") /\ op \in IntArithmetic -> both
              [] both = Of("Float") /\ op \in FloatArithmetic -> both
              [] Head(both) \in {"Int", "Float", "String"} /\ op \in Orders -> Of("Bool")
              [] both = Of("String") /\ op = "+" -> both
              [] both = Of("String") /\ op \in {"<<", ">>"} -> Of("Bool")
              [] Head(both) = "List" /\ op = "+" -> both
              [] OTHER -> Refused

\* The last field of that name.
HasField(name) == LastNamed(StructFields, name) # {}
FieldPlace(name) == CHOOSE i \in LastNamed(StructFields, name) : TRUE

GetType(type, field) ==
    CASE Head(type) \in {"String", "List"} -> IF field = "len" THEN Of("Int") ELSE Refused
      [] Head(type) = "Range" -> IF field \in {"start", "end"} THEN Tail(type) ELSE Refused
      [] Head(type) = "UserType" ->
            IF HasField(field) THEN StructFields[FieldPlace(field)].type ELSE Refused
      [] OTHER -> Refused

SliceType(sequence, query) ==
    CASE sequence = Of("String") /\ query = Of("Int") -> Of("Char")
      [] Head(sequence) = "List" /\ query = Of("Int") -> Tail(sequence)
      [] Head(sequence) \in {"String", "List"} /\ query = RangeType(Of("Int")) -> sequence
      [] OTHER -> Refused

\* The argument of unwrap_or is evaluated first, so the second branch must
\* always convert to the first one's type.
ConditionalType(condition, left, right) ==
    LET both == CoerceBinary(left, FALSE, right)
    IN IF ~Convertible(Of("Bool"), condition) \/ ~Convertible(left, right) THEN Refused
       ELSE IF both # Refused THEN both ELSE Unchecked

ListType(types) ==
    IF types = <<>> THEN ListOf(Unchecked)
    ELSE IF \A i \in DOMAIN types : i = 1 \/ Convertible(types[1], types[i]) THEN ListOf(types[1])
    ELSE Refused

UnaryType(type) == IF type \in {Of("Int"), Of("Float"), Of("Bool")} THEN type ELSE Refused

CastType(type, new) == IF Convertible(new, type) THEN new ELSE Refused

BooleanType(left, right) ==
    IF Convertible(Of("Bool"), left) /\ Convertible(Of("Bool"), right) THEN Of("Bool") ELSE Refused

\* resolve_ident_call for the two natives with a name and a result: an exact
\* match or a conversion, here the same, for no two functions share a name.
Signature(name) ==
    IF name = "str" THEN [params |-> <<Of("Any")>>, gives |-> Of("String")]
    ELSE [params |-> <<Of("String"), Of("Char")>>, gives |-> ListOf(Of("String"))]
CallType(name, types) ==
    LET params == Signature(name).params
    IN IF Len(params) = Len(types) /\ \A i \in DOMAIN params : Convertible(params[i], types[i])
       THEN Signature(name).gives ELSE Refused

\* The callee is some other expression: only a conditional or a cast can give
\* a function here, and this function is str.
OtherCallType(callee, argument) ==
    CASE callee = Unchecked -> Unchecked
      [] callee = Of("Any") -> Panicked
      [] callee = Of("Function") -> CallType("str", <<argument>>)
      [] OTHER -> Refused

\* visit_assign_expr by the kind of the assignee; the value is resolved first.
AssignSlotType(slotType, value) == IF Convertible(slotType, value) THEN slotType ELSE Refused
AssignFieldType(value, object, field) ==
    CASE object = Unchecked -> Unchecked
      [] Head(object) = "UserType" /\ HasField(field) ->
            AssignSlotType(StructFields[FieldPlace(field)].type, value)
      [] OTHER -> Refused
AssignItemType(value, sequence, query) ==
    IF Head(sequence) = "List" /\ Convertible(Of("Int"), query)
    THEN AssignSlotType(Tail(sequence), value) ELSE Refused

(***************************************************************************)
(* What the analysis accepts and the generator or the machine does not     *)
(* live up to; the properties say that there is nothing else.              *)
(***************************************************************************)
\* There is no instruction for the conversion, or nothing to convert to.
NoConversion(expected, given) ==
    \/ expected = Unchecked
    \/ expected # given /\ given = Unchecked /\ expected \notin {Of("Any"), Of("String")}
    \/ given = Of("Any") /\ Head(expected) \in {"None", "List", "Range", "Function", "UserType"}

Foreign(op, type) ==
    CASE type = Of("Int") -> op \notin {"-", "~"}
      [] type = Of("Float") -> op # "-"
      [] type = Of("Bool") -> op # "!"

\* The types that the operands are meant to have when the node is evaluated.
Targets(kind, kids, type, both, params) ==
    CASE kind = "Binary" -> <<both, both>>
      [] kind = "Boolean" -> <<Of("Bool"), Of("Bool")>>
      [] kind = "Conditional" -> <<Of("Bool"), type, type>>
      [] kind = "List" -> [i \in DOMAIN kids |-> Tail(type)]
      [] kind = "Call" -> params
      [] kind = "AssignVariable" -> <<type>>
      [] kind = "AssignField" -> <<type, kids[2].type>>
      [] kind = "AssignItem" -> <<type, kids[2].type, Of("Int")>>
      [] OTHER -> [i \in DOMAIN kids |-> kids[i].type]

\* Those that code_expr_into is asked for.
CodedInto == {"Binary", "Boolean", "List", "Call"}
AssignKinds == {"AssignVariable", "AssignField", "AssignItem"}

OwnGaps(kind, op, kids, type, both, targets) ==
    LET into == IF kind \in CodedInto THEN DOMAIN kids
                ELSE IF kind \in AssignKinds THEN {1} ELSE {}
        gap(name, holds) == IF holds THEN {name} ELSE {}
    IN UNION { gap("operator", \/ kind = "Unary" /\ Foreign(op, type)
                               \/ kind = "Binary" /\ both = Of("String") /\ op \in {"<<", ">>"}),
               gap("conversion", \/ \E i \in into : NoConversion(targets[i], kids[i].type)
                                 \/ /\ kind = "Cast" /\ type # kids[1].type
                                    /\ \/ kids[1].type = Unchecked /\ type # Of("Any")
                                       \/ NoConversion(type, kids[1].type)),
               gap("callee", kind = "OtherCall"),
               gap("condition", kind = "Conditional" /\ kids[1].type # Of("Bool")),
               gap("branches", /\ kind = "Conditional" /\ type # Unchecked
                               /\ {kids[2].type, kids[3].type} # {type}),
               gap("query", kind = "AssignItem" /\ kids[3].type # Of("Int")),
               gap("list_order", kind = "Binary" /\ Head(both) = "List" /\ op = "+") }

Sticking == {"operator", "conversion", "callee"}
Misleading == {"condition", "branches", "query"}

(***************************************************************************)
(* The tree, one node at a time, and the types that the analysis gives.    *)
(***************************************************************************)
NoType == <<>>

Node(kind, op, value, kids, type, both, params) ==
    LET targets == Targets(kind, kids, type, both, params)
    IN [kind |-> kind, op |-> op, value |-> value, kids |-> kids, type |-> type,
        both |-> both, targets |-> targets,
        gaps |-> OwnGaps(kind, op, kids, type, both, targets) \cup
                 UNION {kids[i].gaps : i \in DOMAIN kids}]

Machine == <<gen, ip, stack, heap, status>>
Kids(n) == SubSeq(trees, Len(trees) - n + 1, Len(trees))
Kid(n, i) == trees[Len(trees) - n + i]

\* The analysis goes on after an error, but only to report more of them.
Reject(type) ==
    /\ phase' = IF type = Refused THEN "refused" ELSE "panicked"
    /\ trees' = <<>> /\ leaves' = 0 /\ inner' = 0
    /\ UNCHANGED Machine

Accept(node, n) ==
    /\ trees' = Append(SubSeq(trees, 1, Len(trees) - n), node)
    /\ UNCHANGED <<phase, Machine>>

Leaf(kind, op, value, type) ==
    /\ phase = "write"
    /\ leaves < MaxLeaves
    /\ leaves' = leaves + 1
    /\ UNCHANGED inner
    /\ Accept(Node(kind, op, value, <<>>, type, NoType, <<>>), 0)

\* A node above the last n trees, of that type if it is one; params are those
\* of the callee.
Above(n) == phase = "write" /\ inner < MaxInner /\ Len(trees) >= n
Build(n, kind, op, type, both, params) ==
    \/ type \in {Refused, Panicked} /\ Reject(type)
    \/ /\ type \notin {Refused, Panicked}
       /\ inner' = inner + 1
       /\ UNCHANGED leaves
       /\ Accept(Node(kind, op, NoneValue, Kids(n), type, both, params), n)

LiteralExpr(value) == Leaf("Literal", "", value, Of(value.t))
VariableExpr(i) == Leaf("Variable", Variables[i].name, NoneValue, Variables[i].type)
\* A native function is a variable too.
FunctionExpr == Leaf("Variable", "str", NoneValue, Of("Function"))

UnaryExpr(op) == Above(1) /\ Build(1, "Unary", op, UnaryType(Kid(1, 1).type), NoType, <<>>)

BinaryExpr(op) ==
    /\ Above(2)
    /\ LET both == CoerceBinary(Kid(2, 1).type, op = "+", Kid(2, 2).type)
       IN Build(2, "Binary", op, BinaryType(op, both), both, <<>>)

BooleanExpr(op) ==
    Above(2) /\ Build(2, "Boolean", op, BooleanType(Kid(2, 1).type, Kid(2, 2).type), NoType, <<>>)

ConditionalExpr ==
    /\ Above(3)
    /\ LET type == ConditionalType(Kid(3, 1).type, Kid(3, 2).type, Kid(3, 3).type)
       IN Build(3, "Conditional", "", type, NoType, <<>>)

CastExpr(new) == Above(1) /\ Build(1, "Cast", "", CastType(Kid(1, 1).type, new), NoType, <<>>)

ListExpr(n) ==
    /\ Above(n)
    /\ Build(n, "List", "", ListType([i \in 1..n |-> Kid(n, i).type]), NoType, <<>>)

SliceExpr ==
    Above(2) /\ Build(2, "Slice", "", SliceType(Kid(2, 1).type, Kid(2, 2).type), NoType, <<>>)

GetExpr(field) == Above(1) /\ Build(1, "Get", field, GetType(Kid(1, 1).type, field), NoType, <<>>)

\* name(arguments), or the first argument.name(the others).
CallExpr(name) ==
    LET n == Len(Signature(name).params)
    IN /\ Above(n)
       /\ Build(n, "Call", name, CallType(name, [i \in 1..n |-> Kid(n, i).type]), NoType,
                Signature(name).params)

\* (callee)(argument), where the callee is not just a name.
OtherCallExpr ==
    /\ Above(2)
    /\ Kid(2, 1).kind \notin {"Variable", "Get"}
    /\ Build(2, "OtherCall", "", OtherCallType(Kid(2, 1).type, Kid(2, 2).type), NoType, <<>>)

AssignVariable(i) ==
    /\ Above(1)
    /\ Build(1, "AssignVariable", Variables[i].name,
             AssignSlotType(Variables[i].type, Kid(1, 1).type), NoType, <<>>)
AssignField(field) ==
    /\ Above(2)
    /\ Build(2, "AssignField", field,
             AssignFieldType(Kid(2, 1).type, Kid(2, 2).type, field), NoType, <<>>)
AssignItem ==
    /\ Above(3)
    /\ Build(3, "AssignItem", "",
             AssignItemType(Kid(3, 1).type, Kid(3, 2).type, Kid(3, 3).type), NoType, <<>>)

(***************************************************************************)
(* The generator.                                                          *)
(***************************************************************************)
Stuck(g) == [g EXCEPT !.panicked = TRUE]
WriteNative(g, name) == WriteIndexed(g, "GetGlobal", NativeIndex(name) - 1)
CallNative(g, n) == WriteIndexed(g, "CallNative", n)

Slot(name) ==
    Len(NativeNames) - 1 + CHOOSE i \in DOMAIN Variables : Variables[i].name = name
FieldIndex(name) == FieldPlace(name) - 1

IntInstr ==
    [op \in IntArithmetic \cup {"<", ">"} |->
        CASE op = "+" -> "IntAdd" [] op = "-" -> "IntSub" [] op = "*" -> "IntMul"
          [] op = "/" -> "IntDiv" [] op = "%" -> "IntMod" [] op = "&" -> "IntAnd"
          [] op = "^" -> "IntXor" [] op = "|" -> "IntOr" [] op = "<<" -> "IntShl"
          [] op = ">>" -> "IntShr" [] op = "<" -> "IntLess" [] op = ">" -> "IntGreater"]
FloatInstr ==
    [op \in FloatArithmetic \cup {"<", ">"} |->
        CASE op = "+" -> "FloatAdd" [] op = "-" -> "FloatSub" [] op = "*" -> "FloatMul"
          [] op = "/" -> "FloatDiv" [] op = "%" -> "FloatMod"
          [] op = "<" -> "FloatLess" [] op = ">" -> "FloatGreater"]
\* Opposite that keeps the direction.
OppositeSame == [op \in {"<=", ">="} |-> IF op = "<=" THEN "<" ELSE ">"]
Opposite == [op \in {"<=", ">="} |-> IF op = "<=" THEN ">" ELSE "<"]

RECURSIVE Code(_, _)      \* code_expr_as_is
RECURSIVE CodeInto(_, _, _)

\* CodeInto that knows casts only.
CodeIntoCastOnly(g, expected, e) ==
    LET cast == CastInstr(Head(e.type), Head(expected))
    IN IF expected = Unchecked THEN Stuck(g)
       ELSE IF e.type = expected THEN Code(g, e)
       ELSE IF cast # "" THEN WriteInstr(Code(g, e), cast)
       ELSE Stuck(g)

\* code_expr_into: with a cast where the types differ, or through a call of str.
CodeInto(g, expected, e) ==
    LET cast == CastInstr(Head(e.type), Head(expected))
    IN IF expected = Unchecked THEN Stuck(g)
       ELSE IF e.type = expected THEN Code(g, e)
       ELSE IF cast # "" THEN WriteInstr(Code(g, e), cast)
       ELSE IF expected = Of("String")
       THEN CallNative(CodeInto(WriteNative(g, "str"), Of("Any"), e), 1)
       ELSE Stuck(g)

\* Several operands one after the other; only those that are coded into a type
\* are converted.
InOrder(n) == [i \in 1..n |-> i]
CodeOperands(g, e, into) ==
    FoldLeft(LAMBDA acc, i : IF i \in into THEN CodeInto(acc, e.targets[i], e.kids[i])
                             ELSE Code(acc, e.kids[i]),
             g, InOrder(Len(e.kids)))
CodeAll(g, e) == CodeOperands(g, e, DOMAIN e.kids)
CodeAsIs(g, e) == CodeOperands(g, e, {})

ImplicitNativeCall(g, name, e) ==
    CallNative(CodeAsIs(WriteNative(g, name), e), Len(e.kids))
BinaryCall(g, name, e) == CallNative(CodeAll(WriteNative(g, name), e), 2)
Negated(g, negate) == IF negate THEN WriteInstr(g, "BoolNot") ELSE g

\* The result of str_cmp is compared with 0.
StringOrder(g, e) ==
    LET op == IF e.op \in {"<=", ">="} THEN Opposite[e.op] ELSE e.op
        compared == NewConstant(BinaryCall(g, "str_cmp", e), Number(0))
    IN IF op \in {"<", ">"} THEN Negated(WriteInstr(compared, IntInstr[op]), op # e.op)
       ELSE Stuck(compared)

CodeArithmetic(g, e, instr) ==
    LET op == IF e.op \in {"<=", ">="} THEN Opposite[e.op] ELSE e.op
    IN Negated(WriteInstr(CodeAll(g, e), instr[op]), op # e.op)

CodeBinary(g, e) ==
    CASE e.op \in Equalities -> Negated(WriteInstr(CodeAll(g, e), "ValEqual"), e.op = "!=")
      [] e.op = ".." -> BinaryCall(g, "new_range", e)
      [] e.op \notin Equalities \cup {".."} ->
            CASE e.both = Of("Int") -> CodeArithmetic(g, e, IntInstr)
              [] e.both = Of("Float") -> CodeArithmetic(g, e, FloatInstr)
              [] e.both = Of("String") ->
                    IF e.op = "+" THEN BinaryCall(g, "str_concat", e) ELSE StringOrder(g, e)
              [] Head(e.both) = "List" -> BinaryCall(g, "list_concat", e)
              [] OTHER -> Stuck(g)

CodeUnary(g, e) ==
    LET target == Code(g, e.kids[1])
        type == e.kids[1].type
    IN CASE e.op = "-" /\ type = Of("Int") -> WriteInstr(target, "IntNegate")
         [] e.op = "~" /\ type = Of("Int") -> WriteInstr(target, "IntNot")
         [] e.op = "-" /\ type = Of("Float") -> WriteInstr(target, "FloatNegate")
         [] e.op = "!" /\ type = Of("Bool") -> WriteInstr(target, "BoolNot")
         [] OTHER -> Stuck(target)

\* a && b is `if a then b else false`, a || b is `if a then true else b`.
CodeBoolean(g, e) ==
    LET tested == WriteJump(CodeInto(g, Of("Bool"), e.kids[1]), "JumpIfNot")
        passed == WriteJump(IF e.op = "&&" THEN CodeInto(tested, Of("Bool"), e.kids[2])
                            ELSE WriteInstr(tested, "True"), "Jump")
        other == PatchJumpToNext(passed, JumpArg(tested))
        ended == IF e.op = "&&" THEN WriteInstr(other, "False")
                 ELSE CodeInto(other, Of("Bool"), e.kids[2])
    IN PatchJumpToNext(ended, JumpArg(passed))

\* Neither the condition nor the branches are converted.
CodeConditional(g, e) ==
    LET tested == WriteJump(Code(g, e.kids[1]), "JumpIfNot")
        passed == WriteJump(Code(tested, e.kids[2]), "Jump")
        ended == Code(PatchJumpToNext(passed, JumpArg(tested)), e.kids[3])
    IN PatchJumpToNext(ended, JumpArg(passed))

CodeCast(g, e) ==
    LET value == Code(g, e.kids[1])
        cast == CastInstr(Head(e.kids[1].type), Head(e.type))
    IN IF e.kids[1].type = e.type THEN value
       ELSE IF cast # "" THEN WriteInstr(value, cast) ELSE Stuck(value)

CodeSlice(g, e) ==
    LET sequence == IF e.kids[1].type = Of("String") THEN "str" ELSE "list"
    IN ImplicitNativeCall(g, sequence \o (IF e.kids[2].type = Of("Int") THEN "_index_get"
                                          ELSE "_slice"), e)

CodeGet(g, e) ==
    CASE Head(e.kids[1].type) = "String" -> ImplicitNativeCall(g, "str_len", e)
      [] Head(e.kids[1].type) = "List" -> ImplicitNativeCall(g, "list_len", e)
      [] Head(e.kids[1].type) = "Range" -> ImplicitNativeCall(g, "range_" \o e.op, e)
      [] OTHER -> WriteIndexed(CodeAsIs(g, e), "FieldGet", FieldIndex(e.op))

\* CodeAssign whose value is not converted.
CodeAssignAsIs(g, e) ==
    CASE e.kind = "AssignVariable" -> WriteIndexed(CodeAsIs(g, e), "SetGlobal", Slot(e.op))
      [] e.kind = "AssignField" ->
            IF e.kids[2].type = Unchecked THEN Stuck(g)
            ELSE WriteIndexed(CodeAsIs(g, e), "FieldSet", FieldIndex(e.op))
      [] e.kind = "AssignItem" ->
            CallNative(CodeAsIs(WriteNative(g, "list_index_set"), e), 3)

\* The value comes first, converted; the object, sequence and query as they are.
CodeAssign(g, e) ==
    CASE e.kind = "AssignVariable" ->
            WriteIndexed(CodeOperands(g, e, {1}), "SetGlobal", Slot(e.op))
      [] e.kind = "AssignField" ->
            IF e.kids[2].type = Unchecked THEN Stuck(g)
            ELSE WriteIndexed(CodeOperands(g, e, {1}), "FieldSet", FieldIndex(e.op))
      [] e.kind = "AssignItem" ->
            CallNative(CodeOperands(WriteNative(g, "list_index_set"), e, {1}), 3)

Code(g, e) ==
    CASE e.kind = "Literal" -> NewConstant(g, e.value)
      [] e.kind = "Variable" ->
            IF e.op = "str" THEN WriteNative(g, "str") ELSE WriteIndexed(g, "GetGlobal", Slot(e.op))
      [] e.kind = "Unary" -> CodeUnary(g, e)
      [] e.kind = "Binary" -> CodeBinary(g, e)
      [] e.kind = "Boolean" -> CodeBoolean(g, e)
      [] e.kind = "Conditional" -> CodeConditional(g, e)
      [] e.kind = "Cast" -> CodeCast(g, e)
      [] e.kind = "List" -> CallNative(CodeAll(WriteNative(g, "new_list"), e), Len(e.kids))
      [] e.kind = "Slice" -> CodeSlice(g, e)
      [] e.kind = "Get" -> CodeGet(g, e)
      [] e.kind = "Call" -> CallNative(CodeAll(WriteNative(g, e.op), e), Len(e.kids))
      [] e.kind = "OtherCall" -> Stuck(g)
      [] e.kind \in AssignKinds -> CodeAssign(g, e)

NoGenerator == NewGenerator(<<>>, "None")

Generate ==
    /\ phase = "write"
    /\ Len(trees) = 1
    /\ LET g == Code(NoGenerator, trees[1])
       IN /\ phase' = IF g.panicked THEN "stuck" ELSE "run"
          /\ gen' = g
    /\ status' = IF phase' = "run" THEN "running" ELSE "idle"
    /\ stack' = [i \in DOMAIN Variables |-> Variables[i].value]
    /\ heap' = FirstHeap
    /\ UNCHANGED <<trees, leaves, inner, ip>>

(***************************************************************************)
(* The machine, on one function without calls of others.                   *)
(***************************************************************************)
Op == Decode(gen.code[ip + 1])
Arg == gen.code[ip + 2]
Offset == Signed16(gen.code[ip + 2], gen.code[ip + 3])
After == ip + Width(Op)
Peek(dist) == stack[Len(stack) - dist]
Popped(n) == SubSeq(stack, Len(stack) - n + 1, Len(stack))
Drop(n) == SubSeq(stack, 1, Len(stack) - n)
Global == Arg - Len(NativeNames) + 1     \* its place in the sequence

Still == UNCHANGED <<trees, leaves, inner, phase, gen>>
Executing(ops) ==
    phase = "run" /\ status = "running" /\ ip < Len(gen.code) /\ Op \in ops /\ Still
Replace(n, values) == stack' = Drop(n) \o values /\ ip' = After /\ UNCHANGED <<heap, status>>
Stop(end) == status' = end /\ UNCHANGED <<ip, stack, heap>>

PushLiteral ==
    /\ Executing({"True", "False", "None", "LoadByte", "Constant"})
    /\ Replace(0, << CASE Op = "True" -> Truth(TRUE) [] Op = "False" -> Truth(FALSE)
                       [] Op = "None" -> NoneValue
                       [] Op = "LoadByte" -> Number(Signed8(Arg))
                       [] Op = "Constant" -> gen.constants[Arg + 1] >>)

GetGlobal ==
    /\ Executing({"GetGlobal"})
    /\ Replace(0, <<IF Global > 0 THEN stack[Global] ELSE NativeValue(Arg + 1)>>)
SetGlobal ==
    /\ Executing({"SetGlobal"})
    /\ stack' = [stack EXCEPT ![Global] = Peek(0)] /\ ip' = After /\ UNCHANGED <<heap, status>>

FieldGet ==
    /\ Executing({"FieldGet"})
    /\ IF Peek(0).t = "Object" THEN Replace(1, <<heap[Peek(0).v][Arg + 1]>>)
       ELSE Stop("internal_error")
FieldSet ==
    /\ Executing({"FieldSet"})
    /\ IF Peek(0).t = "Object"
       THEN heap' = [heap EXCEPT ![Peek(0).v][Arg + 1] = Peek(1)]
            /\ stack' = Drop(1) /\ ip' = After /\ UNCHANGED status
       ELSE Stop("internal_error")

Jump == Executing({"Jump"}) /\ ip' = After + Offset /\ UNCHANGED <<stack, heap, status>>
JumpIfNot ==
    /\ Executing({"JumpIfNot"})
    /\ IF Peek(0).t = "Bool"
       THEN /\ ip' = IF Peek(0).v = 0 THEN After + Offset ELSE After
            /\ stack' = Drop(1) /\ UNCHANGED <<heap, status>>
       ELSE Stop("internal_error")

UnwrapAny ==
    /\ Executing(DOMAIN Unwraps)
    /\ CASE Peek(0).t # "Any" -> Stop("internal_error")
         [] Peek(0).t = "Any" /\ Peek(0).items[1].t # Unwraps[Op] -> Stop("TypeError")
         [] OTHER -> Replace(1, Peek(0).items)
WrapAny == Executing({"WrapAny"}) /\ Replace(1, <<InAny(Peek(0))>>)
UnwrittenCast == Executing(Unwritten) /\ Stop("todo")
ValEqual ==
    Executing({"ValEqual"}) /\ Replace(2, <<Truth(ValuesEqual(Peek(1), Peek(0), heap))>>)

\* The operator that each instruction hands to Rust.
RustOp ==
    [op \in FloatBinary \cup IntBinary |->
        CASE op \in {"IntAdd", "FloatAdd"} -> "+" [] op \in {"IntSub", "FloatSub"} -> "-"
          [] op \in {"IntMul", "FloatMul"} -> "*" [] op \in {"IntDiv", "FloatDiv"} -> "/"
          [] op \in {"IntMod", "FloatMod"} -> "%" [] op = "IntAnd" -> "&"
          [] op = "IntXor" -> "^" [] op = "IntOr" -> "|"
          [] op = "IntShl" -> "<<" [] op = "IntShr" -> ">>"]

Computed(args) ==
    LET a == args[1].v
        b == args[2].v
    IN CASE Op \in IntBinary -> Number(IntOperation(RustOp[Op], a, b))
         [] Op \in FloatBinary -> Floating(FloatOperation(RustOp[Op], a, b))
         [] Op = "IntLess" -> Truth(a < b)
         [] Op = "IntGreater" -> Truth(a > b)
         [] Op = "FloatLess" -> Truth(FloatLess(a, b))
         [] Op = "FloatGreater" -> Truth(FloatLess(b, a))
         [] Op = "IntNegate" -> Number(-a)
         [] Op = "IntNot" -> Number(-a - 1)
         [] Op = "FloatNegate" -> Floating(IF a = NotANumber THEN a ELSE -a)
         [] Op = "BoolNot" -> Truth(a = 0)
         [] Op = "IntToFloat" -> Floating(a)

\* ComputePanics without the negation of the least integer.
ComputePanicsBinary(args) == Op \in IntBinary /\ IntPanics(RustOp[Op], args[1].v, args[2].v)
ComputePanics(args) ==
    \/ Op \in IntBinary /\ IntPanics(RustOp[Op], args[1].v, args[2].v)
    \/ Op = "IntNegate" /\ args[1].v = LeastInt

Compute ==
    /\ Executing(DOMAIN Computing)
    /\ LET takes == Computing[Op].takes
           args == Popped(Len(takes))
       IN CASE \E i \in DOMAIN takes : args[i].t # takes[i] -> Stop("internal_error")
            [] \A i \in DOMAIN takes : args[i].t = takes[i] ->
                  IF ComputePanics(args) THEN Stop("arithmetic_panic")
                  ELSE Replace(Len(takes), <<Computed(args)>>)

CallNativeFunc ==
    /\ Executing({"CallNative"})
    /\ IF Peek(Arg).t # "NativeFunc" THEN Stop("internal_error")
       ELSE LET call == NativeCall(NativeNames[Peek(Arg).v], Popped(Arg), heap)
            IN IF call.end # "ok" THEN Stop(call.end)
               ELSE /\ stack' = Append(Drop(Arg + 1), call.value)
                    /\ heap' = call.heap
                    /\ ip' = After /\ UNCHANGED status

\* The value is on the stack; a script would go on with its next statement.
Done ==
    /\ phase = "run" /\ status = "running" /\ ip = Len(gen.code)
    /\ Still /\ Stop("ok")

Init ==
    /\ trees = <<>> /\ leaves = 0 /\ inner = 0 /\ phase = "write"
    /\ gen = NoGenerator /\ ip = 0 /\ stack = <<>> /\ heap = <<>> /\ status = "idle"

Analyse ==
    \/ \E value \in Literals : LiteralExpr(value)
    \/ \E i \in DOMAIN Variables : VariableExpr(i) \/ AssignVariable(i)
    \/ FunctionExpr
    \/ \E op \in {"-", "~", "!"} : UnaryExpr(op)
    \/ \E op \in BinaryOps : BinaryExpr(op)
    \/ \E op \in {"&&", "||"} : BooleanExpr(op)
    \/ ConditionalExpr
    \/ \E new \in CastTypes : CastExpr(new)
    \/ \E n \in 0..2 : ListExpr(n)
    \/ SliceExpr
    \/ \E field \in Fields : GetExpr(field) \/ AssignField(field)
    \/ \E name \in {"str", "split"} : CallExpr(name)
    \/ OtherCallExpr
    \/ AssignItem

Cycle ==
    \/ PushLiteral \/ GetGlobal \/ SetGlobal \/ FieldGet \/ FieldSet
    \/ Jump \/ JumpIfNot \/ UnwrapAny \/ WrapAny \/ UnwrittenCast
    \/ ValEqual \/ Compute \/ CallNativeFunc \/ Done

Next == Analyse \/ Generate \/ Cycle

Spec == Init /\ [][Next]_vars

(***************************************************************************)
(* What an expression means: its operands from left to right, each as the  *)
(* type that its place asks for, then the operator, without an instruction *)
(* and without a stack.  A world is a record [vars, heap, value, end, odd]: *)
(* end is "ok" or why the program stopped, value that of the expression    *)
(* evaluated last, and odd marks that a number that is not one was         *)
(* compared.                                                               *)
(***************************************************************************)
FirstWorld ==
    [vars |-> [i \in DOMAIN Variables |-> Variables[i].value], heap |-> FirstHeap,
     value |-> NoneValue, end |-> "ok", odd |-> FALSE]

Gives(w, value) == [w EXCEPT !.value = value]
GivesList(w, items) == [w EXCEPT !.heap = Append(@, items), !.value = ListAt(Len(w.heap) + 1)]
Fails(w, end) == [w EXCEPT !.end = end]
GivesOr(w, fine, value, end) == IF fine THEN Gives(w, value) ELSE Fails(w, end)

\* The world's value, taken from one type to another.
As(w, given, expected) ==
    CASE w.end # "ok" \/ expected \in {given, Unchecked} -> w
      [] expected = Of("Any") -> Gives(w, InAny(w.value))
      [] given = Of("Any") ->
            IF w.value.items[1].t = Head(expected) THEN Gives(w, w.value.items[1])
            ELSE Fails(w, "TypeError")
      [] expected = Of("String") -> Gives(w, StringOf(Text(w.value)))
      [] <<given, expected>> = <<Of("Int"), Of("Float")>> -> Gives(w, Floating(w.value.v))
      [] OTHER -> Fails(w, "todo")

TextLess(a, b) ==
    \E n \in 0..Len(a) :
        /\ n < Len(b) /\ \A i \in 1..n : a[i].v = b[i].v
        /\ n = Len(a) \/ a[n + 1].v < b[n + 1].v

\* The parts of a text between its cuts.
Cuts(characters, delim) ==
    SetToSortSeq({0, Len(characters) + 1} \cup {i \in DOMAIN characters : characters[i].v = delim.v}, <)
PartsOf(characters, delim) ==
    LET cuts == Cuts(characters, delim)
    IN [i \in 1..(Len(cuts) - 1) |-> StringOf(SubSeq(characters, cuts[i] + 1, cuts[i + 1] - 1))]

\* Whether a precedes b, and whether it does not follow b.
Precedes(type, a, b) == IF type = Of("String") THEN TextLess(a.items, b.items) ELSE a.v < b.v
Ordered(op, type, a, b) ==
    CASE op = "<" -> Precedes(type, a, b) [] op = ">" -> Precedes(type, b, a)
      [] op = "<=" -> ~Precedes(type, b, a) [] op = ">=" -> ~Precedes(type, a, b)
Unordered(a, b) == a.t = "Float" /\ NotANumber \in {a.v, b.v}

BinaryMeaning(w, op, type, a, b) ==
    CASE op \in Equalities -> Gives(w, Truth(ValuesEqual(a, b, w.heap) = (op = "==")))
      [] op \in Orders -> [Gives(w, Truth(Ordered(op, type, a, b))) EXCEPT !.odd = @ \/ Unordered(a, b)]
      [] op = ".." -> Gives(w, RangeOf(a, b))
      [] type = Of("String") -> Gives(w, StringOf(a.items \o b.items))
      [] Head(type) = "List" -> GivesList(w, w.heap[a.v] \o w.heap[b.v])
      [] type = Of("Float") -> Gives(w, Floating(FloatOperation(op, a.v, b.v)))
      [] type = Of("Int") ->
            GivesOr(w, ~IntPanics(op, a.v, b.v), Number(IntOperation(op, a.v, b.v)), "arithmetic_panic")

UnaryMeaning(w, op, a) ==
    CASE op = "!" -> Gives(w, Truth(a.v = 0))
      [] op = "~" -> Gives(w, Number(-1 - a.v))
      [] op = "-" /\ a.t = "Int" -> GivesOr(w, -a.v \in Ints, Number(-a.v), "arithmetic_panic")
      [] op = "-" /\ a.t = "Float" -> Gives(w, Floating(IF a.v = NotANumber THEN a.v ELSE 0 - a.v))

\* Only lists count from their end.
PlaceOf(sequence, length, index) ==
    IF sequence.t = "List" /\ index.v < 0 THEN length + index.v + 1 ELSE index.v + 1

SliceMeaning(w, sequence, query) ==
    LET items == IF sequence.t = "List" THEN w.heap[sequence.v] ELSE sequence.items
        place == PlaceOf(sequence, Len(items), query)
        from == query.items[1].v
        to == query.items[2].v
        part == [i \in 1..(to - from) |-> items[from + i]]
    IN CASE query.t = "Int" -> GivesOr(w, place \in DOMAIN items, items[place], "out_of_bounds")
         [] query.t = "Range" ->
              IF ~(0 <= from /\ from <= to /\ to <= Len(items)) THEN Fails(w, "out_of_bounds")
              ELSE IF sequence.t = "List" THEN GivesList(w, part) ELSE Gives(w, StringOf(part))

GetMeaning(w, object, field) ==
    CASE object.t = "String" -> Gives(w, Number(Len(object.items)))
      [] object.t = "List" -> Gives(w, Number(Len(w.heap[object.v])))
      [] object.t = "Range" -> Gives(w, object.items[IF field = "start" THEN 1 ELSE 2])
      [] object.t = "Object" -> Gives(w, w.heap[object.v][FieldPlace(field)])

AssignMeaning(w, e, values) ==
    LET container == values[2].v
        place == PlaceOf(values[2], Len(w.heap[container]), values[3])
    IN CASE e.kind = "AssignVariable" ->
              [Gives(w, values[1]) EXCEPT
                  !.vars = [i \in DOMAIN @ |-> IF Variables[i].name = e.op THEN values[1] ELSE @[i]]]
         [] e.kind = "AssignField" ->
              [Gives(w, values[1]) EXCEPT !.heap[container][FieldPlace(e.op)] = values[1]]
         [] e.kind = "AssignItem" ->
              IF place \in DOMAIN w.heap[container]
              THEN [Gives(w, values[1]) EXCEPT !.heap[container][place] = values[1]]
              ELSE Fails(w, "out_of_bounds")

CallMeaning(w, name, values) ==
    CASE name = "str" -> Gives(w, StringOf(Text(values[1])))
      [] name = "split" -> GivesList(w, PartsOf(values[1].items, values[2]))

RECURSIVE Meaning(_, _)
MeaningInto(e, i, w) == As(Meaning(e.kids[i], w), e.kids[i].type, e.targets[i])

\* The world after the operands, and their values.
OperandsMeaning(e, w) ==
    FoldLeft(LAMBDA acc, i : LET after == MeaningInto(e, i, acc.world)
                             IN [world |-> after, values |-> Append(acc.values, after.value)],
             [world |-> w, values |-> <<>>], InOrder(Len(e.kids)))

Operate(e, w, values) ==
    CASE e.kind = "Literal" -> Gives(w, e.value)
      [] e.kind = "Variable" /\ e.op = "str" -> Gives(w, NativeValue(NativeIndex("str")))
      [] e.kind = "Variable" /\ e.op # "str" ->
            Gives(w, w.vars[CHOOSE i \in DOMAIN Variables : Variables[i].name = e.op])
      [] e.kind = "Unary" -> UnaryMeaning(w, e.op, values[1])
      [] e.kind = "Binary" -> BinaryMeaning(w, e.op, e.both, values[1], values[2])
      [] e.kind = "Cast" -> As(w, e.kids[1].type, e.type)
      [] e.kind = "List" -> GivesList(w, values)
      [] e.kind = "Slice" -> SliceMeaning(w, values[1], values[2])
      [] e.kind = "Get" -> GetMeaning(w, values[1], e.op)
      [] e.kind = "Call" -> CallMeaning(w, e.op, values)
      [] e.kind \in AssignKinds -> AssignMeaning(w, e, values)

\* The operands that are evaluated only if the first one lets them.
Meaning(e, w) ==
    LET first == MeaningInto(e, 1, w)
        holds == first.value.v = 1
        all == OperandsMeaning(e, w)
    IN IF w.end # "ok" THEN w
       ELSE IF e.kind \in {"Boolean", "Conditional"}
       THEN CASE first.end # "ok" -> first
              [] first.end = "ok" /\ e.kind = "Boolean" ->
                    IF holds = (e.op = "&&") THEN MeaningInto(e, 2, first) ELSE first
              [] first.end = "ok" /\ e.kind = "Conditional" ->
                    MeaningInto(e, IF holds THEN 2 ELSE 3, first)
       ELSE IF all.world.end # "ok" THEN all.world
       ELSE Operate(e, all.world, all.values)

RECURSIVE HasType(_, _, _)
HasType(value, type, contents) ==
    CASE type = Unchecked -> TRUE
      [] Head(type) = "List" ->
            /\ value.t = "List"
            /\ \A item \in Range(contents[value.v]) : HasType(item, Tail(type), contents)
      [] Head(type) = "Range" ->
            value.t = "Range" /\ \A bound \in Range(value.items) : HasType(bound, Tail(type), contents)
      [] Head(type) = "Function" -> value.t = "NativeFunc"
      [] Head(type) = "UserType" ->
            /\ value.t = "Object"
            /\ \A i \in DOMAIN StructFields :
                   HasType(contents[value.v][i], StructFields[i].type, contents)
      [] OTHER -> value.t = Head(type)

(***************************************************************************)
(* Properties.                                                             *)
(***************************************************************************)
Generated == phase \in {"stuck", "run"}
Tree == trees[1]
Over == phase = "run" /\ status # "running"
Result == stack[Len(stack)]
VariablesNow == SubSeq(stack, 1, Len(Variables))
Cells == UNION ({Range(stack)} \cup {Range(heap[i]) : i \in DOMAIN heap})

\* The instruction pointer stays at instructions of the function or at its
\* end, integers within their width, and references within the heap.
ExprTypeOK ==
    /\ phase \in {"write", "refused", "panicked", "stuck", "run"}
    /\ status \in {"idle", "running", "ok", "internal_error", "arithmetic_panic",
                   "out_of_bounds", "TypeError", "todo"}
    /\ ip \in 0..Len(gen.code)
    /\ status = "running" /\ ip < Len(gen.code) => IsOp(gen.code[ip + 1])
    /\ \A cell \in Cells :
          /\ cell.t = "Int" => cell.v \in Ints
          /\ cell.t \in {"List", "Object"} => cell.v \in DOMAIN heap

\* What the analysis lets through and the generator panics at (internal_error!
\* of codegen.rs: "I made a mistake during analysis") is an operator that the
\* operand's type lacks, a conversion that no instruction makes, or a callee
\* that is not a name; whatever else is accepted is coded.
CodedExactly == Generated => (phase = "stuck" <=> Tree.gaps \cap Sticking # {})

\* The types that the analysis records are those of the values: the code leaves
\* one value above the variables, of the tree's type, and no variable, list or
\* object holds anything but what it was declared with.  Only a condition, a
\* branch or an index that is coded without its conversion can spoil this, and
\* only then can the machine meet a variant that it does not expect.
TypesHold ==
    Over =>
        /\ status = "ok" => Len(stack) = Len(Variables) + 1
        /\ Tree.gaps \cap Misleading = {} =>
              /\ status # "internal_error"
              /\ status = "ok" => HasType(Result, Tree.type, heap)
              /\ \A i \in DOMAIN Variables : HasType(VariablesNow[i], Variables[i].type, heap)

\* The code of an expression computes what the expression means: it stops for
\* the same reason, or ends with the same value, the same variables and the
\* same lists and objects, the operands evaluated in their order and those of
\* && and || only if needed.  Two things differ and are left out, the order of
\* the two lists in a sum and that <= and >= hold for what is not a number.
Means ==
    Over /\ Tree.gaps = {} =>
        LET means == Meaning(Tree, FirstWorld)
        IN means.odd \/ ( /\ status = means.end
                          /\ VariablesNow = means.vars /\ heap = means.heap
                          /\ status = "ok" => Result = means.value )
==============================================================================
