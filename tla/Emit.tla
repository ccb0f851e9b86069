-------------------------------- MODULE Emit ---------------------------------
(***************************************************************************)
(* Writing bytecode: the helpers of codegen.rs on the context of the       *)
(* function being generated,                                               *)
(*   [code, constants, stack_size, loop_starts, break_backlog,             *)
(*    params, ret_type, panicked]                                          *)
(* of which panicked says that the generator hit one of its todo!() limits *)
(* and the compilation is over.  Line numbers are not modelled.            *)
(*                                                                         *)
(* Seven more fields only record what happened, for the properties:        *)
(*   heights  pairs of a statement boundary and stack_size there           *)
(*   reads    pairs of the place of a GetLocal or GetGlobal and the tag of *)
(*            the variable it is meant to read                             *)
(*   exits    for every break and continue the place of its offset, the    *)
(*            start of the loop it leaves or repeats, and where it must go *)
(*   leaky    whether a break or continue leaves a block that has locals   *)
(*   sealed   whether the last statement is a return outside all others    *)
(*   untyped  whether a return without a value is in a function whose      *)
(*            return type is not none                                      *)
(*   misplaced  whether a call loads its callee from a slot that does not  *)
(*            count the globals below it                                   *)
(***************************************************************************)
EXTENDS OpCodes

CONSTANTS
    MaxJump,       \* i16::MAX
    MaxConstant,   \* u8::MAX
    IndexWidth     \* 256: slots and counts are written with `as u8`

ASSUME EmitAssumption ==
    /\ MaxJump \in 0..32767
    /\ MaxConstant \in 0..255
    /\ IndexWidth \in 1..256

NewGenerator(params, ret_type) ==
    [code |-> <<>>, constants |-> <<>>, stack_size |-> 0,
     loop_starts |-> <<>>, break_backlog |-> {},
     params |-> params, ret_type |-> ret_type, panicked |-> FALSE,
     heights |-> {<<0, 0>>}, reads |-> {}, exits |-> {}, leaky |-> FALSE,
     sealed |-> FALSE, untyped |-> FALSE, misplaced |-> FALSE]

Here(gen) == Len(gen.code)

WriteByte(gen, byte) == [gen EXCEPT !.code = Append(@, byte)]
WriteInstr(gen, op) == WriteByte(gen, OpByte[op])
WriteShort(gen, short) == [gen EXCEPT !.code = @ \o Short(short)]
WriteIndexed(gen, op, index) == WriteByte(WriteInstr(gen, op), index % IndexWidth)

NewVar(gen) == [gen EXCEPT !.stack_size = @ + 1]

\* NewConstant that writes the byte as it is, without its two's complement.
NewConstantSigned(gen, value) ==
    IF value.t = "Int" THEN WriteByte(WriteInstr(gen, "LoadByte"), value.v)
    ELSE WriteInstr(gen, "None")

\* A Bool, a none and an integer that fits a byte are written into the code,
\* everything else goes to the pool.
NewConstant(gen, value) ==
    CASE value.t = "Bool" -> WriteInstr(gen, IF value.v = 1 THEN "True" ELSE "False")
      [] value.t = "None" -> WriteInstr(gen, "None")
      [] value.t = "Int" /\ value.v \in -128..127 ->
            WriteByte(WriteInstr(gen, "LoadByte"), value.v % 256)
      [] OTHER ->
            IF Len(gen.constants) > MaxConstant THEN [gen EXCEPT !.panicked = TRUE]
            ELSE [WriteByte(WriteInstr(gen, "Constant"), Len(gen.constants))
                    EXCEPT !.constants = Append(@, value)]

\* A forward jump is written with offset 0 and patched later; jumpArg is the
\* place of its two offset bytes.
WriteJump(gen, op) == WriteShort(WriteInstr(gen, op), 0)
JumpArg(gen) == Here(gen) - 2

FitsJump(offset) == -MaxJump - 1 <= offset /\ offset <= MaxJump

\* OffsetToNext that counts from the offset bytes instead of from behind them,
\* and one with its operands swapped.
OffsetFromOperand(gen, jumpArg) == Here(gen) - jumpArg
OffsetBackwards(gen, jumpArg) == (jumpArg + 2) - Here(gen)

\* From behind the offset bytes to the next instruction written.
OffsetToNext(gen, jumpArg) == Here(gen) - (jumpArg + 2)

\* The jumps of a set are patched to lead here.
PatchToNext(gen, jumpArgs) ==
    LET bytes(jumpArg) == Short(OffsetToNext(gen, jumpArg))
    IN [gen EXCEPT
          !.code = [i \in DOMAIN @ |-> IF i - 1 \in jumpArgs THEN bytes(i - 1)[1]
                                      ELSE IF i - 2 \in jumpArgs THEN bytes(i - 2)[2]
                                      ELSE @[i]],
          !.panicked = @ \/ \E jumpArg \in jumpArgs : ~FitsJump(OffsetToNext(gen, jumpArg))]
PatchJumpToNext(gen, jumpArg) == PatchToNext(gen, {jumpArg})

WriteJumpBack(gen, target) ==
    LET offset == target - (Here(gen) + 3)
    IN IF FitsJump(offset) THEN WriteShort(WriteInstr(gen, "Jump"), offset)
       ELSE [gen EXCEPT !.panicked = TRUE]

BeginLoop(gen) == [gen EXCEPT !.loop_starts = Append(@, Here(gen))]

\* EndLoop that does not drop the breaks it has patched.
EndLoopKeepingBacklog(gen) ==
    LET ended == Len(gen.loop_starts) - 1
        landing == {b.jump : b \in {c \in gen.break_backlog : c.loop = ended}}
    IN [PatchToNext(gen, landing) EXCEPT !.loop_starts = SubSeq(@, 1, ended)]

\* The loop's own entry is gone, so its index is the new number of loops; the
\* breaks that name that index land here.
EndLoop(gen) ==
    LET ended == Len(gen.loop_starts) - 1
        landing == {b.jump : b \in {c \in gen.break_backlog : c.loop = ended}}
    IN [PatchToNext(gen, landing) EXCEPT
          !.loop_starts = SubSeq(@, 1, ended),
          !.break_backlog = {b \in @ : b.loop # ended}]

\* PopLocals that forgets the count, and one that is off by one.
PopLocalsKeepingCount(gen, old_count) ==
    [gen EXCEPT !.code = @ \o [i \in 1..(gen.stack_size - old_count) |-> OpByte["Pop"]]]
PopAllButOne(gen, old_count) ==
    [gen EXCEPT !.code = @ \o [i \in 1..(gen.stack_size - old_count - 1) |-> OpByte["Pop"]],
                !.stack_size = old_count]

\* The locals declared since old_count leave the stack one by one.
PopLocals(gen, old_count) ==
    [gen EXCEPT !.code = @ \o [i \in 1..(gen.stack_size - old_count) |-> OpByte["Pop"]],
                !.stack_size = old_count]

\* The cast from one type to another, "" when there is no such instruction.
CastInstr(old, new) ==
    IF old = "Any" THEN
        IF new \in {"Int", "Float", "Bool", "Char", "String"}
        THEN CHOOSE op \in DOMAIN Unwraps : Unwraps[op] = new ELSE ""
    ELSE IF new = "Any" THEN "WrapAny"
    ELSE CASE <<old, new>> = <<"Int", "Float">> -> "IntToFloat"
           [] <<old, new>> = <<"Int", "Bool">> -> "IntToBool"
           [] <<old, new>> = <<"Char", "Int">> -> "CharToInt"
           [] <<old, new>> = <<"Bool", "Int">> -> "BoolToInt"
           [] <<old, new>> = <<"Bool", "Float">> -> "BoolToFloat"
           [] OTHER -> ""

\* code_expr_into, once the expression itself, of type old, has been coded.
\* Conversions to String, which call str around the expression, are left out.
Coerce(gen, old, expected) ==
    IF old = expected THEN gen
    ELSE IF CastInstr(old, expected) = "" THEN [gen EXCEPT !.panicked = TRUE]
    ELSE WriteInstr(gen, CastInstr(old, expected))

(***************************************************************************)
(* Recording for the properties.                                           *)
(***************************************************************************)
Boundary(gen) == [gen EXCEPT !.heights = @ \cup {<<Here(gen), gen.stack_size>>}]
Seal(gen, sealed) == [gen EXCEPT !.sealed = sealed]
Reads(gen, tag) == [gen EXCEPT !.reads = @ \cup {<<Here(gen), tag>>}]
Exit(at, loop, goal) == [at |-> at, loop |-> loop, goal |-> goal]
Unknown == -1
Exits(gen, at, loop, goal) == [gen EXCEPT !.exits = @ \cup {Exit(at, loop, goal)}]
Landed(gen, loop) ==
    [gen EXCEPT !.exits = {IF e.loop = loop /\ e.goal = Unknown
                           THEN [e EXCEPT !.goal = Here(gen)] ELSE e : e \in @}]
==============================================================================
