---------------------------- MODULE CompilerProofs ----------------------------
(***************************************************************************)
(* The analysis and the generator agree, for every program: on the types   *)
(* of what they keep, on the loops that are open, and on the slot of every *)
(* variable.  The first parts say what each of the two passes does to one  *)
(* function under compilation, the next ones put the statements together   *)
(* and follow the jumps.  The last ones begin what TypingProofs goes on    *)
(* with: which types each piece of code finds on a frame and leaves there. *)
(***************************************************************************)
EXTENDS CompileAndRun, MachineProofs, FiniteSetTheorems

(***************************************************************************)
(* What the helpers of Emit keep and change, for every generator context:  *)
(* whatever is written, the code stays a sequence of bytes, and only the   *)
(* helpers meant to do so touch the count of variables, the stack of loops *)
(* and the breaks that wait.                                               *)
(***************************************************************************)
GenFields == {"code", "constants", "stack_size", "loop_starts", "break_backlog",
              "params", "ret_type", "panicked", "heights", "reads", "exits", "leaky",
              "sealed", "untyped", "misplaced"}

\* A constant of a program that has n functions so far.
Constant(n) ==
    {x \in Value : x.t \in {"Function", "NativeFunc", "Object"} => x.t = "Function" /\ x.v \in 1..n}

IsGen(n, gen) ==
    /\ DOMAIN gen = GenFields
    /\ gen.code \in Seq(Byte)
    /\ gen.constants \in Seq(Constant(n))
    /\ gen.stack_size \in Nat
    /\ gen.loop_starts \in Seq(Nat)

\* Only the code, the constants and the record of what happened differ.
SameBooks(old, new) ==
    /\ new.stack_size = old.stack_size
    /\ new.loop_starts = old.loop_starts
    /\ new.break_backlog = old.break_backlog
    /\ new.params = old.params
    /\ new.ret_type = old.ret_type

\* A helper that only writes.
Writes(n, old, new) == IsGen(n, new) /\ SameBooks(old, new)

(***************************************************************************)
(* Bytes.                                                                  *)
(***************************************************************************)
\* Every instruction's number fits a byte.
LEMMA OpByteIsByte == \A op \in Range(OpNames) : OpByte[op] \in Byte
<1> SUFFICES ASSUME NEW op \in Range(OpNames) PROVE OpByte[op] \in Byte
  OBVIOUS
<1> DEFINE place == CHOOSE i \in DOMAIN OpNames : OpNames[i] = op
<1>1. DOMAIN OpNames = 1..56
  BY DEF OpNames
<1>2. \E k \in DOMAIN OpNames : OpNames[k] = op
  BY DEF Range
<1>3. place \in 1..56
  BY <1>1, <1>2
<1>4. OpByte[op] = FirstOp - 1 + place
  BY DEF OpByte
<1> HIDE DEF place
<1> QED
  BY <1>3, <1>4 DEF Byte, FirstOp

\* The instructions that the modelled part of the generator writes.
LEMMA Written == {"None", "True", "False", "Pop", "Return", "Constant", "LoadByte",
    "GetLocal", "SetLocal", "GetGlobal", "SetGlobal", "Jump", "JumpIfNot", "CallUser",
    "CallNative", "IntToFloat", "IntToBool", "CharToInt", "BoolToInt", "BoolToFloat",
    "AnyToInt", "AnyToFloat", "AnyToBool", "AnyToChar", "AnyToString",
    "WrapAny", "TESTTakeInput", "TESTYield"} \subseteq Range(OpNames)
BY DEF OpNames, Range

\* An offset is written as two bytes.
LEMMA ShortIsBytes ==
  ASSUME NEW k \in Int
  PROVE  /\ Short(k) \in Seq(Byte) /\ Len(Short(k)) = 2
         /\ Short(k)[1] \in Byte /\ Short(k)[2] \in Byte
BY DEF Short, Byte

\* A place in the pool of constants fits a byte.
LEMMA SmallIsByte ==
  ASSUME NEW k \in Nat, ~(k > MaxConstant)
  PROVE  k \in Byte
BY EmitAssumption DEF Byte

\* Code appended to code is code.
LEMMA JoinedBytes ==
  ASSUME NEW s \in Seq(Byte), NEW t \in Seq(Byte)
  PROVE  s \o t \in Seq(Byte) /\ Len(s \o t) = Len(s) + Len(t)
BY ConcatProperties

\* A row of Pop instructions is code.
LEMMA PopsAreCode ==
  ASSUME NEW k \in Int, NEW byte \in Byte
  PROVE  [i \in 1..k |-> byte] \in Seq(Byte)
<1>1. CASE k \in Nat
  BY <1>1
<1>2. CASE k \notin Nat
  <2>1. 1..k = 1..0
    BY <1>2
  <2>2. [i \in 1..k |-> byte] \in [1..0 -> Byte]
    BY <2>1
  <2> QED
    BY <2>2
<1> QED
  BY <1>1, <1>2

\* A conversion is one of the instructions.
LEMMA CastIsInstr ==
  ASSUME NEW old, NEW new, CastInstr(old, new) # ""
  PROVE  CastInstr(old, new) \in Range(OpNames)
<1>1. CASE old = "Any" /\ new \in {"Int", "Float", "Bool", "Char", "String"}
  <2>1. /\ DOMAIN Unwraps \subseteq Range(OpNames)
        /\ \E op \in DOMAIN Unwraps : Unwraps[op] = new
    BY <1>1, Written DEF Unwraps
  <2>2. CastInstr(old, new) \in DOMAIN Unwraps
    BY <1>1, <2>1 DEF CastInstr
  <2> QED
    BY <2>1, <2>2
<1>2. CASE old = "Any" /\ new \notin {"Int", "Float", "Bool", "Char", "String"}
  BY <1>2 DEF CastInstr
<1>3. CASE old # "Any"
  BY <1>3, Written DEF CastInstr
<1> QED
  BY <1>1, <1>2, <1>3

\* A program with more functions has more constants.
LEMMA MoreFunctions ==
  ASSUME NEW n \in Nat, NEW m \in Nat, n <= m, NEW gen, IsGen(n, gen)
  PROVE  IsGen(m, gen)
<1>1. Constant(n) \subseteq Constant(m)
  BY DEF Constant
<1> QED
  BY <1>1, SeqMonotonic DEF IsGen

(***************************************************************************)
(* Writing.                                                                *)
(***************************************************************************)
\* Writing and then writing again is writing.
LEMMA WritesTransitive ==
  ASSUME NEW n, NEW a, NEW b, NEW c, Writes(n, a, b), Writes(n, b, c)
  PROVE  Writes(n, a, c)
BY DEF Writes, SameBooks

\* One byte is appended.
LEMMA WriteByteWrites ==
  ASSUME NEW n, NEW gen, IsGen(n, gen), NEW byte \in Byte
  PROVE  Writes(n, gen, WriteByte(gen, byte))
BY DEF IsGen, Writes, SameBooks, WriteByte, GenFields

\* An instruction is one byte.
LEMMA WriteInstrWrites ==
  ASSUME NEW n, NEW gen, IsGen(n, gen), NEW op \in Range(OpNames)
  PROVE  Writes(n, gen, WriteInstr(gen, op))
BY OpByteIsByte, WriteByteWrites DEF WriteInstr

\* An offset, in range or not, adds two bytes.
LEMMA WriteShortWrites ==
  ASSUME NEW n, NEW gen, IsGen(n, gen), NEW k \in Int
  PROVE  /\ Writes(n, gen, WriteShort(gen, k))
         /\ Len(WriteShort(gen, k).code) = Len(gen.code) + 2
<1>1. gen.code \in Seq(Byte) /\ Short(k) \in Seq(Byte) /\ Len(Short(k)) = 2
  BY ShortIsBytes DEF IsGen
<1>2. /\ gen.code \o Short(k) \in Seq(Byte)
      /\ Len(gen.code \o Short(k)) = Len(gen.code) + 2
  BY <1>1, JoinedBytes
<1> QED
  BY <1>2 DEF IsGen, Writes, SameBooks, WriteShort, GenFields

\* Whatever the index, the cut to a byte leaves one.
LEMMA WriteIndexedWrites ==
  ASSUME NEW n, NEW gen, IsGen(n, gen), NEW op \in Range(OpNames), NEW index \in Int
  PROVE  Writes(n, gen, WriteIndexed(gen, op, index))
<1>1. index % IndexWidth \in Byte
  BY EmitAssumption DEF Byte
<1> QED
  BY <1>1, WriteInstrWrites, WriteByteWrites, WritesTransitive DEF WriteIndexed, Writes

\* A literal is written into the code or goes to the pool.
LEMMA NewConstantWrites ==
  ASSUME NEW n, NEW gen, IsGen(n, gen), NEW value \in Constant(n)
  PROVE  Writes(n, gen, NewConstant(gen, value))
<1>1. CASE value.t = "Bool"
  BY <1>1, WriteInstrWrites, Written DEF NewConstant
<1>2. CASE value.t = "None"
  BY <1>2, WriteInstrWrites, Written DEF NewConstant
<1>3. CASE value.t = "Int" /\ value.v \in -128..127
  <2>1. value.v % 256 \in Byte
    BY <1>3 DEF Byte
  <2>2. NewConstant(gen, value) = WriteByte(WriteInstr(gen, "LoadByte"), value.v % 256)
    BY <1>3 DEF NewConstant
  <2> QED
    BY <2>1, <2>2, WriteInstrWrites, WriteByteWrites, WritesTransitive, Written DEF Writes
<1>4. CASE /\ value.t \notin {"Bool", "None"}
           /\ ~(value.t = "Int" /\ value.v \in -128..127)
  <2>1. CASE Len(gen.constants) > MaxConstant
    <3>1. NewConstant(gen, value) = [gen EXCEPT !.panicked = TRUE]
      BY <1>4, <2>1 DEF NewConstant
    <3> QED
      BY <3>1 DEF IsGen, Writes, SameBooks, GenFields
  <2>2. CASE ~(Len(gen.constants) > MaxConstant)
    <3> DEFINE written == WriteByte(WriteInstr(gen, "Constant"), Len(gen.constants))
    <3>1. Len(gen.constants) \in Nat
      BY LenProperties DEF IsGen
    <3>2. Len(gen.constants) \in Byte
      BY <3>1, <2>2, SmallIsByte
    <3>a. Writes(n, gen, WriteInstr(gen, "Constant"))
      BY WriteInstrWrites, Written
    <3>3. Writes(n, gen, written)
      BY <3>2, <3>a, WriteByteWrites, WritesTransitive DEF Writes
    <3>4. NewConstant(gen, value) = [written EXCEPT !.constants = Append(@, value)]
      BY <1>4, <2>2 DEF NewConstant
    <3> HIDE DEF written
    <3> QED
      BY <3>3, <3>4 DEF IsGen, Writes, SameBooks, GenFields
  <2> QED
    BY <2>1, <2>2
<1> QED
  BY <1>1, <1>2, <1>3, <1>4

\* A forward jump is written before its offset is known.
LEMMA WriteJumpWrites ==
  ASSUME NEW n, NEW gen, IsGen(n, gen), NEW op \in {"Jump", "JumpIfNot"}
  PROVE  Writes(n, gen, WriteJump(gen, op))
<1>1. Writes(n, gen, WriteInstr(gen, op))
  BY WriteInstrWrites, Written
<1>2. 0 \in Int
  OBVIOUS
<1> QED
  BY <1>1, <1>2, WriteShortWrites, WritesTransitive DEF WriteJump, Writes

\* A jump back is written, or the generator gives up.
LEMMA WriteJumpBackWrites ==
  ASSUME NEW n, NEW gen, IsGen(n, gen), NEW target \in Int
  PROVE  Writes(n, gen, WriteJumpBack(gen, target))
<1> DEFINE offset == target - (Here(gen) + 3)
<1>1. offset \in Int
  BY LenProperties DEF IsGen, Here
<1>2. CASE FitsJump(offset)
  <2>1. Writes(n, gen, WriteInstr(gen, "Jump"))
    BY WriteInstrWrites, Written
  <2>2. WriteJumpBack(gen, target) = WriteShort(WriteInstr(gen, "Jump"), offset)
    BY <1>2 DEF WriteJumpBack
  <2> HIDE DEF offset
  <2> QED
    BY <1>1, <2>1, <2>2, WriteShortWrites, WritesTransitive DEF Writes
<1>3. CASE ~FitsJump(offset)
  <2>1. WriteJumpBack(gen, target) = [gen EXCEPT !.panicked = TRUE]
    BY <1>3 DEF WriteJumpBack
  <2> QED
    BY <2>1 DEF IsGen, Writes, SameBooks, GenFields
<1> QED
  BY <1>2, <1>3

\* A function on the places of a code, with bytes for values, is a code.
LEMMA BytesAreCode ==
  ASSUME NEW s \in Seq(Byte), NEW f \in [DOMAIN s -> Byte]
  PROVE  f \in Seq(Byte)
BY LenProperties

\* Patching overwrites bytes with bytes, at whatever places it is asked to.
LEMMA PatchWrites ==
  ASSUME NEW n, NEW gen, IsGen(n, gen), NEW jumpArgs
  PROVE  Writes(n, gen, PatchToNext(gen, jumpArgs))
<1> DEFINE bytes(jumpArg) == Short(OffsetToNext(gen, jumpArg))
           code == [i \in DOMAIN gen.code |->
                      IF i - 1 \in jumpArgs THEN bytes(i - 1)[1]
                      ELSE IF i - 2 \in jumpArgs THEN bytes(i - 2)[2]
                      ELSE gen.code[i]]
<1>1. Here(gen) \in Nat /\ DOMAIN gen.code = 1..Here(gen) /\ gen.code \in Seq(Byte)
  BY LenProperties DEF IsGen, Here
<1>2. \A k \in Int : bytes(k)[1] \in Byte /\ bytes(k)[2] \in Byte
  BY <1>1, ShortIsBytes DEF OffsetToNext
<1>3. \A i \in DOMAIN gen.code : gen.code[i] \in Byte /\ i - 1 \in Int /\ i - 2 \in Int
  BY <1>1, ElementOfSeq DEF Here
<1>4. code \in [DOMAIN gen.code -> Byte]
  <2> HIDE DEF bytes
  <2> QED
    BY <1>2, <1>3
<1>5. code \in Seq(Byte)
  BY <1>1, <1>4, BytesAreCode
<1>6. PatchToNext(gen, jumpArgs) =
        [gen EXCEPT !.code = code,
                    !.panicked = @ \/ \E jumpArg \in jumpArgs :
                                         ~FitsJump(OffsetToNext(gen, jumpArg))]
  BY DEF PatchToNext
<1> HIDE DEF code
<1> QED
  BY <1>5, <1>6 DEF IsGen, Writes, SameBooks, GenFields

(***************************************************************************)
(* Loops and locals.                                                       *)
(***************************************************************************)
\* The place of the loop is pushed, and that is all.
LEMMA BeginLoopEffect ==
  ASSUME NEW n, NEW gen, IsGen(n, gen)
  PROVE  LET begun == BeginLoop(gen)
         IN /\ IsGen(n, begun)
            /\ begun.stack_size = gen.stack_size
            /\ begun.params = gen.params /\ begun.ret_type = gen.ret_type
            /\ begun.break_backlog = gen.break_backlog
            /\ Len(begun.loop_starts) = Len(gen.loop_starts) + 1
<1>1. Here(gen) \in Nat
  BY LenProperties DEF IsGen, Here
<1> QED
  BY <1>1 DEF IsGen, BeginLoop, GenFields

\* The innermost loop is closed, and with it the breaks that name it.
LEMMA EndLoopEffect ==
  ASSUME NEW n, NEW gen, IsGen(n, gen), gen.loop_starts # <<>>
  PROVE  LET ended == EndLoop(gen)
         IN /\ IsGen(n, ended)
            /\ ended.stack_size = gen.stack_size
            /\ ended.params = gen.params /\ ended.ret_type = gen.ret_type
            /\ Len(ended.loop_starts) = Len(gen.loop_starts) - 1
            /\ ended.break_backlog = {b \in gen.break_backlog : b.loop # Len(gen.loop_starts) - 1}
<1> DEFINE last == Len(gen.loop_starts) - 1
           landing == {b.jump : b \in {c \in gen.break_backlog : c.loop = last}}
           patched == PatchToNext(gen, landing)
<1>1. Writes(n, gen, patched)
  BY PatchWrites
<1>2. EndLoop(gen) = [patched EXCEPT !.loop_starts = SubSeq(@, 1, last),
                                     !.break_backlog = {b \in @ : b.loop # last}]
  BY DEF EndLoop
<1>3. /\ last \in Nat
      /\ SubSeq(gen.loop_starts, 1, last) \in Seq(Nat)
      /\ Len(SubSeq(gen.loop_starts, 1, last)) = last
  BY LenProperties, EmptySeq DEF IsGen
<1> HIDE DEF patched, last
<1>4. /\ IsGen(n, EndLoop(gen))
      /\ EndLoop(gen).stack_size = gen.stack_size
      /\ EndLoop(gen).params = gen.params /\ EndLoop(gen).ret_type = gen.ret_type
      /\ EndLoop(gen).loop_starts = SubSeq(gen.loop_starts, 1, last)
      /\ EndLoop(gen).break_backlog = {b \in gen.break_backlog : b.loop # last}
  BY <1>1, <1>2, <1>3 DEF IsGen, Writes, SameBooks, GenFields
<1> QED
  BY <1>3, <1>4 DEF last

\* The variables above the old count are popped and no longer counted.
LEMMA PopLocalsEffect ==
  ASSUME NEW n, NEW gen, IsGen(n, gen), NEW old_count \in Nat
  PROVE  LET popped == PopLocals(gen, old_count)
         IN /\ IsGen(n, popped)
            /\ popped.stack_size = old_count
            /\ popped.params = gen.params /\ popped.ret_type = gen.ret_type
            /\ popped.break_backlog = gen.break_backlog
            /\ popped.loop_starts = gen.loop_starts
<1> DEFINE pops == [i \in 1..(gen.stack_size - old_count) |-> OpByte["Pop"]]
<1>1. OpByte["Pop"] \in Byte
  BY OpByteIsByte, Written
<1>2. gen.stack_size - old_count \in Int
  BY DEF IsGen
<1>3. pops \in Seq(Byte)
  BY <1>1, <1>2, PopsAreCode
<1>4. gen.code \o pops \in Seq(Byte)
  BY <1>3, JoinedBytes DEF IsGen
<1>5. PopLocals(gen, old_count) = [gen EXCEPT !.code = @ \o pops, !.stack_size = old_count]
  BY DEF PopLocals
<1> HIDE DEF pops
<1> QED
  BY <1>4, <1>5 DEF IsGen, GenFields

(***************************************************************************)
(* Conversions and records.                                                *)
(***************************************************************************)
\* A conversion writes one instruction or none, or the generator gives up.
LEMMA CoerceWrites ==
  ASSUME NEW n, NEW gen, IsGen(n, gen), NEW old, NEW expected
  PROVE  Writes(n, gen, Coerce(gen, old, expected))
<1>1. CASE old = expected
  BY <1>1 DEF Coerce, Writes, SameBooks
<1>2. CASE old # expected /\ CastInstr(old, expected) = ""
  <2>1. Coerce(gen, old, expected) = [gen EXCEPT !.panicked = TRUE]
    BY <1>2 DEF Coerce
  <2> QED
    BY <2>1 DEF IsGen, Writes, SameBooks, GenFields
<1>3. CASE old # expected /\ CastInstr(old, expected) # ""
  <2>1. CastInstr(old, expected) \in Range(OpNames)
    BY <1>3, CastIsInstr
  <2> QED
    BY <1>3, <2>1, WriteInstrWrites DEF Coerce
<1> QED
  BY <1>1, <1>2, <1>3

\* What is recorded for the properties leaves the rest alone.
LEMMA RecordsWrite ==
  ASSUME NEW n, NEW gen, IsGen(n, gen), NEW a, NEW b, NEW c
  PROVE  /\ Writes(n, gen, Boundary(gen))
         /\ Writes(n, gen, Seal(gen, a))
         /\ Writes(n, gen, Reads(gen, a))
         /\ Writes(n, gen, Exits(gen, a, b, c))
         /\ Writes(n, gen, Landed(gen, a))
         /\ Writes(n, gen, [gen EXCEPT !.leaky = a])
         /\ Writes(n, gen, [gen EXCEPT !.untyped = a])
         /\ Writes(n, gen, [gen EXCEPT !.misplaced = a])
         /\ Writes(n, gen, [gen EXCEPT !.panicked = a])
BY DEF IsGen, Writes, SameBooks, GenFields, Boundary, Seal, Reads, Exits, Landed

\* A new variable is counted.
LEMMA NewVarEffect ==
  ASSUME NEW n, NEW gen, IsGen(n, gen)
  PROVE  /\ IsGen(n, NewVar(gen))
         /\ NewVar(gen).stack_size = gen.stack_size + 1
         /\ NewVar(gen).params = gen.params
         /\ NewVar(gen).ret_type = gen.ret_type
         /\ NewVar(gen).loop_starts = gen.loop_starts
         /\ NewVar(gen).break_backlog = gen.break_backlog
BY DEF IsGen, NewVar, GenFields

(***************************************************************************)
(* The statements that are open.                                           *)
(***************************************************************************)
OpenVisits == [kind : {"block", "while", "then", "else"},
               old_count : Nat, jump : Int, start : Nat]

Whiles(visits) == {j \in DOMAIN visits : visits[j].kind = "while"}

\* One more statement is open.
LEMMA VisitOpened ==
  ASSUME NEW visits \in Seq(OpenVisits), NEW v \in OpenVisits
  PROVE  /\ Append(visits, v) \in Seq(OpenVisits)
         /\ Len(visits) \in Nat
         /\ Len(Append(visits, v)) = Len(visits) + 1
         /\ DOMAIN visits = 1..Len(visits)
         /\ DOMAIN Append(visits, v) = 1..(Len(visits) + 1)
         /\ \A j \in 1..Len(visits) : Append(visits, v)[j] = visits[j]
         /\ Append(visits, v)[Len(visits) + 1] = v
<1>1. /\ Append(visits, v) \in Seq(OpenVisits)
      /\ Len(Append(visits, v)) = Len(visits) + 1
      /\ \A j \in 1..Len(visits) : Append(visits, v)[j] = visits[j]
      /\ Append(visits, v)[Len(visits) + 1] = v
  BY AppendProperties
<1>2. Len(visits) \in Nat /\ DOMAIN visits = 1..Len(visits)
  BY LenProperties
<1>3. DOMAIN Append(visits, v) = 1..Len(Append(visits, v))
  BY <1>1, LenProperties
<1> QED
  BY <1>1, <1>2, <1>3

\* The last one is closed.
LEMMA VisitClosed ==
  ASSUME NEW visits \in Seq(OpenVisits), visits # <<>>
  PROVE  /\ Front(visits) \in Seq(OpenVisits)
         /\ Len(visits) \in Nat \ {0}
         /\ Len(Front(visits)) = Len(visits) - 1
         /\ DOMAIN visits = 1..Len(visits)
         /\ DOMAIN Front(visits) = 1..(Len(visits) - 1)
         /\ \A j \in 1..(Len(visits) - 1) : Front(visits)[j] = visits[j]
         /\ Last(visits) = visits[Len(visits)]
         /\ Last(visits) \in OpenVisits
<1>1. Len(visits) \in Nat \ {0} /\ DOMAIN visits = 1..Len(visits)
  BY LenProperties, EmptySeq
<1>2. \A j \in 1..Len(visits) : visits[j] \in OpenVisits
  BY ElementOfSeq
<1>3. \A j \in 1..(Len(visits) - 1) : visits[j] \in OpenVisits
  BY <1>1, <1>2
<1>4. Front(visits) \in Seq(OpenVisits)
  BY <1>1, <1>3, SubSeqProperties DEF Front
<1>5. Len(visits) - 1 \in 0..Len(visits) /\ IsSequence(visits)
  BY <1>1, SeqIsSequence
<1>6. /\ Len(Front(visits)) = Len(visits) - 1
      /\ DOMAIN Front(visits) = 1..(Len(visits) - 1)
      /\ \A j \in 1..(Len(visits) - 1) : Front(visits)[j] = visits[j]
  BY <1>5, FirstPart DEF Front
<1>7. Last(visits) = visits[Len(visits)] /\ Last(visits) \in OpenVisits
  BY <1>1, <1>2 DEF Last
<1> QED
  BY <1>1, <1>4, <1>6, <1>7

\* There are finitely many open loops.
LEMMA WhilesFinite ==
  ASSUME NEW visits \in Seq(OpenVisits)
  PROVE  IsFiniteSet(Whiles(visits)) /\ Cardinality(Whiles(visits)) \in Nat
<1>1. Len(visits) \in Nat /\ Whiles(visits) \in SUBSET (1..Len(visits))
  BY LenProperties DEF Whiles
<1>2. IsFiniteSet(1..Len(visits))
  BY <1>1, FS_Interval
<1>3. IsFiniteSet(Whiles(visits))
  BY <1>1, <1>2, FS_Subset
<1> QED
  BY <1>3, FS_CardinalityType

\* Opening a while opens one loop, opening another statement none.
LEMMA WhilesOpened ==
  ASSUME NEW visits \in Seq(OpenVisits), NEW v \in OpenVisits
  PROVE  Cardinality(Whiles(Append(visits, v)))
           = IF v.kind = "while" THEN Cardinality(Whiles(visits)) + 1
                                 ELSE Cardinality(Whiles(visits))
<1> DEFINE new == Len(visits) + 1
<1>1. CASE v.kind = "while"
  <2>1. Whiles(Append(visits, v)) = Whiles(visits) \cup {new}
    BY <1>1, VisitOpened DEF Whiles
  <2>2. new \notin Whiles(visits)
    BY VisitOpened DEF Whiles
  <2> HIDE DEF new
  <2>3. IsFiniteSet(Whiles(visits))
    BY WhilesFinite
  <2>4. Cardinality(Whiles(visits) \cup {new}) = Cardinality(Whiles(visits)) + 1
    BY <2>2, <2>3, FS_AddElement
  <2> QED
    BY <1>1, <2>1, <2>4
<1>2. CASE v.kind # "while"
  <2>1. Whiles(Append(visits, v)) = Whiles(visits)
    BY <1>2, VisitOpened DEF Whiles
  <2> QED
    BY <1>2, <2>1
<1> QED
  BY <1>1, <1>2

\* And so does closing.
LEMMA WhilesClosed ==
  ASSUME NEW visits \in Seq(OpenVisits), visits # <<>>
  PROVE  Cardinality(Whiles(visits))
           = IF Last(visits).kind = "while" THEN Cardinality(Whiles(Front(visits))) + 1
                                            ELSE Cardinality(Whiles(Front(visits)))
<1> DEFINE last == Len(visits)
<1>1. Front(visits) \in Seq(OpenVisits) /\ IsFiniteSet(Whiles(Front(visits)))
  BY VisitClosed, WhilesFinite
<1>2. CASE Last(visits).kind = "while"
  <2>1. Whiles(visits) = Whiles(Front(visits)) \cup {last}
    BY <1>2, VisitClosed DEF Whiles
  <2>2. last \notin Whiles(Front(visits))
    BY VisitClosed DEF Whiles
  <2> HIDE DEF last
  <2>3. Cardinality(Whiles(Front(visits)) \cup {last}) = Cardinality(Whiles(Front(visits))) + 1
    BY <1>1, <2>2, FS_AddElement
  <2> QED
    BY <1>2, <2>1, <2>3
<1>3. CASE Last(visits).kind # "while"
  <2>1. /\ last \in Nat \ {0}
        /\ DOMAIN visits = 1..last /\ DOMAIN Front(visits) = 1..(last - 1)
        /\ \A j \in 1..(last - 1) : Front(visits)[j] = visits[j]
        /\ visits[last].kind # "while"
    BY <1>3, VisitClosed
  <2> HIDE DEF last
  <2>2. \A j \in 1..last : j \in 1..(last - 1) \/ j = last
    BY <2>1
  <2>3. Whiles(visits) \subseteq Whiles(Front(visits))
    BY <2>1, <2>2 DEF Whiles
  <2>4. Whiles(Front(visits)) \subseteq Whiles(visits)
    BY <2>1 DEF Whiles
  <2>5. Whiles(visits) = Whiles(Front(visits))
    BY <2>3, <2>4
  <2> QED
    BY <1>3, <2>5
<1> QED
  BY <1>2, <1>3

(***************************************************************************)
(* The locals, in the order of their scopes.                               *)
(*                                                                         *)
(* below is the number of values under the first local that is not counted *)
(* by stack_size, less the globals: what a count of the generator's has to *)
(* be raised by to become a number of locals of the analysis.              *)
(***************************************************************************)
Layout(below, locals, visits) ==
    /\ \A q \in DOMAIN locals : locals[q].depth <= Len(visits)
    /\ \A j \in DOMAIN visits :
          /\ below + visits[j].old_count \in 0..Len(locals)
          /\ \A q \in DOMAIN locals :
                q <= below + visits[j].old_count <=> locals[q].depth < j

\* A local of the innermost scope keeps the order.
LEMMA LayoutDeclared ==
  ASSUME NEW below \in Int, NEW visits \in Seq(OpenVisits),
         NEW locals, IsTable(locals), Layout(below, locals, visits),
         NEW d, IsDeclaration(d), d.depth = Len(visits)
  PROVE  Layout(below, Append(locals, d), visits)
<1> DEFINE more == Append(locals, d)
<1>1. /\ IsSequence(locals) /\ Len(locals) \in Nat /\ DOMAIN locals = 1..Len(locals)
      /\ \A q \in DOMAIN locals : locals[q].depth \in Nat
  BY Places DEF IsTable, IsDeclaration
<1>2. /\ Len(more) = Len(locals) + 1
      /\ DOMAIN more = 1..(Len(locals) + 1)
      /\ \A q \in 1..Len(locals) : more[q] = locals[q]
      /\ more[Len(locals) + 1] = d
  BY <1>1, Appended
<1>3. Len(visits) \in Nat /\ DOMAIN visits = 1..Len(visits)
  BY LenProperties
<1> HIDE DEF more
<1>4. ASSUME NEW q \in DOMAIN more PROVE more[q].depth <= Len(visits)
  <2>1. CASE q \in 1..Len(locals)
    BY <1>1, <1>2, <2>1 DEF Layout
  <2>2. CASE q = Len(locals) + 1
    BY <1>2, <1>3, <2>2
  <2> QED
    BY <1>1, <1>2, <2>1, <2>2
<1>5. ASSUME NEW j \in DOMAIN visits PROVE below + visits[j].old_count \in 0..Len(more)
  <2>1. below + visits[j].old_count \in 0..Len(locals)
    BY DEF Layout
  <2> QED
    BY <1>1, <1>2, <2>1
<1>6. ASSUME NEW j \in DOMAIN visits, NEW q \in DOMAIN more
      PROVE  q <= below + visits[j].old_count <=> more[q].depth < j
  <2>1. CASE q \in 1..Len(locals)
    BY <1>1, <1>2, <2>1 DEF Layout
  <2>2. CASE q = Len(locals) + 1
    <3>1. below + visits[j].old_count \in 0..Len(locals)
      BY DEF Layout
    <3>2. ~(q <= below + visits[j].old_count)
      BY <1>1, <2>2, <3>1
    <3>3. more[q].depth = Len(visits)
      BY <1>2, <2>2
    <3> QED
      BY <1>3, <3>2, <3>3
  <2> QED
    BY <1>1, <1>2, <2>1, <2>2
<1> QED
  BY <1>4, <1>5, <1>6 DEF Layout, more

\* A scope is entered above all the locals there are.
LEMMA LayoutOpened ==
  ASSUME NEW below \in Int, NEW visits \in Seq(OpenVisits),
         NEW locals, IsTable(locals), Layout(below, locals, visits),
         NEW v \in OpenVisits, below + v.old_count = Len(locals)
  PROVE  Layout(below, locals, Append(visits, v))
<1> DEFINE more == Append(visits, v)
           m == Len(visits)
<1>1. /\ Len(locals) \in Nat /\ DOMAIN locals = 1..Len(locals)
      /\ \A q \in DOMAIN locals : locals[q].depth \in Nat
  BY Places DEF IsTable, IsDeclaration
<1>2. /\ Len(visits) \in Nat /\ DOMAIN visits = 1..m
      /\ Len(more) = m + 1 /\ DOMAIN more = 1..(m + 1)
      /\ \A j \in 1..m : more[j] = visits[j]
      /\ more[m + 1] = v
  BY VisitOpened
<1> HIDE DEF more
<1>3. ASSUME NEW q \in DOMAIN locals PROVE locals[q].depth <= Len(more)
  BY <1>1, <1>2 DEF Layout
<1>4. ASSUME NEW j \in DOMAIN more
      PROVE  /\ below + more[j].old_count \in 0..Len(locals)
             /\ \A q \in DOMAIN locals :
                   q <= below + more[j].old_count <=> locals[q].depth < j
  <2>1. CASE j \in 1..m
    BY <1>2, <2>1 DEF Layout
  <2>2. CASE j = m + 1
    <3>1. below + more[j].old_count = Len(locals)
      BY <1>2, <2>2
    <3>2. ASSUME NEW q \in DOMAIN locals
          PROVE  q <= Len(locals) /\ locals[q].depth < j
      BY <1>1, <1>2, <2>2 DEF Layout
    <3> QED
      BY <1>1, <3>1, <3>2
  <2> QED
    BY <1>2, <2>1, <2>2
<1> QED
  BY <1>3, <1>4 DEF Layout, more

\* Leaving the innermost scope keeps the locals of the outer ones, and these
\* are as many as there were when it was entered.
LEMMA LayoutClosed ==
  ASSUME NEW below \in Int, NEW visits \in Seq(OpenVisits), visits # <<>>,
         NEW locals, IsTable(locals), Layout(below, locals, visits)
  PROVE  LET k == below + Last(visits).old_count
         IN /\ k \in 0..Len(locals)
            /\ \A q \in DOMAIN locals : q <= k <=> locals[q].depth < Len(visits)
            /\ Layout(below, SubSeq(locals, 1, k), Front(visits))
<1> DEFINE m == Len(visits)
           k == below + Last(visits).old_count
           fewer == SubSeq(locals, 1, k)
           front == Front(visits)
<1>1. /\ IsSequence(locals) /\ Len(locals) \in Nat /\ DOMAIN locals = 1..Len(locals)
      /\ \A q \in DOMAIN locals : locals[q].depth \in Nat
  BY Places DEF IsTable, IsDeclaration
<1>2. /\ m \in Nat \ {0} /\ DOMAIN visits = 1..m
      /\ Len(front) = m - 1 /\ DOMAIN front = 1..(m - 1)
      /\ \A j \in 1..(m - 1) : front[j] = visits[j]
      /\ Last(visits) = visits[m]
  BY VisitClosed
<1>3. /\ m \in DOMAIN visits
      /\ k \in 0..Len(locals)
      /\ \A q \in DOMAIN locals : q <= k <=> locals[q].depth < m
  BY <1>2 DEF Layout
<1> HIDE DEF k, m, front
<1>4. /\ Len(fewer) = k /\ DOMAIN fewer = 1..k
      /\ \A q \in 1..k : fewer[q] = locals[q]
  BY <1>1, <1>3, FirstPart
<1> HIDE DEF fewer
<1>5. ASSUME NEW q \in DOMAIN fewer PROVE fewer[q].depth <= Len(front)
  <2>1. q \in DOMAIN locals /\ q <= k
    BY <1>1, <1>3, <1>4
  <2>2. locals[q].depth < m /\ locals[q].depth \in Nat
    BY <1>1, <1>3, <2>1
  <2> QED
    BY <1>2, <1>4, <2>2
<1>6. ASSUME NEW j \in DOMAIN front
      PROVE  /\ below + front[j].old_count \in 0..Len(fewer)
             /\ \A q \in DOMAIN fewer :
                   q <= below + front[j].old_count <=> fewer[q].depth < j
  <2> DEFINE l == below + visits[j].old_count
  <2>1. /\ j \in DOMAIN visits /\ j < m /\ front[j] = visits[j] /\ j \in Nat
    BY <1>2
  <2>2. /\ l \in 0..Len(locals)
        /\ \A q \in DOMAIN locals : q <= l <=> locals[q].depth < j
    BY <2>1 DEF Layout
  <2> HIDE DEF l
  <2>3. l <= k
    <3> SUFFICES ASSUME l > k PROVE FALSE
      BY <1>1, <1>3, <2>2
    <3>1. l \in DOMAIN locals /\ l <= l /\ ~(l <= k)
      BY <1>1, <1>3, <2>2
    <3>2. locals[l].depth < j /\ ~(locals[l].depth < m) /\ locals[l].depth \in Nat
      BY <1>1, <1>3, <2>2, <3>1
    <3> QED
      BY <1>2, <2>1, <3>2
  <2>4. \A q \in DOMAIN fewer : q \in DOMAIN locals /\ fewer[q] = locals[q]
    BY <1>1, <1>3, <1>4
  <2>5. l \in 0..Len(fewer)
    BY <1>1, <1>3, <1>4, <2>2, <2>3
  <2>6. \A q \in DOMAIN fewer : q <= l <=> fewer[q].depth < j
    BY <2>2, <2>4
  <2> QED
    BY <2>1, <2>5, <2>6 DEF l
<1>7. Layout(below, fewer, front)
  BY <1>5, <1>6 DEF Layout
<1> QED
  BY <1>3, <1>7 DEF k, m, fewer, front

(***************************************************************************)
(* One function under compilation.  n is the number of finished functions, *)
(* i its level, pending 1 while the main script waits for a function that  *)
(* is already declared, and globals the number of globals.                 *)
(***************************************************************************)
Below(i, gen, globals) == Base(i = 1, gen.params) - (IF i = 1 THEN globals ELSE 0)

IsContext(n, i, gen, res, visits) ==
    /\ IsGen(n, gen)
    /\ gen.params \in Seq(Types)
    /\ gen.ret_type \in {"None", "Int", "Any"}
    /\ IsResolver(res)
    /\ res.is_global <=> i = 1
    /\ visits \in Seq(OpenVisits)

LoopsMatch(gen, res, visits) ==
    /\ res.loop_depth = Len(gen.loop_starts)
    /\ Cardinality(Whiles(visits)) = Len(gen.loop_starts)
    /\ \A b \in gen.break_backlog : b.loop \in 0..(Len(gen.loop_starts) - 1)

SlotsMatch(i, pending, globals, gen, res, visits) ==
    /\ Len(res.local_bindings) = Below(i, gen, globals) + pending + gen.stack_size
    /\ res.depth = Len(visits)
    /\ Layout(Below(i, gen, globals), res.local_bindings, visits)

Coherent(n, i, pending, globals, gen, res, visits) ==
    /\ IsContext(n, i, gen, res, visits)
    /\ LoopsMatch(gen, res, visits)
    /\ SlotsMatch(i, pending, globals, gen, res, visits)

\* The number of natives, and with it Below, is an integer.
LEMMA BelowIsInt ==
  ASSUME NEW i, NEW gen, Len(gen.params) \in Nat, NEW globals \in Nat
  PROVE  Below(i, gen, globals) \in Int
<1>1. Len(Natives) \in Nat
  BY RegistryAssumption, LenProperties
<1> QED
  BY <1>1 DEF Below, Base

\* A statement that only writes code keeps a function coherent.
LEMMA CoherentWritten ==
  ASSUME NEW n, NEW i, NEW pending, NEW globals, NEW gen, NEW res, NEW visits,
         Coherent(n, i, pending, globals, gen, res, visits),
         NEW new, Writes(n, gen, new)
  PROVE  Coherent(n, i, pending, globals, new, res, visits)
BY DEF Coherent, IsContext, LoopsMatch, SlotsMatch, Below, Writes, SameBooks

\* So does the record of a statement boundary.
LEMMA CoherentBoundary ==
  ASSUME NEW n, NEW i, NEW pending, NEW globals, NEW gen, NEW res, NEW visits,
         Coherent(n, i, pending, globals, gen, res, visits), NEW sealed
  PROVE  /\ Coherent(n, i, pending, globals, Boundary(gen), res, visits)
         /\ Coherent(n, i, pending, globals, Boundary(Seal(gen, sealed)), res, visits)
<1>1. IsGen(n, gen) /\ Writes(n, gen, Boundary(gen)) /\ Writes(n, gen, Seal(gen, sealed))
  BY RecordsWrite DEF Coherent, IsContext
<1>2. Coherent(n, i, pending, globals, Seal(gen, sealed), res, visits)
  BY <1>1, CoherentWritten
<1>3. Writes(n, Seal(gen, sealed), Boundary(Seal(gen, sealed)))
  BY <1>1, RecordsWrite DEF Writes
<1> QED
  BY <1>1, <1>2, <1>3, CoherentWritten

\* A finished function makes more constants possible.
LEMMA CoherentMoreFunctions ==
  ASSUME NEW n \in Nat, NEW i, NEW pending, NEW globals, NEW gen, NEW res, NEW visits,
         Coherent(n, i, pending, globals, gen, res, visits)
  PROVE  Coherent(n + 1, i, pending, globals, gen, res, visits)
<1>1. IsGen(n, gen)
  BY DEF Coherent, IsContext
<1>2. n + 1 \in Nat /\ n <= n + 1
  OBVIOUS
<1>3. IsGen(n + 1, gen)
  BY <1>1, <1>2, MoreFunctions
<1> QED
  BY <1>3 DEF Coherent, IsContext

\* The analysis counts a declaration before its value has been coded,
LEMMA CoherentPromised ==
  ASSUME NEW n, NEW i, NEW globals, IsTable(globals), NEW gen, NEW res, NEW visits,
         Coherent(n, i, 0, Len(globals), gen, res, visits),
         NEW d, IsDeclaration(d)
  PROVE  Coherent(n, i, 1, Len(DeclareGlobal(res, globals, d)),
                  gen, DeclareLocal(res, d), visits)
<1> DEFINE locals == res.local_bindings
           declared_in == DeclareLocal(res, d)
           total == Len(DeclareGlobal(res, globals, d))
           placed == [d EXCEPT !.depth = res.depth]
<1>1. /\ Len(globals) \in Nat
      /\ IsTable(locals)
      /\ Len(locals) \in Nat
      /\ visits \in Seq(OpenVisits)
      /\ Len(visits) \in Nat /\ DOMAIN visits = 1..Len(visits)
      /\ gen.stack_size \in Nat
  BY Places, LenProperties DEF Coherent, IsContext, IsResolver, IsTable, IsGen
<1>2. /\ IsResolver(declared_in)
      /\ declared_in.depth = res.depth
      /\ declared_in.is_global = res.is_global
      /\ declared_in.loop_depth = res.loop_depth
      /\ InGlobalScope(res) => total = Len(globals) + 1 /\ declared_in = res
      /\ ~InGlobalScope(res) =>
            /\ total = Len(globals)
            /\ declared_in.local_bindings = Append(locals, placed)
  BY DeclareEffect DEF Coherent, IsContext
<1>3. InGlobalScope(res) <=> i = 1 /\ Len(visits) = 0
  BY DEF Coherent, IsContext, SlotsMatch, InGlobalScope
<1>4. Below(i, gen, Len(globals)) \in Int
  BY <1>1, BelowIsInt, LenProperties DEF Coherent, IsContext
<1>5. IsContext(n, i, gen, declared_in, visits)
  BY <1>2 DEF Coherent, IsContext
<1>6. LoopsMatch(gen, declared_in, visits)
  BY <1>2 DEF Coherent, LoopsMatch
<1>7. SlotsMatch(i, 1, total, gen, declared_in, visits)
  <2>1. CASE InGlobalScope(res)
    <3>1. Below(i, gen, total) = Below(i, gen, Len(globals)) - 1
      <4>1. Len(Natives) \in Nat
        BY RegistryAssumption, LenProperties
      <4> QED
        BY <1>1, <1>2, <1>3, <2>1, <4>1 DEF Below, Base
    <3>2. DOMAIN visits = {}
      BY <1>1, <1>3, <2>1
    <3>3. Layout(Below(i, gen, total), locals, visits)
      BY <3>2 DEF Layout, Coherent, SlotsMatch
    <3>4. Len(locals) = Below(i, gen, total) + 1 + gen.stack_size
      BY <1>1, <1>4, <3>1 DEF Coherent, SlotsMatch
    <3> QED
      BY <1>2, <2>1, <3>3, <3>4 DEF Coherent, SlotsMatch
  <2>2. CASE ~InGlobalScope(res)
    <3>1. total = Len(globals)
      BY <1>2, <2>2
    <3>2. IsDeclaration(placed) /\ placed.depth = Len(visits)
      BY DEF IsDeclaration, Coherent, IsContext, IsResolver, SlotsMatch
    <3> HIDE DEF placed
    <3>3. Layout(Below(i, gen, Len(globals)), Append(locals, placed), visits)
      BY <1>1, <1>4, <3>2, LayoutDeclared DEF Coherent, SlotsMatch
    <3>4. Len(Append(locals, placed)) = Len(locals) + 1
      BY <1>1, <3>2, TableAppended
    <3>5. Len(locals) + 1 = Below(i, gen, Len(globals)) + 1 + gen.stack_size
      BY <1>1, <1>4 DEF Coherent, SlotsMatch
    <3> HIDE DEF declared_in, total
    <3> QED
      BY <1>2, <2>2, <3>1, <3>3, <3>4, <3>5 DEF Coherent, SlotsMatch
  <2> QED
    BY <2>1, <2>2
<1> QED
  BY <1>5, <1>6, <1>7 DEF Coherent

\* and the generator afterwards.
LEMMA CoherentFulfilled ==
  ASSUME NEW n, NEW i, NEW globals \in Nat, NEW gen, NEW res, NEW visits,
         Coherent(n, i, 1, globals, gen, res, visits)
  PROVE  Coherent(n, i, 0, globals, NewVar(gen), res, visits)
<1>1. /\ IsGen(n, NewVar(gen))
      /\ NewVar(gen).stack_size = gen.stack_size + 1
      /\ NewVar(gen).params = gen.params
      /\ NewVar(gen).ret_type = gen.ret_type
      /\ NewVar(gen).loop_starts = gen.loop_starts
      /\ NewVar(gen).break_backlog = gen.break_backlog
  BY NewVarEffect DEF Coherent, IsContext
<1>2. Below(i, gen, globals) \in Int /\ gen.stack_size \in Nat
  BY BelowIsInt, LenProperties DEF Coherent, IsContext, IsGen
<1>3. IsContext(n, i, NewVar(gen), res, visits)
  BY <1>1 DEF Coherent, IsContext
<1>4. LoopsMatch(NewVar(gen), res, visits)
  BY <1>1 DEF Coherent, LoopsMatch
<1>5. Below(i, NewVar(gen), globals) = Below(i, gen, globals)
  BY <1>1 DEF Below
<1>6. SlotsMatch(i, 0, globals, NewVar(gen), res, visits)
  BY <1>1, <1>2, <1>5 DEF Coherent, SlotsMatch
<1> QED
  BY <1>3, <1>4, <1>6 DEF Coherent

\* Opening a scope: a function stays a function under compilation, and its
\* locals stay in order.
LEMMA ScopeOpened ==
  ASSUME NEW n, NEW i, NEW globals \in Nat, NEW gen, NEW res, NEW visits,
         IsContext(n, i, gen, res, visits), SlotsMatch(i, 0, globals, gen, res, visits),
         NEW v \in OpenVisits, v.old_count = gen.stack_size
  PROVE  /\ IsContext(n, i, gen, EnterScope(res), Append(visits, v))
         /\ SlotsMatch(i, 0, globals, gen, EnterScope(res), Append(visits, v))
         /\ EnterScope(res).loop_depth = res.loop_depth
<1>1. gen.stack_size \in Nat
  BY DEF IsContext, IsGen
<1>2. /\ visits \in Seq(OpenVisits)
      /\ Append(visits, v) \in Seq(OpenVisits)
      /\ Len(Append(visits, v)) = Len(visits) + 1
      /\ Len(visits) \in Nat
  BY VisitOpened DEF IsContext
<1>3. /\ IsResolver(EnterScope(res))
      /\ EnterScope(res).depth = res.depth + 1
      /\ EnterScope(res).local_bindings = res.local_bindings
      /\ EnterScope(res).loop_depth = res.loop_depth
      /\ EnterScope(res).is_global = res.is_global
  BY DEF EnterScope, IsContext, IsResolver
<1>4. Below(i, gen, globals) \in Int
  BY BelowIsInt, LenProperties DEF IsContext
<1>5. IsContext(n, i, gen, EnterScope(res), Append(visits, v))
  BY <1>2, <1>3 DEF IsContext
<1>6. Below(i, gen, globals) + v.old_count = Len(res.local_bindings)
  BY <1>1, <1>4 DEF SlotsMatch
<1>7. Layout(Below(i, gen, globals), res.local_bindings, Append(visits, v))
  BY <1>2, <1>4, <1>6, LayoutOpened DEF SlotsMatch, IsContext, IsResolver
<1>8. SlotsMatch(i, 0, globals, gen, EnterScope(res), Append(visits, v))
  BY <1>2, <1>3, <1>7 DEF SlotsMatch
<1> QED
  BY <1>3, <1>5, <1>8

\* Closing one: the locals that the generator pops are those that the analysis
\* forgets.
LEMMA ScopeClosed ==
  ASSUME NEW n, NEW i, NEW globals \in Nat, NEW gen, NEW res, NEW visits,
         IsContext(n, i, gen, res, visits), SlotsMatch(i, 0, globals, gen, res, visits),
         visits # <<>>
  PROVE  LET popped == PopLocals(gen, Last(visits).old_count)
         IN /\ IsContext(n, i, popped, ExitScope(res), Front(visits))
            /\ SlotsMatch(i, 0, globals, popped, ExitScope(res), Front(visits))
            /\ ExitScope(res).loop_depth = res.loop_depth
            /\ popped.loop_starts = gen.loop_starts
            /\ popped.break_backlog = gen.break_backlog
<1> DEFINE old_count == Last(visits).old_count
           popped == PopLocals(gen, old_count)
           locals == res.local_bindings
           below == Below(i, gen, globals)
           k == below + old_count
<1>1. /\ Front(visits) \in Seq(OpenVisits)
      /\ Len(visits) \in Nat \ {0}
      /\ Len(Front(visits)) = Len(visits) - 1
      /\ old_count \in Nat
  BY VisitClosed DEF IsContext, OpenVisits
<1>2. /\ IsGen(n, popped)
      /\ popped.stack_size = old_count
      /\ popped.params = gen.params /\ popped.ret_type = gen.ret_type
      /\ popped.break_backlog = gen.break_backlog
      /\ popped.loop_starts = gen.loop_starts
  BY <1>1, PopLocalsEffect DEF IsContext
<1>3. below \in Int /\ Below(i, popped, globals) = below
  BY <1>2, BelowIsInt, LenProperties DEF IsContext, Below
<1>4. /\ k \in 0..Len(locals)
      /\ \A q \in DOMAIN locals : q <= k <=> locals[q].depth < Len(visits)
      /\ Layout(below, SubSeq(locals, 1, k), Front(visits))
  <2>1. visits \in Seq(OpenVisits) /\ IsTable(locals) /\ Layout(below, locals, visits)
    BY DEF IsContext, IsResolver, SlotsMatch
  <2> HIDE DEF below
  <2> QED
    BY <1>3, <2>1, LayoutClosed
<1> HIDE DEF k
<1>5. /\ IsResolver(res) /\ res.depth # 0 /\ res.depth = Len(visits)
      /\ k \in 0..Len(res.local_bindings)
      /\ \A q \in DOMAIN res.local_bindings :
            q <= k <=> res.local_bindings[q].depth < res.depth
  BY <1>1, <1>4 DEF IsContext, SlotsMatch
<1>6. /\ IsResolver(ExitScope(res))
      /\ ExitScope(res).depth = res.depth - 1
      /\ ExitScope(res).local_bindings = SubSeq(locals, 1, k)
      /\ ExitScope(res).is_global = res.is_global
      /\ ExitScope(res).loop_depth = res.loop_depth
  BY <1>5, ExitScopeEffect
<1>7. Len(SubSeq(locals, 1, k)) = k
  BY <1>4, FirstPart DEF IsContext, IsResolver, IsTable
<1> HIDE DEF popped, old_count, below, locals
<1>8. IsContext(n, i, popped, ExitScope(res), Front(visits))
  BY <1>1, <1>2, <1>6 DEF IsContext
<1>9. SlotsMatch(i, 0, globals, popped, ExitScope(res), Front(visits))
  <2>1. k = below + 0 + old_count
    BY <1>1, <1>3 DEF k
  <2> QED
    BY <1>1, <1>2, <1>3, <1>4, <1>5, <1>6, <1>7, <2>1 DEF SlotsMatch
<1> QED
  BY <1>2, <1>6, <1>8, <1>9 DEF popped, old_count

\* A statement that contains others and is no loop is opened.
LEMMA CoherentOpened ==
  ASSUME NEW n, NEW i, NEW globals \in Nat, NEW gen, NEW res, NEW visits,
         Coherent(n, i, 0, globals, gen, res, visits),
         NEW kind \in {"block", "then", "else"}, NEW jump \in Int, NEW start \in Nat
  PROVE  Coherent(n, i, 0, globals, gen, EnterScope(res),
                  Append(visits, Visit(kind, gen.stack_size, jump, start)))
<1> DEFINE v == Visit(kind, gen.stack_size, jump, start)
<1>1. v \in OpenVisits /\ v.kind # "while" /\ v.old_count = gen.stack_size
  BY DEF Visit, OpenVisits, Coherent, IsContext, IsGen
<1> HIDE DEF v
<1>2. /\ IsContext(n, i, gen, EnterScope(res), Append(visits, v))
      /\ SlotsMatch(i, 0, globals, gen, EnterScope(res), Append(visits, v))
      /\ EnterScope(res).loop_depth = res.loop_depth
  BY <1>1, ScopeOpened DEF Coherent
<1>3. Cardinality(Whiles(Append(visits, v))) = Cardinality(Whiles(visits))
  BY <1>1, WhilesOpened DEF Coherent, IsContext
<1> QED
  BY <1>2, <1>3 DEF Coherent, LoopsMatch, v

\* And closed.
LEMMA CoherentClosed ==
  ASSUME NEW n, NEW i, NEW globals \in Nat, NEW gen, NEW res, NEW visits,
         Coherent(n, i, 0, globals, gen, res, visits),
         visits # <<>>, Last(visits).kind # "while"
  PROVE  Coherent(n, i, 0, globals, PopLocals(gen, Last(visits).old_count),
                  ExitScope(res), Front(visits))
<1> DEFINE popped == PopLocals(gen, Last(visits).old_count)
<1>1. /\ IsContext(n, i, popped, ExitScope(res), Front(visits))
      /\ SlotsMatch(i, 0, globals, popped, ExitScope(res), Front(visits))
      /\ ExitScope(res).loop_depth = res.loop_depth
      /\ popped.loop_starts = gen.loop_starts
      /\ popped.break_backlog = gen.break_backlog
  BY ScopeClosed DEF Coherent
<1>2. Cardinality(Whiles(visits)) = Cardinality(Whiles(Front(visits)))
  BY WhilesClosed DEF Coherent, IsContext
<1> HIDE DEF popped
<1> QED
  BY <1>1, <1>2 DEF Coherent, LoopsMatch, popped

\* A loop is opened in both passes.
LEMMA CoherentLoopOpened ==
  ASSUME NEW n, NEW i, NEW globals \in Nat, NEW gen, NEW res, NEW visits,
         Coherent(n, i, 0, globals, gen, res, visits),
         NEW new, Writes(n, BeginLoop(gen), new), NEW jump \in Int, NEW start \in Nat
  PROVE  Coherent(n, i, 0, globals, new, EnterScope(EnterLoop(res)),
                  Append(visits, Visit("while", new.stack_size, jump, start)))
<1> DEFINE v == Visit("while", new.stack_size, jump, start)
           looped == EnterLoop(res)
<1>1. /\ IsGen(n, new)
      /\ new.stack_size = gen.stack_size
      /\ new.params = gen.params /\ new.ret_type = gen.ret_type
      /\ new.break_backlog = gen.break_backlog
      /\ Len(new.loop_starts) = Len(gen.loop_starts) + 1
      /\ Len(gen.loop_starts) \in Nat
  <2>1. IsGen(n, gen)
    BY DEF Coherent, IsContext
  <2> QED
    BY <2>1, BeginLoopEffect, LenProperties DEF Writes, SameBooks, IsGen
<1>2. v \in OpenVisits /\ v.kind = "while" /\ v.old_count = new.stack_size
  BY <1>1 DEF Visit, OpenVisits, IsGen
<1>3. /\ IsResolver(looped)
      /\ looped.local_bindings = res.local_bindings
      /\ looped.depth = res.depth
      /\ looped.is_global = res.is_global
      /\ looped.loop_depth = res.loop_depth + 1
  BY DEF EnterLoop, Coherent, IsContext, IsResolver
<1> HIDE DEF v, looped
<1>4. IsContext(n, i, new, looped, visits)
  BY <1>1, <1>3 DEF Coherent, IsContext
<1>5. SlotsMatch(i, 0, globals, new, looped, visits)
  BY <1>1, <1>3 DEF Coherent, SlotsMatch, Below
<1>6. /\ IsContext(n, i, new, EnterScope(looped), Append(visits, v))
      /\ SlotsMatch(i, 0, globals, new, EnterScope(looped), Append(visits, v))
      /\ EnterScope(looped).loop_depth = looped.loop_depth
  BY <1>2, <1>4, <1>5, ScopeOpened
<1>7. Cardinality(Whiles(Append(visits, v))) = Cardinality(Whiles(visits)) + 1
  BY <1>2, WhilesOpened DEF Coherent, IsContext
<1>8. LoopsMatch(new, EnterScope(looped), Append(visits, v))
  BY <1>1, <1>3, <1>6, <1>7 DEF Coherent, LoopsMatch
<1> QED
  BY <1>6, <1>8 DEF Coherent, v, looped

\* And closed, with the breaks that wait for it.
LEMMA CoherentLoopClosed ==
  ASSUME NEW n, NEW i, NEW globals \in Nat, NEW gen, NEW res, NEW visits,
         Coherent(n, i, 0, globals, gen, res, visits),
         visits # <<>>, Last(visits).kind = "while",
         NEW new, Writes(n, PopLocals(gen, Last(visits).old_count), new)
  PROVE  Coherent(n, i, 0, globals, EndLoop(new), ExitLoop(ExitScope(res)), Front(visits))
<1> DEFINE popped == PopLocals(gen, Last(visits).old_count)
           left_scope == ExitScope(res)
           left_loop == ExitLoop(left_scope)
           ended == EndLoop(new)
<1>1. /\ IsContext(n, i, popped, left_scope, Front(visits))
      /\ SlotsMatch(i, 0, globals, popped, left_scope, Front(visits))
      /\ left_scope.loop_depth = res.loop_depth
      /\ popped.loop_starts = gen.loop_starts
      /\ popped.break_backlog = gen.break_backlog
  BY ScopeClosed DEF Coherent
<1>2. Cardinality(Whiles(visits)) = Cardinality(Whiles(Front(visits))) + 1
  BY WhilesClosed DEF Coherent, IsContext
<1>3. Cardinality(Whiles(Front(visits))) \in Nat
  BY VisitClosed, WhilesFinite DEF Coherent, IsContext
<1> HIDE DEF popped, left_scope
<1>4. /\ IsGen(n, new)
      /\ new.stack_size = popped.stack_size
      /\ new.params = popped.params /\ new.ret_type = popped.ret_type
      /\ new.loop_starts = gen.loop_starts
      /\ new.break_backlog = gen.break_backlog
  BY <1>1 DEF Writes, SameBooks, popped
<1>5. /\ Len(new.loop_starts) = Cardinality(Whiles(Front(visits))) + 1
      /\ new.loop_starts # <<>>
  <2>1. Len(new.loop_starts) = Cardinality(Whiles(Front(visits))) + 1
    BY <1>2, <1>4 DEF Coherent, LoopsMatch
  <2>2. Len(new.loop_starts) # 0
    BY <1>3, <2>1
  <2> QED
    BY <2>1, <2>2, EmptySeq
<1>6. /\ IsGen(n, ended)
      /\ ended.stack_size = new.stack_size
      /\ ended.params = new.params /\ ended.ret_type = new.ret_type
      /\ Len(ended.loop_starts) = Len(new.loop_starts) - 1
      /\ ended.break_backlog = {b \in new.break_backlog : b.loop # Len(new.loop_starts) - 1}
  BY <1>4, <1>5, EndLoopEffect
<1>7. /\ IsResolver(left_loop)
      /\ left_loop.local_bindings = left_scope.local_bindings
      /\ left_loop.depth = left_scope.depth
      /\ left_loop.is_global = left_scope.is_global
      /\ left_loop.loop_depth = left_scope.loop_depth - 1
  BY <1>1 DEF ExitLoop, IsContext, IsResolver
<1> HIDE DEF left_loop, ended
<1>8. IsContext(n, i, ended, left_loop, Front(visits))
  BY <1>1, <1>4, <1>6, <1>7 DEF IsContext
<1>9. SlotsMatch(i, 0, globals, ended, left_loop, Front(visits))
  BY <1>1, <1>4, <1>6, <1>7 DEF SlotsMatch, Below
<1>10. LoopsMatch(ended, left_loop, Front(visits))
  <2>1. \A b \in ended.break_backlog : b.loop \in 0..(Len(ended.loop_starts) - 1)
    <3> DEFINE loops == Len(new.loop_starts)
    <3>1. loops \in Nat \ {0} /\ Len(ended.loop_starts) = loops - 1
      BY <1>3, <1>5, <1>6
    <3>2. \A b \in gen.break_backlog : b.loop \in 0..(loops - 1)
      BY <1>4 DEF Coherent, LoopsMatch
    <3>3. ended.break_backlog = {b \in gen.break_backlog : b.loop # loops - 1}
      BY <1>4, <1>6
    <3> HIDE DEF loops
    <3> QED
      BY <3>1, <3>2, <3>3
  <2>2. left_loop.loop_depth = Len(ended.loop_starts)
    BY <1>1, <1>3, <1>4, <1>5, <1>6, <1>7 DEF Coherent, LoopsMatch
  <2>3. Cardinality(Whiles(Front(visits))) = Len(ended.loop_starts)
    BY <1>3, <1>5, <1>6
  <2> QED
    BY <2>1, <2>2, <2>3 DEF LoopsMatch
<1> QED
  BY <1>8, <1>9, <1>10 DEF Coherent, left_loop, left_scope, ended

\* A break waits for a loop that is open.
LEMMA CoherentBreak ==
  ASSUME NEW n, NEW i, NEW globals, NEW gen, NEW res, NEW visits,
         Coherent(n, i, 0, globals, gen, res, visits),
         NEW b, b.loop \in 0..(Len(gen.loop_starts) - 1)
  PROVE  Coherent(n, i, 0, globals, [gen EXCEPT !.break_backlog = @ \cup {b}], res, visits)
<1> DEFINE backlog == gen.break_backlog \cup {b}
           waiting == [gen EXCEPT !.break_backlog = backlog]
<1>1. \A c \in backlog : c.loop \in 0..(Len(gen.loop_starts) - 1)
  BY DEF Coherent, LoopsMatch
<1> HIDE DEF backlog
<1>2. /\ IsGen(n, waiting)
      /\ waiting.stack_size = gen.stack_size
      /\ waiting.params = gen.params
      /\ waiting.ret_type = gen.ret_type
      /\ waiting.loop_starts = gen.loop_starts
      /\ waiting.break_backlog = backlog
  <2>1. IsGen(n, gen)
    BY DEF Coherent, IsContext
  <2> QED
    BY <2>1 DEF IsGen, GenFields
<1> HIDE DEF waiting
<1>3. IsContext(n, i, waiting, res, visits)
  BY <1>2 DEF Coherent, IsContext
<1>4. LoopsMatch(waiting, res, visits)
  BY <1>1, <1>2 DEF Coherent, LoopsMatch
<1>5. SlotsMatch(i, 0, globals, waiting, res, visits)
  BY <1>2 DEF Coherent, SlotsMatch, Below
<1> QED
  BY <1>3, <1>4, <1>5 DEF Coherent, waiting, backlog

(***************************************************************************)
(* The code of expressions and statements.                                 *)
(***************************************************************************)
\* An integer that is written down.
LEMMA IntIsConstant ==
  ASSUME NEW n, NEW v \in Int
  PROVE  [t |-> "Int", within |-> "None", v |-> v] \in Constant(n)
BY DEF Constant, Value, Types

\* A literal, a load, a store and the end of an expression only write.
LEMMA ExpressionsWrite ==
  ASSUME NEW n, NEW gen, IsGen(n, gen), NEW b, IsBinding(b)
  PROVE  /\ \A tag \in Int : Writes(n, gen, CodeLiteral(gen, tag))
         /\ Writes(n, gen, CodeLoad(gen, b))
         /\ Writes(n, gen, CodeStore(gen, b))
         /\ Writes(n, gen, ExpressionStmt(gen))
         /\ Writes(n, gen, Condition(gen))
<1>1. ASSUME NEW tag \in Int PROVE Writes(n, gen, CodeLiteral(gen, tag))
  BY IntIsConstant, NewConstantWrites DEF CodeLiteral
<1>2. Writes(n, gen, CodeLoad(gen, b))
  BY WriteIndexedWrites, Written DEF CodeLoad, IsBinding
<1>3. Writes(n, gen, CodeStore(gen, b))
  BY WriteIndexedWrites, Written DEF CodeStore, IsBinding
<1>4. Writes(n, gen, ExpressionStmt(gen)) /\ Writes(n, gen, Condition(gen))
  BY WriteInstrWrites, Written DEF ExpressionStmt, Condition
<1> QED
  BY <1>1, <1>2, <1>3, <1>4

\* So does an argument,
LEMMA ArgumentWrites ==
  ASSUME NEW n, NEW gen, IsGen(n, gen), NEW b, IsBinding(b), NEW k \in Int
  PROVE  Writes(n, gen, Argument(gen, b, k))
<1> DEFINE literal == CodeLiteral(gen, Literal(b, k))
<1>1. Literal(b, k) \in Int
  BY DEF Literal, ParamTag, IsBinding, IsDeclaration
<1>2. Writes(n, gen, literal)
  BY <1>1, ExpressionsWrite
<1> HIDE DEF literal
<1>3. Writes(n, literal, Coerce(literal, "Int", b.data.params[k]))
  BY <1>2, CoerceWrites DEF Writes
<1> QED
  BY <1>2, <1>3, WritesTransitive DEF Argument, literal

\* a callee,
LEMMA CalleeWrites ==
  ASSUME NEW n, NEW gen, IsGen(n, gen), NEW b, IsBinding(b)
  PROVE  Writes(n, gen, LoadCallee(gen, b))
<1> DEFINE marked == [gen EXCEPT !.misplaced = @ \/ Misplaced(b)]
<1>1. Writes(n, gen, marked)
  BY RecordsWrite
<1>2. LoadCallee(gen, b) = CodeLoad(marked, b)
  BY DEF LoadCallee
<1> HIDE DEF marked
<1>3. Writes(n, marked, CodeLoad(marked, b))
  BY <1>1, ExpressionsWrite DEF Writes
<1> QED
  BY <1>1, <1>2, <1>3, WritesTransitive

\* and a call, with all its arguments.
LEMMA CallWrites ==
  ASSUME NEW n, NEW gen, IsGen(n, gen), NEW b, IsBinding(b), Len(b.data.params) \in Int
  PROVE  Writes(n, gen, CallWith(gen, b))
<1> DEFINE count == Len(b.data.params)
           loaded == LoadCallee(gen, b)
           first == IF count >= 1 THEN Argument(loaded, b, 1) ELSE loaded
           called == IF count >= 2 THEN Argument(first, b, 2) ELSE first
           op == IF b.data.type.t = "NativeFunc" THEN "CallNative" ELSE "CallUser"
<1>2. Writes(n, gen, loaded)
  BY CalleeWrites
<1> HIDE DEF loaded
<1>3. Writes(n, loaded, first)
  <2>1. IsGen(n, loaded)
    BY <1>2 DEF Writes
  <2> QED
    BY <2>1, ArgumentWrites DEF Writes, SameBooks
<1> HIDE DEF first
<1>4. Writes(n, first, called)
  <2>1. IsGen(n, first)
    BY <1>3 DEF Writes
  <2> QED
    BY <2>1, ArgumentWrites DEF Writes, SameBooks
<1> HIDE DEF called
<1>5. Writes(n, called, WriteIndexed(called, op, count))
  BY <1>4, WriteIndexedWrites, Written DEF Writes
<1>6. CallWith(gen, b) = WriteIndexed(called, op, count)
  BY DEF CallWith, called, first, loaded
<1> HIDE DEF op, count
<1> QED
  BY <1>2, <1>3, <1>4, <1>5, <1>6, WritesTransitive

(***************************************************************************)
(* The inductive invariant.                                                *)
(***************************************************************************)
Compiled(ctxs, n, globals) ==
    /\ IsSequence(ctxs)
    /\ Len(ctxs) \in 1..2
    /\ \A i \in DOMAIN ctxs :
          Coherent(n, i, IF i < Len(ctxs) THEN 1 ELSE 0, globals,
                   ctxs[i].gen, ctxs[i].res, ctxs[i].visits)

\* A finished function of a program that has n of them.
IsFinished(n, f) ==
    /\ f.code \in Seq(Byte)
    /\ f.constants \in Seq(Constant(n))
    /\ f.params \in Seq(Types) /\ f.ret_type \in Types

IInv ==
    /\ phase \in {"compile", "compiled", "panicked", "running"}
    /\ left \in 0..MaxStmts
    /\ declared \in 0..Len(Tags)
    /\ IsTable(global_bindings)
    /\ IsSequence(program)
    /\ \A i \in DOMAIN program : IsFinished(Len(program), program[i])
    /\ phase \in {"compiled", "running"} => program # <<>>
    /\ phase = "compile" => Compiled(contexts, Len(program), Len(global_bindings))
    /\ phase # "compile" => contexts = <<>>

\* The invariant says what the properties say.
LEMMA InvariantSuffices == IInv => CompilerTypeOK /\ LoopsAgree /\ SlotsAgree
<1> SUFFICES ASSUME IInv PROVE CompilerTypeOK /\ LoopsAgree /\ SlotsAgree
  OBVIOUS
<1>1. CASE phase # "compile"
  <2>1. contexts = <<>> /\ DOMAIN contexts = {}
    BY <1>1 DEF IInv
  <2> QED
    BY <1>1, <2>1 DEF IInv, IsFinished, CompilerTypeOK, LoopsAgree, SlotsAgree
<1>2. CASE phase = "compile"
  <2>1. /\ Len(contexts) \in 1..2
        /\ DOMAIN contexts = 1..Len(contexts)
        /\ contexts # <<>>
        /\ Len(global_bindings) \in Nat
    <3>1. IsSequence(contexts) /\ Len(contexts) \in 1..2 /\ IsSequence(global_bindings)
      BY <1>2 DEF IInv, Compiled, IsTable
    <3>2. DOMAIN contexts = 1..Len(contexts) /\ Len(global_bindings) \in Nat
      BY <3>1, Places
    <3>3. Len(contexts) # 0
      BY <3>1
    <3> QED
      BY <3>1, <3>2, <3>3, EmptySeq
  <2>2. ASSUME NEW i \in DOMAIN contexts
        PROVE  LET gen == contexts[i].gen
                   res == contexts[i].res
               IN /\ gen.code \in Seq(Byte) /\ gen.stack_size \in Nat
                  /\ gen.loop_starts \in Seq(Nat)
                  /\ res.depth \in Nat /\ res.loop_depth \in Nat
                  /\ res.loop_depth = Len(gen.loop_starts)
                  /\ \A b \in gen.break_backlog : b.loop \in 0..(Len(gen.loop_starts) - 1)
                  /\ Base(i = 1, gen.params) + gen.stack_size
                        + (IF i = 1 /\ Level = 2 THEN 1 ELSE 0)
                      = Len(res.local_bindings) + (IF i = 1 THEN Len(global_bindings) ELSE 0)
    <3> DEFINE gen == contexts[i].gen
               res == contexts[i].res
               visits == contexts[i].visits
               pending == IF i < Len(contexts) THEN 1 ELSE 0
               globals == Len(global_bindings)
    <3>1. Coherent(Len(program), i, pending, globals, gen, res, visits)
      BY <1>2 DEF IInv, Compiled
    <3> HIDE DEF gen, res, visits
    <3>2. /\ gen.code \in Seq(Byte) /\ gen.stack_size \in Nat
          /\ gen.loop_starts \in Seq(Nat) /\ res.depth \in Nat
          /\ Len(gen.params) \in Nat
      BY <3>1, LenProperties DEF Coherent, IsContext, IsGen, IsResolver
    <3>3. /\ res.loop_depth = Len(gen.loop_starts) /\ res.loop_depth \in Nat
          /\ \A b \in gen.break_backlog : b.loop \in 0..(Len(gen.loop_starts) - 1)
      BY <3>1, <3>2, LenProperties DEF Coherent, LoopsMatch
    <3>4. pending = IF i = 1 /\ Level = 2 THEN 1 ELSE 0
      <4>1. PICK n \in 1..2 : n = Len(contexts)
        BY <2>1
      <4>2. i \in 1..n
        BY <2>1, <4>1
      <4>3. i < n <=> i = 1 /\ n = 2
        BY <4>2
      <4> QED
        BY <4>1, <4>3 DEF Level
    <3>5. Base(i = 1, gen.params) \in Nat
      BY <3>2, RegistryAssumption, LenProperties DEF Base
    <3>6. Len(res.local_bindings)
            = Base(i = 1, gen.params) - (IF i = 1 THEN globals ELSE 0) + pending + gen.stack_size
      BY <3>1 DEF Coherent, SlotsMatch, Below
    <3>7. Base(i = 1, gen.params) + gen.stack_size + pending
            = Len(res.local_bindings) + (IF i = 1 THEN globals ELSE 0)
      BY <2>1, <3>2, <3>5, <3>6
    <3> QED
      BY <3>2, <3>3, <3>4, <3>7 DEF gen, res
  <2> QED
    BY <1>2, <2>1, <2>2 DEF IInv, IsFinished, CompilerTypeOK, LoopsAgree, SlotsAgree
<1> QED
  BY <1>1, <1>2

\* The function being compiled is coherent, and nothing is pending in it.
LEMMA CurrentCoherent ==
  ASSUME IInv, phase = "compile"
  PROVE  /\ Coherent(Len(program), Level, 0, Len(global_bindings), Gen, Res, Visits)
         /\ Len(program) \in Nat /\ Len(global_bindings) \in Nat
         /\ Level \in 1..2
<1>1. IsSequence(contexts) /\ Level \in 1..2 /\ Level \in DOMAIN contexts /\ ~(Level < Level)
  BY Places DEF IInv, Compiled, Level
<1>2. Coherent(Len(program), Level, 0, Len(global_bindings), Gen, Res, Visits)
  BY <1>1 DEF IInv, Compiled, Level, Gen, Res, Visits
<1> QED
  BY <1>1, <1>2, Places DEF IInv, IsTable

\* The function being compiled may be replaced by a coherent one.
LEMMA CompiledReplaced ==
  ASSUME NEW ctxs, NEW n, NEW globals, Compiled(ctxs, n, globals), NEW more,
         Len(ctxs) = 2 => more = globals,
         NEW gen, NEW res, NEW visits, Coherent(n, Len(ctxs), 0, more, gen, res, visits)
  PROVE  Compiled([ctxs EXCEPT ![Len(ctxs)] = [gen |-> gen, res |-> res, visits |-> visits]],
                  n, more)
<1> DEFINE new == [gen |-> gen, res |-> res, visits |-> visits]
           S == Range(ctxs) \cup {new}
           next == [ctxs EXCEPT ![Len(ctxs)] = new]
<1>1. /\ Len(ctxs) \in 1..2 /\ DOMAIN ctxs = 1..Len(ctxs)
      /\ ctxs \in Seq(S) /\ new \in S
  BY Places, SeqMonotonic DEF Compiled, IsSequence
<1> HIDE DEF new, S
<1>2. /\ next \in Seq(S) /\ Len(next) = Len(ctxs)
      /\ \A j \in 1..Len(ctxs) : next[j] = IF j = Len(ctxs) THEN new ELSE ctxs[j]
  BY <1>1, ExceptSeq
<1>3. IsSequence(next) /\ DOMAIN next = 1..Len(ctxs)
  BY <1>1, <1>2, SeqIsSequence, Places
<1> HIDE DEF next
<1>4. ASSUME NEW i \in 1..Len(ctxs), i # Len(ctxs) PROVE more = globals
  <2>1. Len(ctxs) \in 1..2
    BY DEF Compiled
  <2>2. \A l \in 1..2 : i \in 1..l /\ i # l => l = 2
    OBVIOUS
  <2>3. Len(ctxs) = 2
    BY <1>4, <2>1, <2>2
  <2> QED
    BY <2>3
<1>5. ASSUME NEW i \in 1..Len(ctxs)
      PROVE  Coherent(n, i, IF i < Len(next) THEN 1 ELSE 0, more,
                      next[i].gen, next[i].res, next[i].visits)
  <2>1. CASE i = Len(ctxs)
    <3>1. next[i] = new
      BY <1>2, <2>1
    <3>2. ~(i < Len(next))
      BY <1>2, <2>1
    <3> QED
      BY <2>1, <3>1, <3>2 DEF new
  <2>2. CASE i # Len(ctxs)
    <3>1. next[i] = ctxs[i] /\ Len(next) = Len(ctxs)
      BY <1>2, <2>2
    <3>2. more = globals
      BY <1>4, <2>2
    <3> QED
      BY <1>1, <3>1, <3>2 DEF Compiled
  <2> QED
    BY <2>1, <2>2
<1> QED
  BY <1>1, <1>2, <1>3, <1>5 DEF Compiled, next, new

\* A statement keeps the invariant when what it leaves is coherent.
LEMMA ReplacedKeeps ==
  ASSUME IInv, phase = "compile", UNCHANGED <<phase, program>>,
         left' \in 0..MaxStmts, declared' \in 0..Len(Tags),
         IsTable(global_bindings'),
         Level = 2 => global_bindings' = global_bindings,
         NEW gen, NEW res, NEW visits, Replaced(gen, res, visits),
         Coherent(Len(program), Level, 0, Len(global_bindings'), gen, res, visits)
  PROVE  IInv'
<1>1. Coherent(Len(program), Level, 0, Len(global_bindings'), Boundary(gen), res, visits)
  BY CoherentBoundary
<1>2. Compiled([contexts EXCEPT ![Level] =
                  [gen |-> Boundary(gen), res |-> res, visits |-> visits]],
               Len(program), Len(global_bindings'))
  BY <1>1, CompiledReplaced DEF IInv, Level
<1>3. Compiled(contexts', Len(program'), Len(global_bindings'))
  BY <1>2 DEF Replaced, Context
<1> QED
  BY <1>3 DEF IInv

\* So it does when it records that no return came last.
LEMMA PutKeeps ==
  ASSUME IInv, phase = "compile", UNCHANGED <<phase, program>>,
         left' \in 0..MaxStmts, declared' \in 0..Len(Tags),
         IsTable(global_bindings'),
         Level = 2 => global_bindings' = global_bindings,
         NEW gen, NEW res, NEW visits, Put(gen, res, visits),
         Coherent(Len(program), Level, 0, Len(global_bindings'), gen, res, visits)
  PROVE  IInv'
<1>1. IsGen(Len(program), gen)
  BY DEF Coherent, IsContext
<1>2. Coherent(Len(program), Level, 0, Len(global_bindings'), Seal(gen, FALSE), res, visits)
  BY <1>1, RecordsWrite, CoherentWritten
<1> QED
  BY <1>2, ReplacedKeeps DEF Put

(***************************************************************************)
(* The beginning.                                                          *)
(***************************************************************************)
\* A generator that has written nothing.
LEMMA NewGeneratorIsGen ==
  ASSUME NEW n, NEW params, NEW ret_type
  PROVE  LET gen == NewGenerator(params, ret_type)
         IN /\ IsGen(n, gen)
            /\ gen.params = params /\ gen.ret_type = ret_type
            /\ gen.stack_size = 0 /\ gen.loop_starts = <<>> /\ gen.break_backlog = {}
BY EmptySeq DEF IsGen, NewGenerator, GenFields

\* It is coherent with an analysis that has bound what its frame begins with.
LEMMA CoherentNew ==
  ASSUME NEW n, NEW i, NEW globals, NEW params \in Seq(Types),
         NEW ret_type \in {"None", "Int", "Any"},
         NEW res, IsResolver(res), res.is_global <=> i = 1, res.depth = 0, res.loop_depth = 0,
         Len(res.local_bindings) = Below(i, NewGenerator(params, ret_type), globals),
         \A q \in DOMAIN res.local_bindings : res.local_bindings[q].depth = 0
  PROVE  Coherent(n, i, 0, globals, NewGenerator(params, ret_type), res, <<>>)
<1> DEFINE gen == NewGenerator(params, ret_type)
<1>1. /\ IsGen(n, gen)
      /\ gen.params = params /\ gen.ret_type = ret_type
      /\ gen.stack_size = 0 /\ gen.loop_starts = <<>> /\ gen.break_backlog = {}
  BY NewGeneratorIsGen
<1>2. Len(res.local_bindings) \in Nat
  BY Places DEF IsResolver, IsTable
<1> HIDE DEF gen
<1>3. /\ <<>> \in Seq(OpenVisits) /\ Len(<<>>) = 0 /\ DOMAIN <<>> = {}
      /\ Whiles(<<>>) = {} /\ Cardinality({}) = 0
  BY FS_EmptySet, EmptySeq DEF Whiles
<1>4. IsContext(n, i, gen, res, <<>>)
  BY <1>1, <1>3 DEF IsContext
<1>5. LoopsMatch(gen, res, <<>>)
  BY <1>1, <1>3 DEF LoopsMatch
<1>6. SlotsMatch(i, 0, globals, gen, res, <<>>)
  <2>1. Layout(Below(i, gen, globals), res.local_bindings, <<>>)
    BY <1>3 DEF Layout
  <2>2. Len(res.local_bindings) = Below(i, gen, globals) + 0 + 0
    BY <1>2 DEF gen
  <2> QED
    BY <1>1, <1>3, <2>1, <2>2 DEF SlotsMatch
<1> QED
  BY <1>4, <1>5, <1>6 DEF Coherent, gen

\* The native functions are a table.
LEMMA NativeDataIsTable == IsTable(NativeData) /\ Len(NativeData) = Len(Natives)
<1>1. Len(Natives) \in Nat /\ DOMAIN Natives = 1..Len(Natives)
  BY RegistryAssumption, LenProperties
<1>2. NativeData \in [1..Len(Natives) -> Range(NativeData)]
  BY <1>1 DEF NativeData, Range
<1>3. NativeData \in Seq(Range(NativeData)) /\ Len(NativeData) = Len(Natives)
  BY <1>1, <1>2
<1>4. ASSUME NEW k \in 1..Len(Natives) PROVE IsDeclaration(NativeData[k])
  <2>1. NativeData[k] = VarData(Natives[k].name, [t |-> "NativeFunc", f |-> k],
                                Natives[k].takes, Natives[k].gives, 0)
    BY <1>1 DEF NativeData
  <2>2. [t |-> "NativeFunc", f |-> k].f \in Int /\ 0 \in Int
    OBVIOUS
  <2> QED
    BY <2>1, <2>2, VarDataIsDeclaration
<1> QED
  BY <1>2, <1>3, <1>4 DEF IsTable, IsSequence

\* Before the first statement the invariant holds.
LEMMA InitEstablishes == Init => IInv
<1> SUFFICES ASSUME Init PROVE IInv
  OBVIOUS
<1> DEFINE gen == NewGenerator(<<>>, "None")
           res == NewResolver(TRUE, "None")
           globals == Len(NativeData)
<1>1. /\ IsResolver(res) /\ res.is_global /\ res.depth = 0 /\ res.loop_depth = 0
      /\ res.local_bindings = <<>>
  BY NewResolverEffect
<1>2. Below(1, gen, globals) = 0
  <2>1. gen.params = <<>> /\ Len(Natives) \in Nat
    BY NewGeneratorIsGen, RegistryAssumption, LenProperties
  <2> QED
    BY <2>1, NativeDataIsTable DEF Below, Base
<1>3. Coherent(0, 1, 0, globals, gen, res, <<>>)
  <2>1. Len(<<>>) = 0 /\ DOMAIN <<>> = {} /\ <<>> \in Seq(Types)
    BY EmptySeq
  <2> HIDE DEF res, globals
  <2> QED
    BY <1>1, <1>2, <2>1, CoherentNew
<1>4. Coherent(0, 1, 0, globals, Boundary(gen), res, <<>>)
  BY <1>3, CoherentBoundary
<1> DEFINE c == [gen |-> Boundary(gen), res |-> res, visits |-> <<>>]
<1>5. contexts = <<c>>
  BY DEF Init, CompilerInit, Context
<1>6. IsSequence(contexts) /\ Len(contexts) = 1 /\ DOMAIN contexts = 1..1 /\ contexts[1] = c
  <2> HIDE DEF c
  <2> QED
    BY <1>5, SmallSequences
<1> HIDE DEF gen, res, globals
<1>7. Compiled(contexts, 0, globals)
  <2>1. /\ contexts[1].gen = Boundary(gen) /\ contexts[1].res = res
        /\ contexts[1].visits = <<>>
    BY <1>6
  <2>2. \A i \in DOMAIN contexts : i = 1 /\ ~(i < Len(contexts))
    BY <1>6
  <2> HIDE DEF c
  <2> QED
    BY <1>4, <1>6, <2>1, <2>2 DEF Compiled
<1>8. /\ program = <<>> /\ Len(program) = 0 /\ DOMAIN program = {} /\ IsSequence(program)
  BY SmallSequences DEF Init, CompilerInit
<1>9. MaxStmts \in Nat /\ Len(Tags) \in Nat
  BY CompilerAssumption, LenProperties
<1> QED
  BY <1>7, <1>8, <1>9, NativeDataIsTable DEF IInv, IsFinished, Init, CompilerInit, globals

(***************************************************************************)
(* The statements.                                                         *)
(***************************************************************************)
\* A statement takes one of those that are left.
LEMMA StatementTakesOne ==
  ASSUME IInv, NEW form, Statement(form)
  PROVE  phase = "compile" /\ phase' = phase /\ left' \in 0..MaxStmts
<1>1. left \in 0..MaxStmts /\ left > 0 /\ left' = left - 1 /\ MaxStmts \in Nat
  BY CompilerAssumption DEF IInv, Statement
<1> QED
  BY <1>1 DEF Statement, Compiling

\* The statements that only write code.
LEMMA WritingKeeps ==
  ASSUME IInv, phase = "compile", left' \in 0..MaxStmts, UNCHANGED phase,
         UNCHANGED <<declared, program, global_bindings>>,
         NEW gen, Writes(Len(program), Gen, gen), NEW sealed,
         \/ Put(gen, Res, Visits)
         \/ Replaced(Seal(gen, sealed), Res, Visits)
  PROVE  IInv'
<1> DEFINE n == Len(program)
           globals == Len(global_bindings)
<1>1. Coherent(n, Level, 0, globals, Gen, Res, Visits)
  BY CurrentCoherent
<1>2. Coherent(n, Level, 0, globals, gen, Res, Visits)
  BY <1>1, CoherentWritten
<1>3. IsGen(n, gen)
  BY DEF Writes
<1>4. Coherent(n, Level, 0, globals, Seal(gen, sealed), Res, Visits)
  BY <1>2, <1>3, RecordsWrite, CoherentWritten
<1>5. IsTable(global_bindings') /\ declared' \in 0..Len(Tags) /\ Len(global_bindings') = globals
  BY DEF IInv
<1>6. CASE Put(gen, Res, Visits)
  BY <1>2, <1>5, <1>6, PutKeeps
<1>7. CASE Replaced(Seal(gen, sealed), Res, Visits)
  BY <1>4, <1>5, <1>7, ReplacedKeeps
<1> QED
  BY <1>6, <1>7

\* What a name in the current function is bound to.
LEMMA CurrentBindings ==
  ASSUME IInv, phase = "compile", NEW name, NEW args
  PROVE  /\ IsGen(Len(program), Gen) /\ IsResolver(Res) /\ IsTable(global_bindings)
         /\ \A b \in IntsNamed(name) : IsBinding(b)
         /\ \A b \in ResolveCall(Res, global_bindings, name, args) :
               IsBinding(b) /\ Len(b.data.params) = Len(args)
<1>1. IsGen(Len(program), Gen) /\ IsResolver(Res) /\ IsTable(global_bindings)
  BY CurrentCoherent DEF Coherent, IsContext, IInv
<1> QED
  BY <1>1, IdentifierIsBinding, CalleeIsBinding, CalleeTakesArguments DEF IntsNamed

\* Assigning a literal.
LEMMA AssignKeeps == ASSUME IInv, NEW name, AssignStmt(name) PROVE IInv'
<1>1. /\ phase = "compile" /\ left' \in 0..MaxStmts /\ UNCHANGED phase
      /\ UNCHANGED <<declared, program, global_bindings>>
  BY StatementTakesOne DEF AssignStmt
<1>2. PICK b \in IntsNamed(name) :
        Put(ExpressionStmt(CodeStore(CodeLiteral(Gen, b.data.tag), b)), Res, Visits)
  BY DEF AssignStmt
<1> DEFINE n == Len(program)
           literal == CodeLiteral(Gen, b.data.tag)
           stored == CodeStore(literal, b)
<1>3. IsGen(n, Gen) /\ IsBinding(b) /\ b.data.tag \in Int
  BY <1>1, <1>2, CurrentBindings DEF IsBinding, IsDeclaration
<1>4. Writes(n, Gen, literal)
  BY <1>3, ExpressionsWrite
<1>5. Writes(n, literal, stored)
  BY <1>3, <1>4, ExpressionsWrite DEF Writes
<1>6. Writes(n, stored, ExpressionStmt(stored))
  BY <1>3, <1>5, ExpressionsWrite DEF Writes
<1>7. Writes(n, Gen, ExpressionStmt(stored))
  BY <1>4, <1>5, <1>6, WritesTransitive
<1> QED
  BY <1>1, <1>2, <1>7, WritingKeeps

\* Observing a variable.
LEMMA YieldKeeps == ASSUME IInv, NEW name, YieldStmt(name) PROVE IInv'
<1>1. /\ phase = "compile" /\ left' \in 0..MaxStmts /\ UNCHANGED phase
      /\ UNCHANGED <<declared, program, global_bindings>>
  BY StatementTakesOne DEF YieldStmt
<1>2. PICK b \in IntsNamed(name) :
        Put(ExpressionStmt(WriteInstr(CodeLoad(Reads(Gen, b.data.tag), b), "TESTYield")),
            Res, Visits)
  BY DEF YieldStmt
<1> DEFINE n == Len(program)
           read == Reads(Gen, b.data.tag)
           loaded == CodeLoad(read, b)
           yielded == WriteInstr(loaded, "TESTYield")
<1>3. IsGen(n, Gen) /\ IsBinding(b)
  BY <1>1, <1>2, CurrentBindings
<1>4. Writes(n, Gen, read)
  BY <1>3, RecordsWrite
<1>5. Writes(n, read, loaded)
  BY <1>3, <1>4, ExpressionsWrite DEF Writes
<1>6. Writes(n, loaded, yielded)
  BY <1>5, WriteInstrWrites, Written DEF Writes
<1>7. Writes(n, yielded, ExpressionStmt(yielded))
  BY <1>3, <1>6, ExpressionsWrite DEF Writes
<1>8. Writes(n, Gen, ExpressionStmt(yielded))
  BY <1>4, <1>5, <1>6, <1>7, WritesTransitive
<1> QED
  BY <1>1, <1>2, <1>8, WritingKeeps

\* Calling a function.
LEMMA CallKeeps == ASSUME IInv, NEW name, CallStmt(name) PROVE IInv'
<1>1. /\ phase = "compile" /\ left' \in 0..MaxStmts /\ UNCHANGED phase
      /\ UNCHANGED <<declared, program, global_bindings>>
  BY StatementTakesOne DEF CallStmt
<1>2. PICK args \in IntArgs : \E b \in ResolveCall(Res, global_bindings, name, args) :
        Put(ExpressionStmt(CallWith(Gen, b)), Res, Visits)
  BY DEF CallStmt
<1>3. PICK b \in ResolveCall(Res, global_bindings, name, args) :
        Put(ExpressionStmt(CallWith(Gen, b)), Res, Visits)
  BY <1>2
<1> DEFINE n == Len(program)
           called == CallWith(Gen, b)
<1>4. IsGen(n, Gen) /\ IsBinding(b) /\ Len(b.data.params) \in Int
  <2>1. Len(args) \in Int
    BY DEF IntArgs, MaxArgs
  <2> QED
    BY <1>1, <1>3, <2>1, CurrentBindings
<1>5. Writes(n, Gen, called)
  BY <1>4, CallWrites
<1>6. Writes(n, called, ExpressionStmt(called))
  BY <1>4, <1>5, ExpressionsWrite DEF Writes
<1>7. Writes(n, Gen, ExpressionStmt(called))
  BY <1>5, <1>6, WritesTransitive
<1> QED
  BY <1>1, <1>3, <1>7, WritingKeeps

\* Printing what a function returns.
LEMMA PrintCallKeeps == ASSUME IInv, NEW name, PrintCall(name) PROVE IInv'
<1>1. /\ phase = "compile" /\ left' \in 0..MaxStmts /\ UNCHANGED phase
      /\ UNCHANGED <<declared, program, global_bindings>>
  BY StatementTakesOne DEF PrintCall
<1>a. PICK args \in IntArgs : \E b \in ResolveCall(Res, global_bindings, name, args) :
        \E print \in ResolveCall(Res, global_bindings, "print", <<b.data.ret_type>>) :
           LET value == Coerce(CallWith(LoadCallee(Gen, print), b),
                               b.data.ret_type, print.data.params[1])
           IN Put(ExpressionStmt(WriteIndexed(value, "CallNative", 1)), Res, Visits)
  BY DEF PrintCall
<1>b. PICK b \in ResolveCall(Res, global_bindings, name, args) :
        \E print \in ResolveCall(Res, global_bindings, "print", <<b.data.ret_type>>) :
           LET value == Coerce(CallWith(LoadCallee(Gen, print), b),
                               b.data.ret_type, print.data.params[1])
           IN Put(ExpressionStmt(WriteIndexed(value, "CallNative", 1)), Res, Visits)
  BY <1>a
<1>2. PICK print \in ResolveCall(Res, global_bindings, "print", <<b.data.ret_type>>) :
        LET value == Coerce(CallWith(LoadCallee(Gen, print), b),
                            b.data.ret_type, print.data.params[1])
        IN Put(ExpressionStmt(WriteIndexed(value, "CallNative", 1)), Res, Visits)
  BY <1>b
<1> DEFINE n == Len(program)
           loaded == LoadCallee(Gen, print)
           called == CallWith(loaded, b)
           value == Coerce(called, b.data.ret_type, print.data.params[1])
           printed == WriteIndexed(value, "CallNative", 1)
<1>3. IsGen(n, Gen) /\ IsBinding(b) /\ Len(b.data.params) \in Int
  <2>1. Len(args) \in Int
    BY DEF IntArgs, MaxArgs
  <2> QED
    BY <1>1, <1>2, <2>1, CurrentBindings
<1>4. IsBinding(print)
  BY <1>1, <1>2, CurrentBindings
<1>5. Writes(n, Gen, loaded)
  BY <1>3, <1>4, CalleeWrites
<1> HIDE DEF loaded
<1>6. Writes(n, loaded, called)
  BY <1>3, <1>5, CallWrites DEF Writes
<1> HIDE DEF called
<1>7. Writes(n, called, value)
  BY <1>6, CoerceWrites DEF Writes
<1> HIDE DEF value
<1>8. Writes(n, value, printed)
  BY <1>7, WriteIndexedWrites, Written DEF Writes
<1> HIDE DEF printed
<1>9. Writes(n, printed, ExpressionStmt(printed))
  BY <1>4, <1>8, ExpressionsWrite DEF Writes
<1>10. Writes(n, Gen, ExpressionStmt(printed))
  BY <1>5, <1>6, <1>7, <1>8, <1>9, WritesTransitive
<1> QED
  BY <1>1, <1>2, <1>10, WritingKeeps DEF printed, value, called, loaded

\* Returning, without a value
LEMMA ReturnStmtKeeps == ASSUME IInv, ReturnStmt PROVE IInv'
<1>1. /\ phase = "compile" /\ left' \in 0..MaxStmts /\ UNCHANGED phase
      /\ UNCHANGED <<declared, program, global_bindings>>
  BY StatementTakesOne DEF ReturnStmt
<1> DEFINE n == Len(program)
           marked == [Gen EXCEPT !.untyped = @ \/ Gen.ret_type # "None"]
           value == WriteInstr(marked, "None")
           returned == WriteInstr(value, "Return")
<1>2. Replaced(Seal(returned, Visits = <<>>), Res, Visits)
  BY DEF ReturnStmt
<1>3. IsGen(n, Gen)
  BY <1>1, CurrentBindings
<1>4. Writes(n, Gen, marked)
  BY <1>3, RecordsWrite
<1> HIDE DEF marked
<1>5. Writes(n, marked, value)
  BY <1>4, WriteInstrWrites, Written DEF Writes
<1>6. Writes(n, value, returned)
  BY <1>5, WriteInstrWrites, Written DEF Writes
<1>7. Writes(n, Gen, returned)
  BY <1>4, <1>5, <1>6, WritesTransitive
<1> HIDE DEF returned
<1> QED
  BY <1>1, <1>2, <1>7, WritingKeeps

\* and with one.
LEMMA ReturnValueKeeps == ASSUME IInv, ReturnValue PROVE IInv'
<1>1. /\ phase = "compile" /\ left' \in 0..MaxStmts /\ UNCHANGED phase
      /\ UNCHANGED <<declared, program, global_bindings>>
  BY StatementTakesOne DEF ReturnValue
<1> DEFINE n == Len(program)
           literal == CodeLiteral(Gen, 0)
           value == Coerce(literal, "Int", Gen.ret_type)
           returned == WriteInstr(value, "Return")
<1>2. Replaced(Seal(returned, Visits = <<>>), Res, Visits)
  BY DEF ReturnValue
<1>3. IsGen(n, Gen)
  BY <1>1, CurrentBindings
<1>4. Writes(n, Gen, literal)
  BY <1>3, IntIsConstant, NewConstantWrites DEF CodeLiteral
<1>5. Writes(n, literal, value)
  BY <1>4, CoerceWrites DEF Writes
<1>6. Writes(n, value, returned)
  BY <1>5, WriteInstrWrites, Written DEF Writes
<1>7. Writes(n, Gen, returned)
  BY <1>4, <1>5, <1>6, WritesTransitive
<1> HIDE DEF returned
<1> QED
  BY <1>1, <1>2, <1>7, WritingKeeps

\* Repeating an enclosing loop.
LEMMA ContinueKeeps == ASSUME IInv, NEW k, Continue(k) PROVE IInv'
<1>1. /\ phase = "compile" /\ left' \in 0..MaxStmts /\ UNCHANGED phase
      /\ UNCHANGED <<declared, program, global_bindings>>
      /\ k \in 1..Res.loop_depth
  BY StatementTakesOne DEF Continue
<1> DEFINE n == Len(program)
           place == Len(Gen.loop_starts) - k + 1
           jumped == WriteJumpBack(Gen, Gen.loop_starts[place])
           marked == Exits(jumped, JumpArg(jumped), Loop(k).start, Loop(k).start)
<1>2. Put(Leaves(marked, k), Res, Visits)
  BY DEF Continue
<1>3. IsGen(n, Gen) /\ Res.loop_depth = Len(Gen.loop_starts)
  BY <1>1, CurrentCoherent DEF Coherent, IsContext, LoopsMatch
<1>4. Gen.loop_starts[place] \in Int
  <2>1. Len(Gen.loop_starts) \in Nat /\ Gen.loop_starts \in Seq(Nat)
    BY <1>3, LenProperties DEF IsGen
  <2>2. place \in 1..Len(Gen.loop_starts)
    BY <1>1, <1>3, <2>1
  <2> HIDE DEF place
  <2>3. Gen.loop_starts[place] \in Nat
    BY <2>1, <2>2, ElementOfSeq
  <2> QED
    BY <2>3
<1>5. Writes(n, Gen, jumped)
  BY <1>3, <1>4, WriteJumpBackWrites
<1> HIDE DEF jumped
<1>6. Writes(n, jumped, marked)
  BY <1>5, RecordsWrite DEF Writes
<1> HIDE DEF marked
<1>7. Writes(n, marked, Leaves(marked, k))
  BY <1>6, RecordsWrite DEF Writes, Leaves
<1>8. Writes(n, Gen, Leaves(marked, k))
  BY <1>5, <1>6, <1>7, WritesTransitive
<1> QED
  BY <1>1, <1>2, <1>8, WritingKeeps

\* Leaving an enclosing loop.
LEMMA BreakKeeps == ASSUME IInv, NEW k, Break(k) PROVE IInv'
<1>1. /\ phase = "compile" /\ left' \in 0..MaxStmts /\ UNCHANGED phase
      /\ UNCHANGED <<declared, program, global_bindings>>
      /\ k \in 1..Res.loop_depth
  BY StatementTakesOne DEF Break
<1> DEFINE n == Len(program)
           globals == Len(global_bindings)
           jumped == WriteJump(Gen, "Jump")
           b == [jump |-> JumpArg(jumped), loop |-> Len(jumped.loop_starts) - k]
           broken == [jumped EXCEPT !.break_backlog = @ \cup {b}]
           marked == Exits(broken, JumpArg(jumped), Loop(k).start, Unknown)
<1>2. Put(Leaves(marked, k), Res, Visits)
  BY DEF Break
<1>3. Coherent(n, Level, 0, globals, Gen, Res, Visits)
  BY <1>1, CurrentCoherent
<1>4. Writes(n, Gen, jumped)
  BY <1>3, WriteJumpWrites DEF Coherent, IsContext
<1>5. Coherent(n, Level, 0, globals, jumped, Res, Visits)
  BY <1>3, <1>4, CoherentWritten
<1> HIDE DEF jumped
<1>6. b.loop \in 0..(Len(jumped.loop_starts) - 1)
  <2>1. Res.loop_depth = Len(jumped.loop_starts)
    BY <1>5 DEF Coherent, LoopsMatch
  <2>2. Len(jumped.loop_starts) \in Nat
    BY <1>5, LenProperties DEF Coherent, IsContext, IsGen
  <2> QED
    BY <1>1, <2>1, <2>2
<1> HIDE DEF b
<1>7. Coherent(n, Level, 0, globals, broken, Res, Visits)
  BY <1>5, <1>6, CoherentBreak
<1> HIDE DEF broken
<1>8. Writes(n, broken, marked)
  BY <1>7, RecordsWrite DEF Coherent, IsContext
<1> HIDE DEF marked
<1>9. Writes(n, marked, Leaves(marked, k))
  BY <1>8, RecordsWrite DEF Writes, Leaves
<1>10. Coherent(n, Level, 0, globals, Leaves(marked, k), Res, Visits)
  BY <1>7, <1>8, <1>9, CoherentWritten
<1>11. IsTable(global_bindings') /\ declared' \in 0..Len(Tags) /\ Len(global_bindings') = globals
  BY <1>1 DEF IInv
<1> QED
  BY <1>1, <1>2, <1>10, <1>11, PutKeeps

\* The statements that change the current function only, coherently.
LEMMA CoherentPutKeeps ==
  ASSUME IInv, phase = "compile", left' \in 0..MaxStmts, UNCHANGED phase,
         UNCHANGED <<declared, program, global_bindings>>,
         NEW gen, NEW res, NEW visits, Put(gen, res, visits),
         Coherent(Len(program), Level, 0, Len(global_bindings), gen, res, visits)
  PROVE  IInv'
<1>1. /\ IsTable(global_bindings') /\ declared' \in 0..Len(Tags)
      /\ Len(global_bindings') = Len(global_bindings)
  BY DEF IInv
<1> QED
  BY <1>1, PutKeeps

\* Opening a block or a branch.
LEMMA OpeningKeeps ==
  ASSUME IInv, phase = "compile", left' \in 0..MaxStmts, UNCHANGED phase,
         NEW gen, Writes(Len(program), Gen, gen), NEW kind \in {"block", "then", "else"},
         NEW jump \in Int, NEW start \in Nat, Opening(gen, kind, jump, start)
  PROVE  IInv'
<1>1. /\ Put(gen, EnterScope(Res), Append(Visits, Visit(kind, gen.stack_size, jump, start)))
      /\ UNCHANGED <<declared, program, global_bindings>>
  BY DEF Opening
<1>2. Coherent(Len(program), Level, 0, Len(global_bindings), gen, Res, Visits)
  BY CurrentCoherent, CoherentWritten
<1>3. Coherent(Len(program), Level, 0, Len(global_bindings), gen, EnterScope(Res),
               Append(Visits, Visit(kind, gen.stack_size, jump, start)))
  BY <1>2, CurrentCoherent, CoherentOpened
<1> QED
  BY <1>1, <1>3, CoherentPutKeeps

\* A block.
LEMMA OpenBlockKeeps == ASSUME IInv, OpenBlock PROVE IInv'
<1>1. phase = "compile" /\ left' \in 0..MaxStmts /\ UNCHANGED phase
  BY StatementTakesOne DEF OpenBlock
<1>2. Writes(Len(program), Gen, Gen)
  BY <1>1, CurrentCoherent DEF Coherent, IsContext, Writes, SameBooks
<1> QED
  BY <1>1, <1>2, OpeningKeeps DEF OpenBlock

\* The condition and the jump of an if or a while.
LEMMA ConditionalJumpWrites ==
  ASSUME NEW n, NEW gen, IsGen(n, gen)
  PROVE  LET jump == WriteJump(Condition(gen), "JumpIfNot")
         IN Writes(n, gen, jump) /\ JumpArg(jump) \in Int
<1> DEFINE condition == Condition(gen)
           jump == WriteJump(condition, "JumpIfNot")
<1>1. Writes(n, gen, condition)
  BY WriteInstrWrites, Written DEF Condition
<1> HIDE DEF condition
<1>2. Writes(n, condition, jump)
  BY <1>1, WriteJumpWrites DEF Writes
<1> HIDE DEF jump
<1>3. Writes(n, gen, jump)
  BY <1>1, <1>2, WritesTransitive
<1>4. JumpArg(jump) \in Int
  BY <1>2, LenProperties DEF Writes, IsGen, JumpArg, Here
<1> QED
  BY <1>3, <1>4 DEF jump, condition

\* An if.
LEMMA BeginIfKeeps == ASSUME IInv, BeginIf PROVE IInv'
<1>1. phase = "compile" /\ left' \in 0..MaxStmts /\ UNCHANGED phase
  BY StatementTakesOne DEF BeginIf
<1> DEFINE jump == WriteJump(Condition(Gen), "JumpIfNot")
<1>2. IsGen(Len(program), Gen)
  BY <1>1, CurrentBindings
<1>3. Writes(Len(program), Gen, jump) /\ JumpArg(jump) \in Int
  BY <1>2, ConditionalJumpWrites
<1>4. Opening(jump, "then", JumpArg(jump), 0)
  BY DEF BeginIf
<1> HIDE DEF jump
<1> QED
  BY <1>1, <1>3, <1>4, OpeningKeeps

\* A while, whose condition is coded where the loop starts.
LEMMA BeginWhileKeeps == ASSUME IInv, BeginWhile PROVE IInv'
<1>1. /\ phase = "compile" /\ left' \in 0..MaxStmts /\ UNCHANGED phase
      /\ UNCHANGED <<declared, program, global_bindings>>
  BY StatementTakesOne DEF BeginWhile
<1> DEFINE n == Len(program)
           globals == Len(global_bindings)
           begun == BeginLoop(Gen)
           jump == WriteJump(Condition(begun), "JumpIfNot")
           res == EnterScope(EnterLoop(Res))
           visits == Append(Visits, Visit("while", jump.stack_size, JumpArg(jump), Here(Gen)))
<1>2. Put(jump, res, visits)
  BY DEF BeginWhile
<1>3. /\ Coherent(n, Level, 0, globals, Gen, Res, Visits)
      /\ IsGen(n, Gen) /\ globals \in Nat
  BY <1>1, CurrentCoherent DEF Coherent, IsContext
<1>4. IsGen(n, begun)
  BY <1>3, BeginLoopEffect
<1>5. Writes(n, begun, jump) /\ JumpArg(jump) \in Int
  BY <1>4, ConditionalJumpWrites
<1>6. Here(Gen) \in Nat
  BY <1>3, LenProperties DEF IsGen, Here
<1> HIDE DEF jump
<1>7. Coherent(n, Level, 0, globals, jump, res, visits)
  BY <1>3, <1>5, <1>6, CoherentLoopOpened
<1> HIDE DEF res, visits
<1> QED
  BY <1>1, <1>2, <1>7, CoherentPutKeeps

\* What closing a statement finds.
LEMMA ClosingFinds ==
  ASSUME IInv, NEW kind, Closing(kind)
  PROVE  /\ phase = "compile" /\ left' \in 0..MaxStmts /\ UNCHANGED phase
         /\ UNCHANGED <<declared, program, global_bindings>>
         /\ Visits # <<>> /\ Last(Visits).kind = kind
         /\ Coherent(Len(program), Level, 0, Len(global_bindings), Gen, Res, Visits)
         /\ Len(global_bindings) \in Nat
         /\ Visits \in Seq(OpenVisits) /\ Last(Visits) \in OpenVisits
<1>1. phase = "compile" /\ Visits # <<>>
  BY DEF Closing, Compiling
<1>2. /\ Coherent(Len(program), Level, 0, Len(global_bindings), Gen, Res, Visits)
      /\ Len(global_bindings) \in Nat
      /\ Visits \in Seq(OpenVisits)
  BY <1>1, CurrentCoherent DEF Coherent, IsContext
<1>3. Last(Visits) \in OpenVisits
  BY <1>1, <1>2, VisitClosed
<1> QED
  BY <1>1, <1>2, <1>3 DEF Closing, IInv

\* The function after the locals of a block, or a branch, are popped.
LEMMA BlockDoneCoherent ==
  ASSUME IInv, NEW kind \in {"block", "then", "else"}, Closing(kind)
  PROVE  /\ Coherent(Len(program), Level, 0, Len(global_bindings),
                     BlockDone, ExitScope(Res), Front(Visits))
         /\ IsGen(Len(program), BlockDone)
<1>1. Coherent(Len(program), Level, 0, Len(global_bindings),
               BlockDone, ExitScope(Res), Front(Visits))
  BY ClosingFinds, CoherentClosed DEF BlockDone
<1> QED
  BY <1>1 DEF Coherent, IsContext

\* The end of a block.
LEMMA CloseBlockKeeps == ASSUME IInv, CloseBlock PROVE IInv'
<1>1. Closing("block") /\ Put(BlockDone, ExitScope(Res), Front(Visits))
  BY DEF CloseBlock
<1>2. /\ phase = "compile" /\ left' \in 0..MaxStmts /\ UNCHANGED phase
      /\ UNCHANGED <<declared, program, global_bindings>>
  BY <1>1, ClosingFinds
<1>3. Coherent(Len(program), Level, 0, Len(global_bindings),
               BlockDone, ExitScope(Res), Front(Visits))
  BY <1>1, BlockDoneCoherent
<1> QED
  BY <1>1, <1>2, <1>3, CoherentPutKeeps

\* The end of a branch, to which the jump over it leads.
LEMMA BranchEndKeeps ==
  ASSUME IInv, NEW kind \in {"then", "else"}, Closing(kind),
         Put(PatchJumpToNext(BlockDone, Last(Visits).jump), ExitScope(Res), Front(Visits))
  PROVE  IInv'
<1> DEFINE patched == PatchJumpToNext(BlockDone, Last(Visits).jump)
<1>1. /\ phase = "compile" /\ left' \in 0..MaxStmts /\ UNCHANGED phase
      /\ UNCHANGED <<declared, program, global_bindings>>
  BY ClosingFinds
<1>2. /\ Coherent(Len(program), Level, 0, Len(global_bindings),
                  BlockDone, ExitScope(Res), Front(Visits))
      /\ IsGen(Len(program), BlockDone)
  BY BlockDoneCoherent
<1>3. Writes(Len(program), BlockDone, patched)
  BY <1>2, PatchWrites DEF PatchJumpToNext
<1> HIDE DEF patched
<1>4. Coherent(Len(program), Level, 0, Len(global_bindings),
               patched, ExitScope(Res), Front(Visits))
  BY <1>2, <1>3, CoherentWritten
<1> QED
  BY <1>1, <1>4, CoherentPutKeeps DEF patched

\* The end of an if, and of its false branch.
LEMMA EndIfKeeps == ASSUME IInv, EndIf \/ EndElse PROVE IInv'
BY BranchEndKeeps DEF EndIf, EndElse

\* The true branch ends where the false one begins.
LEMMA BeginElseKeeps == ASSUME IInv, BeginElse PROVE IInv'
<1> DEFINE n == Len(program)
           globals == Len(global_bindings)
           jumped == WriteJump(BlockDone, "Jump")
           patched == PatchJumpToNext(jumped, Last(Visits).jump)
           visit == Visit("else", jumped.stack_size, JumpArg(jumped), 0)
<1>1. /\ Closing("then")
      /\ Put(patched, EnterScope(ExitScope(Res)), Append(Front(Visits), visit))
  BY DEF BeginElse
<1>2. /\ phase = "compile" /\ left' \in 0..MaxStmts /\ UNCHANGED phase
      /\ UNCHANGED <<declared, program, global_bindings>>
      /\ globals \in Nat
  BY <1>1, ClosingFinds
<1>3. /\ Coherent(n, Level, 0, globals, BlockDone, ExitScope(Res), Front(Visits))
      /\ IsGen(n, BlockDone)
  BY <1>1, BlockDoneCoherent
<1>4. Writes(n, BlockDone, jumped)
  BY <1>3, WriteJumpWrites
<1>5. JumpArg(jumped) \in Int
  BY <1>4, LenProperties DEF Writes, IsGen, JumpArg, Here
<1> HIDE DEF jumped
<1>6. Writes(n, jumped, patched)
  BY <1>4, PatchWrites DEF Writes, PatchJumpToNext
<1> HIDE DEF patched
<1>7. Writes(n, BlockDone, patched)
  BY <1>4, <1>6, WritesTransitive
<1>8. Coherent(n, Level, 0, globals, patched, ExitScope(Res), Front(Visits))
  BY <1>3, <1>7, CoherentWritten
<1>9. visit = Visit("else", patched.stack_size, JumpArg(jumped), 0)
  BY <1>6 DEF Writes, SameBooks
<1>10. Coherent(n, Level, 0, globals, patched, EnterScope(ExitScope(Res)),
                Append(Front(Visits), visit))
  <2>1. 0 \in Nat /\ "else" \in {"block", "then", "else"}
    OBVIOUS
  <2> HIDE DEF visit
  <2> QED
    BY <1>2, <1>5, <1>8, <1>9, <2>1, CoherentOpened
<1> HIDE DEF visit
<1> QED
  BY <1>1, <1>2, <1>10, CoherentPutKeeps

\* The end of a loop.
LEMMA EndWhileKeeps == ASSUME IInv, EndWhile PROVE IInv'
<1> DEFINE n == Len(program)
           globals == Len(global_bindings)
           visit == Last(Visits)
           back == WriteJumpBack(BlockDone, visit.start)
           patched == PatchJumpToNext(back, visit.jump)
           ended == EndLoop(patched)
           landed == Landed(ended, visit.start)
           res == ExitLoop(ExitScope(Res))
<1>1. Closing("while") /\ Put(landed, res, Front(Visits))
  BY DEF EndWhile
<1>2. /\ phase = "compile" /\ left' \in 0..MaxStmts /\ UNCHANGED phase
      /\ UNCHANGED <<declared, program, global_bindings>>
      /\ globals \in Nat
      /\ Coherent(n, Level, 0, globals, Gen, Res, Visits)
      /\ Visits # <<>> /\ Last(Visits).kind = "while"
      /\ Last(Visits) \in OpenVisits
  BY <1>1, ClosingFinds
<1>3. IsGen(n, BlockDone) /\ visit.start \in Int
  BY <1>2, PopLocalsEffect DEF Coherent, IsContext, BlockDone, OpenVisits
<1>4. Writes(n, BlockDone, back)
  BY <1>3, WriteJumpBackWrites
<1> HIDE DEF back
<1>5. Writes(n, back, patched)
  BY <1>4, PatchWrites DEF Writes, PatchJumpToNext
<1> HIDE DEF patched
<1>6. Writes(n, BlockDone, patched)
  BY <1>4, <1>5, WritesTransitive
<1>7. Coherent(n, Level, 0, globals, ended, res, Front(Visits))
  BY <1>2, <1>6, CoherentLoopClosed DEF BlockDone
<1> HIDE DEF ended
<1>8. Writes(n, ended, landed)
  BY <1>7, RecordsWrite DEF Coherent, IsContext
<1> HIDE DEF landed
<1>9. Coherent(n, Level, 0, globals, landed, res, Front(Visits))
  BY <1>7, <1>8, CoherentWritten
<1> HIDE DEF res
<1> QED
  BY <1>1, <1>2, <1>9, CoherentPutKeeps

\* Declaring a variable whose value has been coded.
LEMMA DeclareKeeps ==
  ASSUME IInv, phase = "compile", left' \in 0..MaxStmts, UNCHANGED phase,
         declared' \in 0..Len(Tags), UNCHANGED program,
         NEW gen, Writes(Len(program), Gen, gen), NEW d, IsDeclaration(d), Declare(gen, d)
  PROVE  IInv'
<1> DEFINE n == Len(program)
           globals == Len(global_bindings)
           more == DeclareGlobal(Res, global_bindings, d)
           res == DeclareLocal(Res, d)
<1>1. Put(NewVar(gen), res, Visits) /\ global_bindings' = more
  BY DEF Declare
<1>2. /\ Coherent(n, Level, 0, globals, gen, Res, Visits)
      /\ IsTable(global_bindings) /\ IsResolver(Res) /\ Level \in 1..2
  BY CurrentCoherent, CoherentWritten DEF IInv, Coherent, IsContext
<1>3. Coherent(n, Level, 1, Len(more), gen, res, Visits)
  BY <1>2, CoherentPromised
<1>4. Level = 2 => more = global_bindings
  BY <1>2 DEF DeclareGlobal, InGlobalScope, Coherent, IsContext
<1>5. IsTable(more)
  BY <1>2, DeclareEffect
<1> HIDE DEF more, res
<1>6. Len(more) \in Nat
  BY <1>5, Places DEF IsTable
<1>7. Coherent(n, Level, 0, Len(more), NewVar(gen), res, Visits)
  BY <1>3, <1>6, CoherentFulfilled
<1> QED
  BY <1>1, <1>5, <1>7, <1>4, PutKeeps

\* A variable that is given a literal,
LEMMA VarKeeps == ASSUME IInv, NEW name, VarStmt(name) PROVE IInv'
<1>1. phase = "compile" /\ left' \in 0..MaxStmts /\ UNCHANGED phase
  BY StatementTakesOne DEF VarStmt
<1> DEFINE tag == Tags[declared + 1]
           gen == NewConstant(Gen, [t |-> "Int", within |-> "None", v |-> tag])
           d == VarData(name, [t |-> "Int", f |-> 0], <<>>, "None", tag)
<1>2. Declare(gen, d) /\ declared' = declared + 1 /\ declared < Len(Tags) /\ UNCHANGED program
  BY DEF VarStmt
<1>3. Len(Tags) \in Nat /\ declared \in Nat
  BY CompilerAssumption, LenProperties DEF IInv
<1>4. declared' \in 0..Len(Tags)
  BY <1>2, <1>3
<1>5. tag \in Int
  <2>1. Tags \in Seq(-128..127) /\ declared + 1 \in 1..Len(Tags)
    BY <1>2, <1>3, CompilerAssumption
  <2>2. tag \in -128..127
    BY <2>1, ElementOfSeq
  <2> HIDE DEF tag
  <2> QED
    BY <2>2
<1> HIDE DEF tag
<1>6. IsDeclaration(d)
  <2>1. [t |-> "Int", f |-> 0].f \in Int
    OBVIOUS
  <2> QED
    BY <1>5, <2>1, VarDataIsDeclaration
<1>7. IsGen(Len(program), Gen)
  BY <1>1, CurrentBindings
<1>8. Writes(Len(program), Gen, gen)
  BY <1>5, <1>7, IntIsConstant, NewConstantWrites
<1> HIDE DEF gen, d
<1> QED
  BY <1>1, <1>2, <1>4, <1>6, <1>8, DeclareKeeps

\* one that is given nothing,
LEMMA VarAnyKeeps == ASSUME IInv, NEW name, VarAnyStmt(name) PROVE IInv'
<1>1. phase = "compile" /\ left' \in 0..MaxStmts /\ UNCHANGED phase
  BY StatementTakesOne DEF VarAnyStmt
<1> DEFINE none == WriteInstr(Gen, "None")
           gen == WriteInstr(none, "WrapAny")
           d == VarData(name, [t |-> "Any", f |-> 0], <<>>, "None", 0)
<1>2. Declare(gen, d) /\ declared' \in 0..Len(Tags) /\ UNCHANGED program
  BY DEF VarAnyStmt, IInv
<1>3. IsDeclaration(d)
  <2>1. [t |-> "Any", f |-> 0].f \in Int /\ 0 \in Int
    OBVIOUS
  <2> QED
    BY <2>1, VarDataIsDeclaration
<1>4. IsGen(Len(program), Gen)
  BY <1>1, CurrentBindings
<1>5. Writes(Len(program), Gen, none)
  BY <1>4, WriteInstrWrites, Written
<1>6. Writes(Len(program), none, gen)
  BY <1>5, WriteInstrWrites, Written DEF Writes
<1>7. Writes(Len(program), Gen, gen)
  BY <1>5, <1>6, WritesTransitive
<1> HIDE DEF gen, d
<1> QED
  BY <1>1, <1>2, <1>3, <1>7, DeclareKeeps

\* and the name of a struct.
LEMMA StructKeeps == ASSUME IInv, StructStmt PROVE IInv'
<1>1. phase = "compile" /\ left' \in 0..MaxStmts /\ UNCHANGED phase
  BY StatementTakesOne DEF StructStmt
<1> DEFINE gen == WriteIndexed(Gen, "GetGlobal", NewObj - 1)
           d == VarData(StructName, [t |-> "NativeFunc", f |-> NewObj], <<"Int">>, "Object", 0)
<1>2. Declare(gen, d) /\ declared' \in 0..Len(Tags) /\ UNCHANGED program
  BY DEF StructStmt, IInv
<1>3. NewObj \in Int
  BY RegistryAssumption, LenProperties
<1>4. IsDeclaration(d)
  <2>1. [t |-> "NativeFunc", f |-> NewObj].f \in Int /\ 0 \in Int
    BY <1>3
  <2> QED
    BY <2>1, VarDataIsDeclaration
<1>5. IsGen(Len(program), Gen)
  BY <1>1, CurrentBindings
<1>6. Writes(Len(program), Gen, gen)
  <2>1. NewObj - 1 \in Int
    BY <1>3
  <2> QED
    BY <1>5, <2>1, WriteIndexedWrites, Written
<1> HIDE DEF gen, d
<1> QED
  BY <1>1, <1>2, <1>4, <1>6, DeclareKeeps

(***************************************************************************)
(* Functions.                                                              *)
(***************************************************************************)
\* A function's first locals are itself and its parameters.
LEMMA FunctionResolverEffect ==
  ASSUME NEW function \in Int, NEW params, IsSequence(params), NEW ret_type
  PROVE  LET res == FunctionResolver(function, params, ret_type)
         IN /\ IsResolver(res) /\ ~res.is_global
            /\ res.depth = 0 /\ res.loop_depth = 0
            /\ Len(res.local_bindings) = 1 + Len(params)
            /\ \A q \in DOMAIN res.local_bindings : res.local_bindings[q].depth = 0
<1> DEFINE self == SelfData(function, params, ret_type)
           param(k) == VarData(ParamNames[k], [t |-> params[k], f |-> 0], <<>>, "None",
                               ParamTag(function, k))
           given == [k \in DOMAIN params |-> param(k)]
           first == <<self>>
           locals == first \o given
           Declared == {d \in Range(first) \cup Range(given) : IsDeclaration(d) /\ d.depth = 0}
<1>1. Len(params) \in Nat /\ DOMAIN params = 1..Len(params)
  BY Places
<1>2. IsDeclaration(self) /\ self.depth = 0
  <2>1. [t |-> "Function", f |-> function].f \in Int /\ 0 \in Int
    OBVIOUS
  <2>2. IsDeclaration(self)
    BY <2>1, VarDataIsDeclaration DEF SelfData
  <2> QED
    BY <2>2 DEF SelfData, VarData
<1>3. ASSUME NEW k \in DOMAIN params PROVE IsDeclaration(param(k)) /\ param(k).depth = 0
  <2>1. [t |-> params[k], f |-> 0].f \in Int /\ ParamTag(function, k) \in Int
    BY <1>1 DEF ParamTag
  <2>2. IsDeclaration(param(k))
    BY <2>1, VarDataIsDeclaration
  <2> QED
    BY <2>2 DEF VarData
<1> HIDE DEF self, param
<1>4. first \in Seq(Declared) /\ Len(first) = 1
  <2>1. self \in Declared
    BY <1>2 DEF Range
  <2> HIDE DEF Declared
  <2> QED
    BY <2>1
<1>5. given \in Seq(Declared) /\ Len(given) = Len(params)
  <2>1. \A k \in DOMAIN params : param(k) \in Declared
    BY <1>3 DEF Range
  <2> HIDE DEF Declared
  <2>2. given \in [1..Len(params) -> Declared]
    BY <1>1, <2>1
  <2> QED
    BY <1>1, <2>2
<1>6. \A d \in Declared : IsDeclaration(d) /\ d.depth = 0
  OBVIOUS
<1> HIDE DEF first, given, Declared
<1>7. locals \in Seq(Declared) /\ Len(locals) = 1 + Len(params)
  BY <1>4, <1>5, ConcatProperties
<1> HIDE DEF locals
<1>8. \A q \in DOMAIN locals : locals[q] \in Declared
  BY <1>7, LenProperties, ElementOfSeq
<1>9. IsTable(locals) /\ \A q \in DOMAIN locals : locals[q].depth = 0
  BY <1>6, <1>7, <1>8, SeqIsSequence DEF IsTable
<1>10. FunctionResolver(function, params, ret_type)
         = [NewResolver(FALSE, ret_type) EXCEPT !.local_bindings = locals]
  BY DEF FunctionResolver, locals, first, given, self, param
<1>11. IsResolver(FunctionResolver(function, params, ret_type))
  BY <1>9, <1>10 DEF IsResolver, NewResolver
<1>12. FunctionResolver(function, params, ret_type).local_bindings = locals
  BY <1>10 DEF NewResolver
<1>13. LET res == FunctionResolver(function, params, ret_type)
       IN ~res.is_global /\ res.depth = 0 /\ res.loop_depth = 0
  BY <1>10 DEF NewResolver
<1> QED
  BY <1>7, <1>9, <1>11, <1>12, <1>13

\* The main script alone.
LEMMA CompiledOne ==
  ASSUME NEW n, NEW globals, NEW gen, NEW res, NEW visits,
         Coherent(n, 1, 0, globals, gen, res, visits)
  PROVE  Compiled(<<Context(gen, res, visits)>>, n, globals)
<1> DEFINE c == Context(gen, res, visits)
<1>1. IsSequence(<<c>>) /\ Len(<<c>>) = 1 /\ DOMAIN <<c>> = 1..1 /\ <<c>>[1] = c
  BY SmallSequences
<1>2. Coherent(n, 1, 0, globals, c.gen, c.res, c.visits)
  BY CoherentBoundary DEF Context
<1> HIDE DEF c
<1>3. \A i \in 1..1 : i = 1 /\ ~(i < 1)
  OBVIOUS
<1> QED
  BY <1>1, <1>2, <1>3 DEF Compiled, c

\* While a function is under compilation, its declaration is pending.
LEMMA CompiledTwo ==
  ASSUME NEW n, NEW globals, NEW gen, NEW res, NEW visits,
         Coherent(n, 1, 1, globals, gen, res, visits),
         NEW gen2, NEW res2, NEW visits2, Coherent(n, 2, 0, globals, gen2, res2, visits2)
  PROVE  Compiled(<<Context(gen, res, visits), Context(gen2, res2, visits2)>>, n, globals)
<1> DEFINE c == Context(gen, res, visits)
           d == Context(gen2, res2, visits2)
           both == <<c, d>>
<1>1. /\ Coherent(n, 1, 1, globals, c.gen, c.res, c.visits)
      /\ Coherent(n, 2, 0, globals, d.gen, d.res, d.visits)
  BY CoherentBoundary DEF Context
<1> HIDE DEF c, d
<1>2. both \in Seq({c, d}) /\ Len(both) = 2 /\ both[1] = c /\ both[2] = d
  OBVIOUS
<1>3. IsSequence(both) /\ DOMAIN both = 1..2
  BY <1>2, SeqIsSequence, Places
<1> HIDE DEF both
<1>4. ASSUME NEW i \in 1..2
      PROVE  Coherent(n, i, IF i < 2 THEN 1 ELSE 0, globals,
                      both[i].gen, both[i].res, both[i].visits)
  <2>1. CASE i = 1
    BY <1>1, <1>2, <2>1
  <2>2. CASE i = 2
    BY <1>1, <1>2, <2>2
  <2> QED
    BY <2>1, <2>2
<1> QED
  BY <1>2, <1>3, <1>4 DEF Compiled, both, c, d

\* A function is declared in the main script, and its body begun.
LEMMA BeginFuncKeeps ==
  ASSUME IInv, NEW ret_type \in RetTypes, NEW n \in 0..MaxParams, BeginFunc(ret_type, n)
  PROVE  IInv'
<1>1. /\ phase = "compile" /\ left' \in 0..MaxStmts /\ UNCHANGED phase
      /\ Level = 1 /\ UNCHANGED <<declared, program>>
  BY StatementTakesOne DEF BeginFunc
<1> DEFINE count == Len(program)
           params == [k \in 1..n |-> "Int"]
           self == SelfData(FunctionId, params, ret_type)
           more == DeclareGlobal(Res, global_bindings, self)
           gen2 == NewGenerator(params, ret_type)
           res2 == FunctionResolver(FunctionId, params, ret_type)
<1>2. /\ contexts' = <<Context(Gen, DeclareLocal(Res, self), Visits), Context(gen2, res2, <<>>)>>
      /\ global_bindings' = more
  BY DEF BeginFunc
<1>3. /\ Coherent(count, 1, 0, Len(global_bindings), Gen, Res, Visits)
      /\ count \in Nat /\ IsResolver(Res) /\ IsTable(global_bindings)
  BY <1>1, CurrentCoherent DEF IInv, Coherent, IsContext
<1>4. IsSequence(params) /\ params \in Seq(Types) /\ Len(params) = n /\ n \in Nat
  <2>1. n \in Nat
    BY CompilerAssumption
  <2>2. params \in Seq(Types) /\ Len(params) = n
    BY <2>1 DEF Types
  <2> QED
    BY <2>1, <2>2, SeqIsSequence
<1>5. ret_type \in {"None", "Int", "Any"}
  BY CompilerAssumption
<1>6. FunctionId \in Int
  BY <1>3 DEF FunctionId
<1> HIDE DEF params
<1>7. IsDeclaration(self)
  <2>1. [t |-> "Function", f |-> FunctionId].f \in Int /\ 0 \in Int
    BY <1>6
  <2> QED
    BY <2>1, VarDataIsDeclaration DEF SelfData
<1> HIDE DEF self
<1>8. IsTable(more) /\ Coherent(count, 1, 1, Len(more), Gen, DeclareLocal(Res, self), Visits)
  BY <1>3, <1>7, DeclareEffect, CoherentPromised
<1> HIDE DEF more
<1>9. /\ IsResolver(res2) /\ (res2.is_global <=> 2 = 1)
      /\ res2.depth = 0 /\ res2.loop_depth = 0
      /\ Len(res2.local_bindings) = 1 + n
      /\ \A q \in DOMAIN res2.local_bindings : res2.local_bindings[q].depth = 0
  BY <1>4, <1>6, FunctionResolverEffect
<1>10. Below(2, gen2, Len(more)) = 1 + n
  <2>1. gen2.params = params
    BY NewGeneratorIsGen
  <2> QED
    BY <1>4, <2>1 DEF Below, Base
<1> HIDE DEF res2
<1>11. Coherent(count, 2, 0, Len(more), gen2, res2, <<>>)
  BY <1>4, <1>5, <1>9, <1>10, CoherentNew
<1> HIDE DEF gen2
<1>12. Compiled(contexts', count, Len(more))
  BY <1>2, <1>8, <1>11, CompiledTwo
<1> QED
  BY <1>1, <1>2, <1>8, <1>12 DEF IInv

\* The end of a function's code is written like the rest.
LEMMA EpilogueWrites ==
  ASSUME NEW n, NEW gen, IsGen(n, gen), gen.ret_type \in {"None", "Int", "Any"}
  PROVE  Writes(n, gen, Epilogue(gen))
<1> DEFINE value == NewConstant(gen, Dummy(gen.ret_type))
<1>1. Dummy(gen.ret_type) \in Constant(n)
  BY DEF Dummy, Constant, Value, Types
<1>2. Writes(n, gen, value)
  BY <1>1, NewConstantWrites
<1> HIDE DEF value
<1>3. Writes(n, value, WriteInstr(value, "Return"))
  BY <1>2, WriteInstrWrites, Written DEF Writes
<1>4. CASE EndsInReturn(gen)
  BY <1>4 DEF Epilogue, Writes, SameBooks
<1>5. CASE ~EndsInReturn(gen)
  BY <1>2, <1>3, <1>5, WritesTransitive DEF Epilogue, value
<1> QED
  BY <1>4, <1>5

\* What is finished is a function.
LEMMA FinishedIsFunction ==
  ASSUME NEW n, NEW old, NEW new, Writes(n, old, new), NEW covered,
         old.params \in Seq(Types), old.ret_type \in {"None", "Int", "Any"}
  PROVE  IsFinished(n, Finished(new, covered))
<1>1. new.ret_type \in Types
  BY DEF Writes, SameBooks, Types
<1> QED
  BY <1>1 DEF IsFinished, Finished, Writes, SameBooks, IsGen

\* A function stays one in a program with more of them.
LEMMA MoreFinished ==
  ASSUME NEW n \in Nat, NEW f, IsFinished(n, f)
  PROVE  IsFinished(n + 1, f)
<1>1. Constant(n) \subseteq Constant(n + 1)
  BY DEF Constant
<1> QED
  BY <1>1, SeqMonotonic DEF IsFinished

\* A program takes one more function.
LEMMA ProgramAppended ==
  ASSUME IInv, NEW f, IsFinished(Len(program), f), program' = Append(program, f)
  PROVE  /\ IsSequence(program') /\ Len(program') = Len(program) + 1 /\ program' # <<>>
         /\ \A i \in DOMAIN program' : IsFinished(Len(program'), program'[i])
<1> DEFINE n == Len(program)
<1>1. /\ IsSequence(program) /\ DOMAIN program = 1..n /\ n \in Nat
      /\ \A i \in DOMAIN program : IsFinished(n, program[i])
  BY Places DEF IInv
<1>2. /\ IsSequence(program') /\ Len(program') = n + 1
      /\ DOMAIN program' = 1..(n + 1)
      /\ \A i \in 1..n : program'[i] = program[i]
      /\ program'[n + 1] = f
  BY <1>1, Appended
<1>3. IsFinished(n + 1, f) /\ \A i \in 1..n : IsFinished(n + 1, program[i])
  BY <1>1, MoreFinished
<1> HIDE DEF n
<1>4. ASSUME NEW i \in 1..(n + 1) PROVE IsFinished(n + 1, program'[i])
  <2>1. CASE i \in 1..n
    BY <1>2, <1>3, <2>1
  <2>2. CASE i = n + 1
    BY <1>2, <1>3, <2>2
  <2> QED
    BY <1>1, <2>1, <2>2
<1>5. program' # <<>>
  BY <1>1, <1>2, EmptySeq
<1> QED
  BY <1>2, <1>4, <1>5 DEF n

\* A function is finished, and becomes a variable of the main script.
LEMMA EndFuncKeeps == ASSUME IInv, EndFunc PROVE IInv'
<1> DEFINE n == Len(program)
           globals == Len(global_bindings)
           ended == Epilogue(Gen)
           outer == contexts[1]
           value == [t |-> "Function", within |-> "None", v |-> FunctionId]
           noted == [outer.gen EXCEPT !.panicked = @ \/ ended.panicked, !.sealed = FALSE]
           gen == NewConstant(noted, value)
           finished == Finished(ended, Gen.sealed \/ ~EndsInReturn(Gen))
<1>1. /\ phase = "compile" /\ Level = 2
      /\ UNCHANGED <<global_bindings, phase, left, declared>>
      /\ program' = Append(program, finished)
      /\ contexts' = <<Context(NewVar(gen), outer.res, outer.visits)>>
  BY DEF EndFunc, Compiling
<1>2. /\ Coherent(n, 1, 1, globals, outer.gen, outer.res, outer.visits)
      /\ n \in Nat /\ globals \in Nat
  <2>1. 1 \in DOMAIN contexts /\ 1 < Len(contexts)
    BY <1>1, Places DEF IInv, Compiled, Level
  <2>2. Compiled(contexts, n, globals)
    BY <1>1 DEF IInv
  <2> QED
    BY <1>1, <2>1, <2>2, CurrentCoherent DEF Compiled
<1>3. Coherent(n + 1, 1, 1, globals, outer.gen, outer.res, outer.visits)
  BY <1>2, CoherentMoreFunctions
<1>4. value \in Constant(n + 1)
  BY <1>2 DEF Constant, Value, Types, FunctionId
<1>5. IsFinished(n, finished)
  <2>1. IsGen(n, Gen) /\ Gen.params \in Seq(Types) /\ Gen.ret_type \in {"None", "Int", "Any"}
    BY <1>1, CurrentCoherent DEF Coherent, IsContext
  <2>2. Writes(n, Gen, ended)
    BY <2>1, EpilogueWrites
  <2> HIDE DEF ended
  <2> QED
    BY <2>1, <2>2, FinishedIsFunction
<1> HIDE DEF value, finished, ended
<1>6. Writes(n + 1, outer.gen, noted)
  <2>1. IsGen(n + 1, outer.gen)
    BY <1>3 DEF Coherent, IsContext
  <2> QED
    BY <2>1 DEF IsGen, Writes, SameBooks, GenFields
<1> HIDE DEF noted
<1>7. Writes(n + 1, noted, gen)
  BY <1>4, <1>6, NewConstantWrites DEF Writes
<1> HIDE DEF gen
<1>8. Coherent(n + 1, 1, 1, globals, gen, outer.res, outer.visits)
  BY <1>3, <1>6, <1>7, WritesTransitive, CoherentWritten
<1>9. Coherent(n + 1, 1, 0, globals, NewVar(gen), outer.res, outer.visits)
  BY <1>2, <1>8, CoherentFulfilled
<1>10. Compiled(contexts', n + 1, globals)
  BY <1>1, <1>9, CompiledOne
<1>11. /\ IsSequence(program') /\ Len(program') = n + 1
       /\ \A i \in DOMAIN program' : IsFinished(Len(program'), program'[i])
  BY <1>1, <1>5, ProgramAppended
<1> QED
  BY <1>1, <1>10, <1>11 DEF IInv

\* The main script is finished.
LEMMA FinishKeeps == ASSUME IInv, Finish PROVE IInv'
<1> DEFINE n == Len(program)
           value == WriteInstr(Gen, "None")
           returned == WriteInstr(value, "Return")
           finished == Finished(returned, TRUE)
<1>1. /\ phase = "compile" /\ phase' = "compiled" /\ contexts' = <<>>
      /\ left' = 0 /\ declared' = 0 /\ UNCHANGED global_bindings
      /\ program' = Append(program, finished)
  BY DEF Finish, Compiling
<1>2. IsGen(n, Gen) /\ Gen.params \in Seq(Types) /\ Gen.ret_type \in {"None", "Int", "Any"}
  BY <1>1, CurrentCoherent DEF Coherent, IsContext
<1>3. Writes(n, Gen, value)
  BY <1>2, WriteInstrWrites, Written
<1> HIDE DEF value
<1>4. Writes(n, value, returned)
  BY <1>3, WriteInstrWrites, Written DEF Writes
<1> HIDE DEF returned
<1>5. IsFinished(n, finished)
  BY <1>2, <1>3, <1>4, WritesTransitive, FinishedIsFunction
<1> HIDE DEF finished
<1>6. /\ IsSequence(program') /\ program' # <<>>
      /\ \A i \in DOMAIN program' : IsFinished(Len(program'), program'[i])
  BY <1>1, <1>5, ProgramAppended
<1>7. 0 \in 0..MaxStmts /\ 0 \in 0..Len(Tags)
  BY CompilerAssumption, LenProperties
<1> QED
  BY <1>1, <1>6, <1>7 DEF IInv

\* A compilation that cannot go on.
LEMMA AbortKeeps == ASSUME IInv, Abort PROVE IInv'
BY DEF IInv, Abort

(***************************************************************************)
(* The theorems.                                                           *)
(***************************************************************************)
\* Every statement keeps the invariant.
LEMMA CompileKeeps == ASSUME IInv, Compile PROVE IInv'
<1>1. ASSUME NEW name, VarStmt(name) \/ VarAnyStmt(name) PROVE IInv'
  BY <1>1, VarKeeps, VarAnyKeeps
<1>2. ASSUME NEW name, AssignStmt(name) \/ YieldStmt(name) PROVE IInv'
  BY <1>2, AssignKeeps, YieldKeeps
<1>3. ASSUME OpenBlock \/ CloseBlock \/ BeginWhile \/ EndWhile PROVE IInv'
  BY <1>3, OpenBlockKeeps, CloseBlockKeeps, BeginWhileKeeps, EndWhileKeeps
<1>4. ASSUME BeginIf \/ EndIf \/ BeginElse \/ EndElse PROVE IInv'
  BY <1>4, BeginIfKeeps, EndIfKeeps, BeginElseKeeps
<1>5. ASSUME NEW k, Break(k) \/ Continue(k) PROVE IInv'
  BY <1>5, BreakKeeps, ContinueKeeps
<1>6. ASSUME NEW ret_type \in RetTypes, NEW n \in 0..MaxParams, BeginFunc(ret_type, n)
      PROVE  IInv'
  BY <1>6, BeginFuncKeeps
<1>7. ASSUME EndFunc \/ StructStmt PROVE IInv'
  BY <1>7, EndFuncKeeps, StructKeeps
<1>8. ASSUME NEW name, CallStmt(name) \/ PrintCall(name) PROVE IInv'
  BY <1>8, CallKeeps, PrintCallKeeps
<1>9. ASSUME ReturnStmt \/ ReturnValue \/ Finish \/ Abort PROVE IInv'
  BY <1>9, ReturnStmtKeeps, ReturnValueKeeps, FinishKeeps, AbortKeeps
<1> QED
  BY <1>1, <1>2, <1>3, <1>4, <1>5, <1>6, <1>7, <1>8, <1>9 DEF Compile

\* The machine does not touch the program it runs.
LEMMA CycleKeepsProgram == ASSUME Cycle PROVE UNCHANGED program
BY DEF Cycle, Same, Replace, StoreAt, Pass, PushLiteral, GetLocal, SetLocal, GetGlobal,
       SetGlobal, Pop, Jump, JumpIfNot, CallUser, CallNative, NewObject, Return, FieldGet,
       FieldSet, UnwrapAny, WrapAny, ValEqual, Compute, ArithmeticPanic, TESTTakeInput,
       TESTYield, Crash, Fault

\* Neither does starting it.
LEMMA StartKeeps == ASSUME IInv, Start PROVE IInv'
BY DEF IInv, Start

\* Nor does a step of the machine, which only reads the program.
LEMMA RunStepKeeps == ASSUME IInv, RunStep PROVE IInv'
BY CycleKeepsProgram DEF IInv, RunStep

\* The invariant holds in every state, for every program and every bound.
THEOREM InvariantHolds == Spec => []IInv
<1>1. ASSUME IInv, [Next]_vars PROVE IInv'
  <2>1. CASE CompileStep
    BY <1>1, <2>1, CompileKeeps DEF CompileStep
  <2>2. CASE Start
    BY <1>1, <2>2, StartKeeps
  <2>3. CASE RunStep
    BY <1>1, <2>3, RunStepKeeps
  <2>4. CASE UNCHANGED vars
    BY <1>1, <2>4 DEF IInv, vars, compilerVars
  <2> QED
    BY <1>1, <2>1, <2>2, <2>3, <2>4 DEF Next
<1> QED
  BY <1>1, InitEstablishes, PTL DEF Spec

\* What the compiler keeps is well-typed: code is bytes, whatever is written,
\* cut or patched, and a function that is finished has code.
THEOREM CompilerTypesHold == Spec => []CompilerTypeOK
BY InvariantHolds, InvariantSuffices, PTL

\* The slot that the analysis gives a name is where the generated code leaves
\* its value, at every point of every program.
THEOREM SlotsAlwaysAgree == Spec => []SlotsAgree
BY InvariantHolds, InvariantSuffices, PTL

\* The loops that the analysis counts are those that the generator has open,
\* and every break that waits names one of them.
THEOREM LoopsAlwaysAgree == Spec => []LoopsAgree
BY InvariantHolds, InvariantSuffices, PTL

(***************************************************************************)
(* The run of what was compiled.                                           *)
(***************************************************************************)
\* The machine is handed a program: the constants of its functions are values, and
\* one that is a function is a function of the program.
LEMMA CompiledIsProgram ==
  ASSUME IInv, phase \in {"compiled", "running"}
  PROVE  IsProgram(program)
<1>1. /\ IsSequence(program) /\ DOMAIN program = 1..Len(program) /\ program # <<>>
      /\ \A k \in DOMAIN program : IsFinished(Len(program), program[k])
  BY Places DEF IInv
<1>2. Constant(Len(program)) \subseteq Value
  BY DEF Constant
<1>3. ASSUME NEW k \in DOMAIN program
      PROVE  /\ program[k].code \in Seq(Byte)
             /\ program[k].constants \in Seq(Value)
             /\ program[k].params \in Seq(Types) /\ program[k].ret_type \in Types
             /\ \A x \in Range(program[k].constants) : x \in Constant(Len(program))
  <2>1. IsFinished(Len(program), program[k])
    BY <1>1
  <2>2. program[k].constants \in Seq(Value)
    BY <1>2, <2>1, SeqMonotonic DEF IsFinished
  <2>3. \A x \in Range(program[k].constants) : x \in Constant(Len(program))
    BY <2>1, LenProperties, ElementOfSeq DEF IsFinished, Range
  <2> QED
    BY <2>1, <2>2, <2>3 DEF IsFinished
<1>4. \A k \in DOMAIN program : \A x \in Range(program[k].constants) :
         x.t \in {"Function", "NativeFunc", "Object"} => x.t = "Function" /\ x.v \in DOMAIN program
  BY <1>1, <1>3 DEF Constant
<1> QED
  BY <1>1, <1>3, <1>4 DEF IsProgram, IsSequence

\* A run starts like one on any bytecode.
LEMMA StartBoots ==
  ASSUME IInv, Start
  PROVE  IsProgram(program) /\ IsProgram(program') /\ Boot(MainId)'
<1>1. program' = program /\ MainId' = MainId /\ phase = "compiled"
  BY DEF Start, MainId
<1>2. IsProgram(program)
  BY <1>1, CompiledIsProgram
<1> QED
  BY <1>1, <1>2 DEF Start, Boot, MainId

\* What BootHolds and BootAccepted say of a state, they say of the next one.
LEMMA BootNext ==
  /\ IsProgram(program') /\ Boot(MainId)' => MachineOK'
  /\ \A globals, tables, needs :
        IsProgram(program') /\ Boot(MainId)' /\ TablesOK(globals, tables)' /\ NeedsOK(globals, tables, needs)'
           => Accepted(globals, tables, needs)'
<1> DEFINE Boots == IsProgram(program) /\ Boot(MainId)
           Right == \A globals, tables, needs :
                       Boots /\ TablesOK(globals, tables) /\ NeedsOK(globals, tables, needs)
                          => Accepted(globals, tables, needs)
<1>1. Boots => MachineOK
  BY BootHolds
<1>2. Right
  BY BootAccepted
<1>3. Boots' => MachineOK'
  BY <1>1, PTL
<1>4. Right'
  BY <1>2, PTL
<1> QED
  BY <1>3, <1>4

\* The invariant of the compilation and of the run: before it starts no machine has
\* anything, and from then on its values are values.
RunInv ==
    /\ IInv
    /\ phase # "running" => status = "idle"
    /\ phase = "running" => MachineOK

\* Before the run there is no frame, and nothing has ended.
LEMMA RunStarts == Init => RunInv
<1>1. Init => phase = "compile" /\ status = "idle"
  BY DEF Init, CompilerInit
<1> QED
  BY <1>1, InitEstablishes DEF RunInv

\* A statement does not start the run.
LEMMA CompileOnly == ASSUME Compile PROVE phase = "compile" /\ phase' # "running"
BY DEF Compile, VarStmt, VarAnyStmt, AssignStmt, YieldStmt, OpenBlock, CloseBlock, BeginWhile, EndWhile,
       BeginIf, EndIf, BeginElse, EndElse, Break, Continue, BeginFunc, EndFunc, StructStmt, CallStmt,
       PrintCall, ReturnStmt, ReturnValue, Finish, Abort, Opening, Statement, Closing, Compiling

\* The compiler leaves the run alone, starting makes a machine, and a cycle keeps it.
LEMMA RunSteps == ASSUME RunInv, IInv', [Next]_vars PROVE RunInv'
<1>1. CASE CompileStep
  <2>1. phase = "compile" /\ phase' # "running"
    BY <1>1, CompileOnly DEF CompileStep
  <2>2. status' = status
    BY <1>1 DEF CompileStep, runVars
  <2> QED
    BY <2>1, <2>2 DEF RunInv
<1>2. CASE Start
  <2>1. phase' = "running" /\ MachineOK'
    BY <1>2, StartBoots, BootNext DEF RunInv, Start
  <2> QED
    BY <2>1 DEF RunInv
<1>3. CASE RunStep
  <2>1. phase = "running" /\ phase' = phase /\ Cycle
    BY <1>3 DEF RunStep
  <2> QED
    BY <2>1, CycleKeeps DEF RunInv
<1>4. CASE UNCHANGED vars
  <2>1. phase' = phase /\ status' = status /\ UNCHANGED vmVars
    BY <1>4 DEF vars, runVars, compilerVars, vmVars
  <2> QED
    BY <2>1, StutterKeeps DEF RunInv
<1> QED
  BY <1>1, <1>2, <1>3, <1>4 DEF Next

\* The invariant of the compilation and of the run holds.
THEOREM RunInvariant == Spec => []RunInv
<1>1. RunInv /\ IInv' /\ [Next]_vars => RunInv'
  BY RunSteps
<1> QED
  BY <1>1, RunStarts, InvariantHolds, PTL DEF Spec

\* From the first statement of a program to the end of its run, the compiler's and the
\* machine's state are well-formed: what codegen.rs writes is what runtime.rs reads.
THEOREM ProgramIsTyped == Spec => []TypeOK
<1>1. RunInv => TypeOK
  BY InvariantSuffices, MachineTypes DEF RunInv, TypeOK
<1> QED
  BY <1>1, RunInvariant, PTL

(***************************************************************************)
(* Code as a row of instructions.  S are the places where they start, with *)
(* the end of the code.                                                    *)
(***************************************************************************)
NextOf(code, ip) == ip + Width(Decode(code[ip + 1]))

Laid(code, S) ==
    /\ S \subseteq 0..Len(code)
    /\ 0 \in S /\ Len(code) \in S
    /\ \A ip \in S \ {Len(code)} :
          /\ IsOp(code[ip + 1])
          /\ NextOf(code, ip) \in S
          /\ \A m \in S : m <= ip \/ m >= NextOf(code, ip)
    /\ \A m \in S \ {0} : \E ip \in S \ {Len(code)} : NextOf(code, ip) = m

\* The jumps are named by the place before their offset.
JumpsIn(code, S) == {at \in 1..Len(code) : at - 1 \in S /\ Decode(code[at]) \in ShortOps}
TargetIn(code, at) == at + 2 + Signed16(code[at + 1], code[at + 2])

JumpsStay(code, S) ==
    \A at \in JumpsIn(code, S) :
        TargetIn(code, at) \in S /\ FitsJump(TargetIn(code, at) - (at + 2))

IsRow(code, S) == Laid(code, S) /\ JumpsStay(code, S)

\* The code ends with a return, to which, or to a place before it, all jumps lead.
ClosedCode(code) ==
    \E S : /\ IsRow(code, S)
           /\ \A at \in JumpsIn(code, S) : TargetIn(code, at) < Len(code)
           /\ \A ip \in S \ {Len(code)} :
                 NextOf(code, ip) = Len(code) => Decode(code[ip + 1]) = "Return"
           /\ Len(code) > 0

\* One instruction more.
Adds(c, d, op) ==
    /\ c \in Seq(Byte) /\ d \in Seq(Byte)
    /\ op \in Range(OpNames)
    /\ Len(d) = Len(c) + Width(op)
    /\ \A q \in 1..Len(c) : d[q] = c[q]
    /\ d[Len(c) + 1] = OpByte[op]

\* Any number of whole instructions more, the jumps among which lead to old places
\* or to new ones.
Grown(c, d) ==
    /\ Len(c) <= Len(d)
    /\ \A q \in 1..Len(c) : d[q] = c[q]
    /\ \A S : IsRow(c, S) => \E T : IsRow(d, T) /\ S \subseteq T

(***************************************************************************)
(* Bytes.                                                                  *)
(***************************************************************************)
\* The machine reads the instruction that the generator wrote.
LEMMA OpRead ==
  ASSUME NEW op \in Range(OpNames)
  PROVE  IsOp(OpByte[op]) /\ Decode(OpByte[op]) = op
<1> DEFINE place == CHOOSE i \in DOMAIN OpNames : OpNames[i] = op
<1>1. DOMAIN OpNames = 1..56
  BY DEF OpNames
<1>2. \E k \in DOMAIN OpNames : OpNames[k] = op
  BY DEF Range
<1>3. place \in 1..56 /\ OpNames[place] = op
  BY <1>1, <1>2
<1>4. OpByte[op] = FirstOp - 1 + place
  BY DEF OpByte
<1> HIDE DEF place
<1>5. OpByte[op] - FirstOp + 1 = place
  BY <1>3, <1>4 DEF FirstOp
<1> QED
  BY <1>1, <1>3, <1>5 DEF IsOp, Decode

\* And the offset.
LEMMA ShortRead ==
  ASSUME NEW k \in Int, FitsJump(k)
  PROVE  Signed16(Short(k)[1], Short(k)[2]) = k
<1>1. MaxJump \in Int /\ MaxJump <= 32767
  BY EmitAssumption
<1>2. -MaxJump - 1 <= k /\ k <= MaxJump
  BY DEF FitsJump
<1>3. -32768 <= k /\ k <= 32767
  BY <1>1, <1>2
<1> DEFINE s == k % 65536
<1>4. s \in Nat /\ s < 65536 /\ s = (IF k < 0 THEN k + 65536 ELSE k)
  <2>1. CASE k < 0
    BY <1>3, <2>1
  <2>2. CASE k >= 0
    BY <1>3, <2>2
  <2> QED
    BY <2>1, <2>2
<1>5. s % 256 = k % 256
  BY <1>4
<1> HIDE DEF s
<1>6. 256 * (s \div 256) + (s % 256) = s
  BY <1>4
<1>7. Short(k)[1] = s \div 256 /\ Short(k)[2] = k % 256
  BY DEF Short, s
<1>8. 256 * Short(k)[1] + Short(k)[2] = s
  BY <1>5, <1>6, <1>7
<1> QED
  BY <1>3, <1>4, <1>8 DEF Signed16

\* An instruction has one to three bytes.
LEMMA Widths ==
  ASSUME NEW op
  PROVE  /\ Width(op) \in 1..3 /\ Width(op) = 1 + Operands(op)
         /\ (op \in ShortOps <=> Width(op) = 3)
         /\ (op \in ByteOps => Width(op) = 2)
         /\ (op \notin ShortOps /\ op \notin ByteOps => Width(op) = 1)
BY DEF Width, Operands, ShortOps, ByteOps

(***************************************************************************)
(* Rows.                                                                   *)
(***************************************************************************)
\* Where a row has its jumps.
LEMMA JumpPlaces ==
  ASSUME NEW code \in Seq(Byte), NEW S, Laid(code, S), NEW at \in JumpsIn(code, S)
  PROVE  /\ at \in Nat /\ at - 1 \in S /\ at - 1 \in S \ {Len(code)} /\ at + 2 \in S
         /\ at + 2 <= Len(code)
         /\ NextOf(code, at - 1) = at + 2
         /\ Decode(code[at]) \in ShortOps
         /\ \A m \in S : m # at /\ m # at + 1
<1>1. Len(code) \in Nat
  BY LenProperties
<1>2. at \in 1..Len(code) /\ at - 1 \in S /\ Decode(code[at]) \in ShortOps
  BY DEF JumpsIn
<1>3. at - 1 # Len(code) /\ at \in Nat /\ (at - 1) + 1 = at
  BY <1>1, <1>2
<1>4. NextOf(code, at - 1) = at + 2
  BY <1>2, <1>3, Widths DEF NextOf
<1>5. at + 2 \in S /\ \A m \in S : m <= at - 1 \/ m >= at + 2
  BY <1>2, <1>3, <1>4 DEF Laid
<1>6. S \subseteq 0..Len(code)
  BY DEF Laid
<1>7. \A m \in S : m \in Nat
  BY <1>1, <1>6
<1>8. \A m \in S : m # at /\ m # at + 1
  BY <1>3, <1>5, <1>7
<1> QED
  BY <1>1, <1>2, <1>3, <1>4, <1>5, <1>6, <1>8

\* Nothing written is a row.
LEMMA EmptyRow == IsRow(<<>>, {0})
BY EmptySeq DEF IsRow, Laid, JumpsStay, JumpsIn

\* What an instruction adds to a row.
LEMMA RowAdded ==
  ASSUME NEW c, NEW d, NEW op, Adds(c, d, op), NEW S, Laid(c, S), NEW T, T = S \cup {Len(d)}
  PROVE  /\ Laid(d, T)
         /\ Len(d) = Len(c) + Width(op) /\ Len(c) \in Nat /\ Len(d) \in Nat
         /\ op \in ShortOps => JumpsIn(d, T) = JumpsIn(c, S) \cup {Len(c) + 1}
         /\ op \notin ShortOps => JumpsIn(d, T) = JumpsIn(c, S)
         /\ \A at \in JumpsIn(c, S) : TargetIn(d, at) = TargetIn(c, at)
         /\ \A ip \in S \ {Len(c)} : NextOf(d, ip) = NextOf(c, ip) /\ NextOf(c, ip) <= Len(c)
         /\ NextOf(d, Len(c)) = Len(d) /\ Decode(d[Len(c) + 1]) = op
<1>1. /\ Len(c) \in Nat /\ Len(d) \in Nat /\ Len(d) = Len(c) + Width(op)
      /\ Width(op) \in 1..3
  BY LenProperties, Widths DEF Adds
<1>2. IsOp(d[Len(c) + 1]) /\ Decode(d[Len(c) + 1]) = op
  BY OpRead DEF Adds
<1>3. S \subseteq 0..Len(c) /\ 0 \in S /\ Len(c) \in S
  BY DEF Laid
<1>4. ASSUME NEW ip \in S \ {Len(c)}
      PROVE  /\ d[ip + 1] = c[ip + 1] /\ NextOf(d, ip) = NextOf(c, ip)
             /\ NextOf(c, ip) \in S /\ NextOf(c, ip) <= Len(c) /\ NextOf(c, ip) \in Nat
             /\ IsOp(d[ip + 1])
  <2>1. ip + 1 \in 1..Len(c)
    BY <1>1, <1>3
  <2>2. d[ip + 1] = c[ip + 1]
    BY <2>1 DEF Adds
  <2>3. NextOf(c, ip) \in S /\ IsOp(c[ip + 1])
    BY DEF Laid
  <2>4. NextOf(c, ip) \in 0..Len(c)
    BY <1>3, <2>3
  <2> QED
    BY <1>1, <2>2, <2>3, <2>4 DEF NextOf
<1>5. NextOf(d, Len(c)) = Len(d)
  BY <1>1, <1>2 DEF NextOf
<1>6. T \ {Len(d)} = S
  BY <1>1, <1>3
<1>7. Laid(d, T)
  <2>1. T \subseteq 0..Len(d) /\ 0 \in T /\ Len(d) \in T
    <3>1. 0..Len(c) \subseteq 0..Len(d) /\ Len(d) \in 0..Len(d)
      BY <1>1
    <3> QED
      BY <1>3, <3>1
  <2>2. ASSUME NEW ip \in S
        PROVE  /\ IsOp(d[ip + 1]) /\ NextOf(d, ip) \in T
               /\ \A m \in T : m <= ip \/ m >= NextOf(d, ip)
    <3>1. CASE ip = Len(c)
      BY <1>1, <1>2, <1>3, <1>5, <3>1
    <3>2. CASE ip # Len(c)
      <4>1. \A m \in S : m <= ip \/ m >= NextOf(c, ip)
        BY <3>2 DEF Laid
      <4> QED
        BY <1>1, <1>4, <3>2, <4>1
    <3> QED
      BY <3>1, <3>2
  <2>3. ASSUME NEW m \in T \ {0} PROVE \E ip \in S : NextOf(d, ip) = m
    <3>1. CASE m \in S
      <4>1. PICK ip \in S \ {Len(c)} : NextOf(c, ip) = m
        BY <3>1 DEF Laid
      <4> QED
        BY <1>4, <4>1
    <3>2. CASE m = Len(d)
      BY <1>3, <1>5, <3>2
    <3> QED
      BY <3>1, <3>2
  <2> QED
    BY <1>6, <2>1, <2>2, <2>3 DEF Laid
<1>8. /\ op \in ShortOps => JumpsIn(d, T) = JumpsIn(c, S) \cup {Len(c) + 1}
      /\ op \notin ShortOps => JumpsIn(d, T) = JumpsIn(c, S)
  <2>1. ASSUME NEW at \in JumpsIn(c, S) PROVE at \in JumpsIn(d, T)
    BY <1>1 DEF JumpsIn, Adds
  <2>2. ASSUME op \in ShortOps PROVE Len(c) + 1 \in JumpsIn(d, T)
    <3>1. Len(c) + 1 \in 1..Len(d) /\ (Len(c) + 1) - 1 = Len(c)
      BY <1>1
    <3> QED
      BY <1>2, <1>3, <2>2, <3>1 DEF JumpsIn
  <2>3. ASSUME NEW at \in JumpsIn(d, T)
        PROVE  at \in JumpsIn(c, S) \/ (op \in ShortOps /\ at = Len(c) + 1)
    <3>1. at \in 1..Len(d) /\ at - 1 \in S /\ Decode(d[at]) \in ShortOps
      BY <1>1, <1>6 DEF JumpsIn
    <3>2. CASE at - 1 = Len(c)
      <4>1. at = Len(c) + 1
        BY <1>1, <3>1, <3>2
      <4> QED
        BY <1>2, <3>1, <4>1
    <3>3. CASE at - 1 # Len(c)
      <4>1. at \in 1..Len(c)
        BY <1>1, <1>3, <3>1, <3>3
      <4> QED
        BY <3>1, <4>1 DEF JumpsIn, Adds
    <3> QED
      BY <3>2, <3>3
  <2> QED
    BY <2>1, <2>2, <2>3
<1>9. ASSUME NEW at \in JumpsIn(c, S) PROVE TargetIn(d, at) = TargetIn(c, at)
  <2>1. at \in Nat /\ at + 2 <= Len(c) /\ c \in Seq(Byte)
    BY JumpPlaces DEF Adds
  <2>2. at + 1 \in 1..Len(c) /\ at + 2 \in 1..Len(c)
    BY <1>1, <2>1
  <2> QED
    BY <2>2 DEF TargetIn, Adds
<1> QED
  BY <1>1, <1>2, <1>4, <1>5, <1>7, <1>8, <1>9

\* An instruction that is no jump.
LEMMA PlainAdded ==
  ASSUME NEW c, NEW d, NEW op, Adds(c, d, op), op \notin ShortOps
  PROVE  Grown(c, d)
<1>1. /\ Len(c) <= Len(d) /\ \A q \in 1..Len(c) : d[q] = c[q]
  BY LenProperties, Widths DEF Adds
<1>2. ASSUME NEW S, IsRow(c, S) PROVE \E T : IsRow(d, T) /\ S \subseteq T
  <2>a. PICK T : T = S \cup {Len(d)}
    OBVIOUS
  <2>1. /\ Laid(d, T) /\ JumpsIn(d, T) = JumpsIn(c, S)
        /\ \A at \in JumpsIn(c, S) : TargetIn(d, at) = TargetIn(c, at)
    BY <1>2, <2>a, RowAdded DEF IsRow
  <2>2. JumpsStay(d, T)
    BY <1>2, <2>1, <2>a DEF JumpsStay, IsRow
  <2> QED
    BY <2>1, <2>2, <2>a DEF IsRow
<1> QED
  BY <1>1, <1>2 DEF Grown

\* A jump that leads to a place of the row or right behind it.
LEMMA JumpAdded ==
  ASSUME NEW c, NEW d, NEW op, Adds(c, d, op), op \in ShortOps, NEW S, IsRow(c, S),
         NEW target, TargetIn(d, Len(c) + 1) = target, target \in S \cup {Len(d)},
         FitsJump(target - Len(d))
  PROVE  /\ IsRow(d, S \cup {Len(d)})
         /\ Len(c) + 1 \in JumpsIn(d, S \cup {Len(d)})
<1>a. PICK T : T = S \cup {Len(d)}
  OBVIOUS
<1>1. /\ Laid(d, T) /\ JumpsIn(d, T) = JumpsIn(c, S) \cup {Len(c) + 1}
      /\ \A at \in JumpsIn(c, S) : TargetIn(d, at) = TargetIn(c, at)
      /\ Len(d) = Len(c) + 3 /\ Len(c) \in Nat
  <2>1. Width(op) = 3
    BY Widths
  <2>2. Laid(c, S)
    BY DEF IsRow
  <2> QED
    BY <1>a, <2>1, <2>2, RowAdded
<1>2. (Len(c) + 1) + 2 = Len(d)
  BY <1>1
<1>3. JumpsStay(d, T)
  BY <1>1, <1>2, <1>a DEF JumpsStay, IsRow
<1> QED
  BY <1>1, <1>3, <1>a DEF IsRow

\* Growing and growing again is growing.
LEMMA GrownTwice ==
  ASSUME NEW b \in Seq(Byte), NEW c \in Seq(Byte), NEW d \in Seq(Byte), Grown(b, c), Grown(c, d)
  PROVE  Grown(b, d)
<1>1. Len(b) \in Nat /\ Len(c) \in Nat /\ Len(d) \in Nat
  BY LenProperties
<1>2. ASSUME NEW S, IsRow(b, S) PROVE \E T : IsRow(d, T) /\ S \subseteq T
  <2>1. PICK T : IsRow(c, T) /\ S \subseteq T
    BY <1>2 DEF Grown
  <2>2. PICK U : IsRow(d, U) /\ T \subseteq U
    BY <2>1 DEF Grown
  <2> QED
    BY <2>1, <2>2
<1> QED
  BY <1>1, <1>2 DEF Grown

\* Nothing written is growing, too.
LEMMA GrownNot == ASSUME NEW c \in Seq(Byte) PROVE Grown(c, c)
BY LenProperties DEF Grown

\* With a return at its end that no jump leaps over, code is closed.
LEMMA ReturnAdded ==
  ASSUME NEW c, NEW d, Adds(c, d, "Return"), NEW S, IsRow(c, S)
  PROVE  ClosedCode(d)
<1>a. PICK T : T = S \cup {Len(d)}
  OBVIOUS
<1>1. "Return" \notin ShortOps
  BY DEF ShortOps
<1>2. /\ Laid(d, T) /\ JumpsIn(d, T) = JumpsIn(c, S)
      /\ Len(d) = Len(c) + 1 /\ Len(c) \in Nat /\ Len(d) \in Nat
      /\ \A at \in JumpsIn(c, S) : TargetIn(d, at) = TargetIn(c, at)
      /\ \A ip \in S \ {Len(c)} : NextOf(d, ip) = NextOf(c, ip) /\ NextOf(c, ip) <= Len(c)
      /\ Decode(d[Len(c) + 1]) = "Return"
  <2>1. Width("Return") = 1
    BY DEF Width, Operands, ShortOps, ByteOps
  <2> QED
    BY <1>1, <1>a, <2>1, RowAdded DEF IsRow
<1>3. JumpsStay(d, T)
  BY <1>2, <1>a DEF JumpsStay, IsRow
<1>4. S \subseteq 0..Len(c)
  BY DEF IsRow, Laid
<1>5. ASSUME NEW at \in JumpsIn(d, T) PROVE TargetIn(d, at) < Len(d)
  <2>1. TargetIn(d, at) \in S /\ TargetIn(d, at) \in 0..Len(c)
    BY <1>2, <1>4 DEF JumpsStay, IsRow
  <2> QED
    BY <1>2, <2>1
<1>6. ASSUME NEW ip \in T \ {Len(d)}, NextOf(d, ip) = Len(d) PROVE Decode(d[ip + 1]) = "Return"
  <2>1. ip \in S
    BY <1>a
  <2>2. CASE ip = Len(c)
    BY <1>2, <2>2
  <2>3. CASE ip # Len(c)
    <3>1. NextOf(d, ip) = NextOf(c, ip) /\ NextOf(c, ip) <= Len(c)
      BY <1>2, <2>1, <2>3
    <3> QED
      BY <1>2, <1>6, <3>1
  <2> QED
    BY <2>2, <2>3
<1>7. Len(d) > 0
  BY <1>2
<1> QED
  BY <1>2, <1>3, <1>5, <1>6, <1>7 DEF ClosedCode, IsRow

\* Any number of pops: the places behind each of them.
LEMMA PopsRow ==
  ASSUME NEW c \in Seq(Byte), NEW k \in Nat, NEW d \in Seq(Byte), Len(d) = Len(c) + k,
         \A q \in 1..Len(c) : d[q] = c[q],
         \A q \in (Len(c) + 1)..Len(d) : d[q] = OpByte["Pop"],
         NEW S, IsRow(c, S), NEW T, T = S \cup (Len(c)..Len(d))
  PROVE  /\ IsRow(d, T) /\ JumpsIn(d, T) \subseteq JumpsIn(c, S)
         /\ \A at \in JumpsIn(c, S) : TargetIn(d, at) = TargetIn(c, at)
         /\ \A ip \in Len(c)..(Len(d) - 1) : Decode(d[ip + 1]) = "Pop" /\ NextOf(d, ip) = ip + 1
<1> DEFINE l == Len(c)
           m == Len(d)
<1>1. l \in Nat /\ m = l + k /\ m \in Nat /\ l <= m
  BY LenProperties
<1>2. ASSUME NEW ip \in l..(m - 1)
      PROVE  IsOp(d[ip + 1]) /\ Decode(d[ip + 1]) = "Pop" /\ NextOf(d, ip) = ip + 1
  <2>1. ip + 1 \in (l + 1)..m
    BY <1>1
  <2>2. d[ip + 1] = OpByte["Pop"]
    BY <2>1
  <2>3. IsOp(d[ip + 1]) /\ Decode(d[ip + 1]) = "Pop"
    BY <2>2, OpRead, Written
  <2>4. Width("Pop") = 1
    BY DEF Width, Operands, ShortOps, ByteOps
  <2> QED
    BY <1>1, <2>3, <2>4 DEF NextOf
<1>3. S \subseteq 0..l /\ 0 \in S /\ l \in S
  BY DEF IsRow, Laid
<1>4. ASSUME NEW ip \in S \ {l}
      PROVE  /\ ip \in 0..(l - 1) /\ d[ip + 1] = c[ip + 1] /\ NextOf(d, ip) = NextOf(c, ip)
             /\ NextOf(c, ip) \in S /\ NextOf(c, ip) \in 0..l
             /\ IsOp(d[ip + 1]) /\ \A q \in S : q <= ip \/ q >= NextOf(c, ip)
  <2>1. ip \in 0..(l - 1) /\ ip + 1 \in 1..l
    BY <1>1, <1>3
  <2>2. d[ip + 1] = c[ip + 1]
    BY <2>1
  <2>3. /\ IsOp(c[ip + 1]) /\ NextOf(c, ip) \in S
        /\ \A q \in S : q <= ip \/ q >= NextOf(c, ip)
    BY DEF IsRow, Laid
  <2> QED
    BY <1>3, <2>1, <2>2, <2>3 DEF NextOf
<1>5. Laid(d, T)
  <2>a. l..m \subseteq 0..m /\ 0..l \subseteq 0..m /\ m \in l..m
    BY <1>1
  <2>1. T \subseteq 0..m /\ 0 \in T /\ m \in T
    BY <1>3, <2>a
  <2>2. ASSUME NEW ip \in T \ {m}
        PROVE  /\ IsOp(d[ip + 1]) /\ NextOf(d, ip) \in T
               /\ \A q \in T : q <= ip \/ q >= NextOf(d, ip)
    <3>1. CASE ip \in S \ {l}
      <4>1. \A q \in T : q \in S \/ (q \in Int /\ q >= l)
        BY <1>1
      <4> QED
        BY <1>1, <1>4, <3>1, <4>1
    <3>2. CASE ip \notin S \ {l}
      <4>1. ip \in l..(m - 1)
        BY <1>1, <3>2
      <4>2. NextOf(d, ip) = ip + 1 /\ IsOp(d[ip + 1])
        BY <1>2, <4>1
      <4>3. ip + 1 \in l..m /\ \A q \in T : q \in Int
        BY <1>1, <2>1, <4>1
      <4> QED
        BY <4>1, <4>2, <4>3
    <3> QED
      BY <3>1, <3>2
  <2>3. ASSUME NEW q \in T \ {0} PROVE \E ip \in T \ {m} : NextOf(d, ip) = q
    <3>1. CASE q \in S
      <4>1. PICK ip \in S \ {l} : NextOf(c, ip) = q
        BY <3>1 DEF IsRow, Laid
      <4>2. NextOf(d, ip) = q /\ ip \in T \ {m}
        BY <1>1, <1>4, <4>1
      <4> QED
        BY <4>2
    <3>2. CASE q \notin S
      <4>1. q \in (l + 1)..m
        BY <1>1, <1>3, <3>2
      <4>2. q - 1 \in l..(m - 1) /\ (q - 1) + 1 = q /\ q - 1 # m /\ q - 1 \in l..m
        BY <1>1, <4>1
      <4>3. NextOf(d, q - 1) = q /\ q - 1 \in T \ {m}
        BY <1>2, <4>2
      <4> QED
        BY <4>3
    <3> QED
      BY <3>1, <3>2
  <2> QED
    BY <2>1, <2>2, <2>3 DEF Laid
<1>6. JumpsIn(d, T) \subseteq JumpsIn(c, S)
  <2> SUFFICES ASSUME NEW at \in JumpsIn(d, T) PROVE at \in JumpsIn(c, S)
    OBVIOUS
  <2>1. at \in 1..m /\ at - 1 \in T /\ Decode(d[at]) \in ShortOps /\ (at - 1) + 1 = at
    BY <1>1 DEF JumpsIn
  <2>2. CASE at - 1 \in l..m
    <3>1. at - 1 \in l..(m - 1)
      BY <1>1, <2>1, <2>2
    <3>2. Decode(d[at]) = "Pop"
      BY <1>2, <2>1, <3>1
    <3> QED
      BY <2>1, <3>2 DEF ShortOps
  <2>3. CASE at - 1 \notin l..m
    <3>1. at - 1 \in S /\ at \in 1..l
      BY <1>1, <1>3, <2>1, <2>3
    <3> QED
      BY <2>1, <3>1 DEF JumpsIn
  <2> QED
    BY <2>2, <2>3
<1>7. ASSUME NEW at \in JumpsIn(c, S)
      PROVE  /\ TargetIn(d, at) = TargetIn(c, at) /\ TargetIn(c, at) \in S
             /\ FitsJump(TargetIn(c, at) - (at + 2))
  <2>1. at \in Nat /\ at + 2 <= Len(c) /\ at - 1 \in S
    BY JumpPlaces DEF IsRow
  <2>2. at \in 1..l
    BY DEF JumpsIn
  <2>3. at + 1 \in 1..l /\ at + 2 \in 1..l
    BY <1>1, <2>1, <2>2
  <2>4. TargetIn(d, at) = TargetIn(c, at)
    BY <2>3 DEF TargetIn
  <2> QED
    BY <2>4 DEF IsRow, JumpsStay
<1>8. JumpsStay(d, T)
  BY <1>6, <1>7 DEF JumpsStay
<1> QED
  BY <1>2, <1>5, <1>6, <1>7, <1>8 DEF IsRow

\* They are whole instructions.
LEMMA PopsAdded ==
  ASSUME NEW c \in Seq(Byte), NEW k \in Nat, NEW d \in Seq(Byte), Len(d) = Len(c) + k,
         \A q \in 1..Len(c) : d[q] = c[q],
         \A q \in (Len(c) + 1)..Len(d) : d[q] = OpByte["Pop"]
  PROVE  Grown(c, d)
<1>1. Len(c) \in Nat /\ Len(c) <= Len(d)
  BY LenProperties
<1>2. ASSUME NEW S, IsRow(c, S) PROVE \E T : IsRow(d, T) /\ S \subseteq T
  <2> DEFINE T == S \cup (Len(c)..Len(d))
  <2>1. IsRow(d, T)
    BY <1>2, PopsRow
  <2> QED
    BY <2>1
<1> QED
  BY <1>1, <1>2 DEF Grown

(***************************************************************************)
(* The writers.                                                            *)
(***************************************************************************)
\* A helper that lays out whole instructions, or gives up.
LaysOut(n, old, new) ==
    /\ Writes(n, old, new)
    /\ new.exits = old.exits
    /\ ~new.panicked => ~old.panicked /\ Grown(old.code, new.code)

\* One after the other.
LEMMA LaysOutTwice ==
  ASSUME NEW n, NEW a, IsGen(n, a), NEW b, NEW c, LaysOut(n, a, b), LaysOut(n, b, c)
  PROVE  LaysOut(n, a, c)
<1>1. a.code \in Seq(Byte) /\ b.code \in Seq(Byte) /\ c.code \in Seq(Byte)
  BY DEF LaysOut, Writes, IsGen
<1>2. Writes(n, a, c)
  BY WritesTransitive DEF LaysOut
<1>3. ~c.panicked => ~a.panicked /\ Grown(a.code, c.code)
  BY <1>1, GrownTwice DEF LaysOut
<1> QED
  BY <1>2, <1>3 DEF LaysOut

\* What is only recorded.
LEMMA NothingLaid ==
  ASSUME NEW n, NEW old, IsGen(n, old), NEW new, Writes(n, old, new),
         new.code = old.code, new.exits = old.exits, new.panicked = old.panicked
  PROVE  LaysOut(n, old, new)
<1>1. Grown(old.code, new.code)
  BY GrownNot DEF IsGen
<1> QED
  BY <1>1 DEF LaysOut

\* An instruction is added as a byte, one of two with its operand.
LEMMA InstrAdds ==
  ASSUME NEW n, NEW gen, IsGen(n, gen), NEW op \in Range(OpNames),
         op \notin ShortOps, op \notin ByteOps
  PROVE  /\ Adds(gen.code, WriteInstr(gen, op).code, op)
         /\ LaysOut(n, gen, WriteInstr(gen, op))
<1> DEFINE new == WriteInstr(gen, op)
<1>1. new = [gen EXCEPT !.code = Append(gen.code, OpByte[op])]
  BY DEF WriteInstr, WriteByte
<1>2. DOMAIN gen = GenFields /\ gen.code \in Seq(Byte) /\ OpByte[op] \in Byte
  BY OpByteIsByte DEF IsGen
<1>3. /\ new.code = Append(gen.code, OpByte[op])
      /\ new.exits = gen.exits /\ new.panicked = gen.panicked
  BY <1>1, <1>2 DEF GenFields
<1>4. /\ Append(gen.code, OpByte[op]) \in Seq(Byte)
      /\ Len(Append(gen.code, OpByte[op])) = Len(gen.code) + 1
      /\ \A q \in 1..Len(gen.code) : Append(gen.code, OpByte[op])[q] = gen.code[q]
      /\ Append(gen.code, OpByte[op])[Len(gen.code) + 1] = OpByte[op]
  BY <1>2, AppendProperties
<1>5. Width(op) = 1
  BY Widths
<1>6. Adds(gen.code, new.code, op)
  BY <1>2, <1>3, <1>4, <1>5 DEF Adds
<1>7. Writes(n, gen, new)
  BY WriteInstrWrites
<1> QED
  BY <1>3, <1>6, <1>7, PlainAdded DEF LaysOut

\* An instruction with one byte for its operand.
LEMMA ByteOpAdds ==
  ASSUME NEW n, NEW gen, IsGen(n, gen), NEW op \in Range(OpNames), op \in ByteOps,
         NEW byte \in Byte
  PROVE  LET new == WriteByte(WriteInstr(gen, op), byte)
         IN /\ LaysOut(n, gen, new)
            /\ Adds(gen.code, new.code, op) /\ new.code[Len(gen.code) + 2] = byte
<1> DEFINE first == Append(gen.code, OpByte[op])
           code == Append(first, byte)
           new == WriteByte(WriteInstr(gen, op), byte)
<1>1. DOMAIN gen = GenFields /\ gen.code \in Seq(Byte) /\ OpByte[op] \in Byte
  BY OpByteIsByte DEF IsGen
<1>2. new.code = code /\ new.exits = gen.exits /\ new.panicked = gen.panicked
  BY <1>1 DEF WriteInstr, WriteByte, GenFields
<1>3. /\ first \in Seq(Byte) /\ Len(first) = Len(gen.code) + 1
      /\ \A q \in 1..Len(gen.code) : first[q] = gen.code[q]
      /\ first[Len(gen.code) + 1] = OpByte[op]
  BY <1>1, AppendProperties
<1> HIDE DEF first
<1>4. /\ code \in Seq(Byte) /\ Len(code) = Len(first) + 1
      /\ \A q \in 1..Len(first) : code[q] = first[q]
      /\ code[Len(first) + 1] = byte
  BY <1>3, AppendProperties
<1> HIDE DEF code
<1>5. Len(gen.code) \in Nat
  BY <1>1, LenProperties
<1>6. /\ \A q \in 1..Len(gen.code) : code[q] = gen.code[q]
      /\ code[Len(gen.code) + 1] = OpByte[op] /\ Len(code) = Len(gen.code) + 2
      /\ code[Len(gen.code) + 2] = byte
  BY <1>3, <1>4, <1>5
<1>7. Width(op) = 2 /\ op \notin ShortOps
  BY Widths DEF ShortOps, ByteOps
<1>8. Adds(gen.code, new.code, op)
  BY <1>1, <1>2, <1>4, <1>6, <1>7 DEF Adds
<1>9. Writes(n, gen, new)
  BY WriteInstrWrites, WriteByteWrites, WritesTransitive DEF Writes
<1> HIDE DEF new
<1> QED
  BY <1>2, <1>6, <1>7, <1>8, <1>9, PlainAdded DEF LaysOut, new

\* An operand is cut to a byte.
LEMMA IndexedAdds ==
  ASSUME NEW n, NEW gen, IsGen(n, gen), NEW op \in Range(OpNames), op \in ByteOps,
         NEW index \in Int
  PROVE  LaysOut(n, gen, WriteIndexed(gen, op, index))
<1>1. index % IndexWidth \in Byte
  BY EmitAssumption DEF Byte
<1> QED
  BY <1>1, ByteOpAdds DEF WriteIndexed

\* Giving up lays out nothing.
LEMMA GivingUp ==
  ASSUME NEW n, NEW gen, IsGen(n, gen)
  PROVE  LaysOut(n, gen, [gen EXCEPT !.panicked = TRUE])
BY DEF LaysOut, IsGen, Writes, SameBooks, GenFields

\* A literal, in the code or in the pool.
LEMMA ConstantLays ==
  ASSUME NEW n, NEW gen, IsGen(n, gen), NEW value \in Constant(n)
  PROVE  LaysOut(n, gen, NewConstant(gen, value))
<1>1. CASE value.t \in {"Bool", "None"}
  <2>1. /\ {"True", "False", "None"} \subseteq Range(OpNames)
        /\ \A op \in {"True", "False", "None"} : op \notin ShortOps /\ op \notin ByteOps
    BY Written DEF ShortOps, ByteOps
  <2>2. PICK op \in {"True", "False", "None"} : NewConstant(gen, value) = WriteInstr(gen, op)
    BY <1>1 DEF NewConstant
  <2> QED
    BY <2>1, <2>2, InstrAdds
<1>2. CASE value.t \notin {"Bool", "None"} /\ value.t = "Int" /\ value.v \in -128..127
  <2>1. value.v % 256 \in Byte
    BY <1>2 DEF Byte
  <2>2. NewConstant(gen, value) = WriteByte(WriteInstr(gen, "LoadByte"), value.v % 256)
    BY <1>2 DEF NewConstant
  <2>3. "LoadByte" \in Range(OpNames) /\ "LoadByte" \in ByteOps
    BY Written DEF ByteOps
  <2> QED
    BY <2>1, <2>2, <2>3, ByteOpAdds
<1>3. CASE /\ value.t \notin {"Bool", "None"}
           /\ ~(value.t = "Int" /\ value.v \in -128..127)
  <2>1. CASE Len(gen.constants) > MaxConstant
    BY <1>3, <2>1, GivingUp DEF NewConstant
  <2>2. CASE ~(Len(gen.constants) > MaxConstant)
    <3> DEFINE written == WriteByte(WriteInstr(gen, "Constant"), Len(gen.constants))
    <3>1. Len(gen.constants) \in Byte
      BY <2>2, LenProperties, SmallIsByte DEF IsGen
    <3>2. "Constant" \in Range(OpNames) /\ "Constant" \in ByteOps
      BY Written DEF ByteOps
    <3>3. LaysOut(n, gen, written)
      BY <3>1, <3>2, ByteOpAdds
    <3>4. NewConstant(gen, value) = [written EXCEPT !.constants = Append(@, value)]
      BY <1>3, <2>2 DEF NewConstant
    <3> HIDE DEF written
    <3>5. /\ NewConstant(gen, value).code = written.code
          /\ NewConstant(gen, value).exits = written.exits
          /\ NewConstant(gen, value).panicked = written.panicked
      BY <3>3, <3>4 DEF LaysOut, Writes, IsGen, GenFields
    <3> QED
      BY <3>3, <3>5, NewConstantWrites DEF LaysOut
  <2> QED
    BY <2>1, <2>2
<1> QED
  BY <1>1, <1>2, <1>3

\* A conversion.
LEMMA CoerceLays ==
  ASSUME NEW n, NEW gen, IsGen(n, gen), NEW old, NEW expected
  PROVE  LaysOut(n, gen, Coerce(gen, old, expected))
<1> DEFINE op == CastInstr(old, expected)
<1>1. CASE old = expected
  BY <1>1, CoerceWrites, NothingLaid DEF Coerce
<1>2. CASE old # expected /\ op = ""
  BY <1>2, GivingUp DEF Coerce
<1>3. CASE old # expected /\ op # ""
  <2>1. op \in Range(OpNames)
    BY <1>3, CastIsInstr
  <2>2. op \notin ShortOps /\ op \notin ByteOps
    <3>1. CASE old = "Any" /\ expected \in {"Int", "Float", "Bool", "Char", "String"}
      <4>1. \E u \in DOMAIN Unwraps : Unwraps[u] = expected
        BY <3>1 DEF Unwraps
      <4>2. op \in DOMAIN Unwraps
        BY <3>1, <4>1 DEF CastInstr
      <4> HIDE DEF op
      <4> QED
        BY <4>2 DEF Unwraps, ShortOps, ByteOps
    <3>2. CASE old = "Any" /\ expected \notin {"Int", "Float", "Bool", "Char", "String"}
      BY <1>3, <3>2 DEF CastInstr
    <3>3. CASE old # "Any"
      BY <3>3 DEF CastInstr, ShortOps, ByteOps
    <3> QED
      BY <3>1, <3>2, <3>3
  <2>3. Coerce(gen, old, expected) = WriteInstr(gen, op)
    BY <1>3 DEF Coerce
  <2> HIDE DEF op
  <2> QED
    BY <2>1, <2>2, <2>3, InstrAdds
<1> QED
  BY <1>1, <1>2, <1>3

\* A literal, a load, a store, the end of an expression and a condition.
LEMMA ExpressionsLay ==
  ASSUME NEW n, NEW gen, IsGen(n, gen), NEW b, IsBinding(b)
  PROVE  /\ \A tag \in Int : LaysOut(n, gen, CodeLiteral(gen, tag))
         /\ LaysOut(n, gen, CodeLoad(gen, b))
         /\ LaysOut(n, gen, CodeStore(gen, b))
         /\ LaysOut(n, gen, ExpressionStmt(gen))
         /\ LaysOut(n, gen, Condition(gen))
<1>1. ASSUME NEW tag \in Int PROVE LaysOut(n, gen, CodeLiteral(gen, tag))
  BY IntIsConstant, ConstantLays DEF CodeLiteral
<1>2. {"GetLocal", "GetGlobal", "SetLocal", "SetGlobal"} \subseteq Range(OpNames) \cap ByteOps
  BY Written DEF ByteOps
<1>3. LaysOut(n, gen, CodeLoad(gen, b)) /\ LaysOut(n, gen, CodeStore(gen, b))
  BY <1>2, IndexedAdds DEF CodeLoad, CodeStore, IsBinding
<1>4. /\ {"Pop", "TESTTakeInput"} \subseteq Range(OpNames)
      /\ \A op \in {"Pop", "TESTTakeInput"} : op \notin ShortOps /\ op \notin ByteOps
  BY Written DEF ShortOps, ByteOps
<1>5. LaysOut(n, gen, ExpressionStmt(gen)) /\ LaysOut(n, gen, Condition(gen))
  BY <1>4, InstrAdds DEF ExpressionStmt, Condition
<1> QED
  BY <1>1, <1>3, <1>5

\* An argument,
LEMMA ArgumentLays ==
  ASSUME NEW n, NEW gen, IsGen(n, gen), NEW b, IsBinding(b), NEW k \in Int
  PROVE  LaysOut(n, gen, Argument(gen, b, k))
<1> DEFINE literal == CodeLiteral(gen, Literal(b, k))
<1>1. Literal(b, k) \in Int
  BY DEF Literal, ParamTag, IsBinding, IsDeclaration
<1>2. LaysOut(n, gen, literal)
  BY <1>1, ExpressionsLay
<1> HIDE DEF literal
<1>3. LaysOut(n, literal, Coerce(literal, "Int", b.data.params[k]))
  BY <1>2, CoerceLays DEF LaysOut, Writes
<1> QED
  BY <1>2, <1>3, LaysOutTwice DEF Argument, literal

\* a callee
LEMMA CalleeLays ==
  ASSUME NEW n, NEW gen, IsGen(n, gen), NEW b, IsBinding(b)
  PROVE  LaysOut(n, gen, LoadCallee(gen, b))
<1> DEFINE marked == [gen EXCEPT !.misplaced = @ \/ Misplaced(b)]
<1>1. LaysOut(n, gen, marked)
  <2>1. marked.code = gen.code /\ marked.exits = gen.exits /\ marked.panicked = gen.panicked
    BY DEF IsGen, GenFields
  <2>2. Writes(n, gen, marked)
    BY RecordsWrite
  <2> HIDE DEF marked
  <2> QED
    BY <2>1, <2>2, NothingLaid
<1>2. LoadCallee(gen, b) = CodeLoad(marked, b)
  BY DEF LoadCallee
<1>3. IsGen(n, marked)
  BY <1>1 DEF LaysOut, Writes
<1> HIDE DEF marked
<1> QED
  BY <1>1, <1>2, <1>3, ExpressionsLay, LaysOutTwice

\* and a call with all its arguments.
LEMMA CallLays ==
  ASSUME NEW n, NEW gen, IsGen(n, gen), NEW b, IsBinding(b), Len(b.data.params) \in Int
  PROVE  LaysOut(n, gen, CallWith(gen, b))
<1> DEFINE count == Len(b.data.params)
           loaded == LoadCallee(gen, b)
           first == IF count >= 1 THEN Argument(loaded, b, 1) ELSE loaded
           called == IF count >= 2 THEN Argument(first, b, 2) ELSE first
           op == IF b.data.type.t = "NativeFunc" THEN "CallNative" ELSE "CallUser"
<1>2. LaysOut(n, gen, loaded) /\ IsGen(n, loaded)
  BY CalleeLays DEF LaysOut, Writes
<1> HIDE DEF loaded
<1>3. LaysOut(n, loaded, first) /\ IsGen(n, first)
  <2>1. Writes(n, loaded, loaded)
    BY <1>2 DEF Writes, SameBooks
  <2>2. LaysOut(n, loaded, loaded)
    BY <1>2, <2>1, NothingLaid
  <2>3. LaysOut(n, loaded, Argument(loaded, b, 1))
    BY <1>2, ArgumentLays
  <2> QED
    BY <2>2, <2>3 DEF LaysOut, Writes
<1> HIDE DEF first
<1>4. LaysOut(n, first, called) /\ IsGen(n, called)
  <2>1. Writes(n, first, first)
    BY <1>3 DEF Writes, SameBooks
  <2>2. LaysOut(n, first, first)
    BY <1>3, <2>1, NothingLaid
  <2>3. LaysOut(n, first, Argument(first, b, 2))
    BY <1>3, ArgumentLays
  <2> QED
    BY <2>2, <2>3 DEF LaysOut, Writes
<1> HIDE DEF called
<1>5. op \in Range(OpNames) /\ op \in ByteOps
  BY Written DEF ByteOps
<1>6. CallWith(gen, b) = WriteIndexed(called, op, count)
  BY DEF CallWith, called, first, loaded
<1> HIDE DEF op, count
<1>7. LaysOut(n, called, WriteIndexed(called, op, count))
  BY <1>4, <1>5, IndexedAdds DEF count
<1>9. LaysOut(n, gen, first)
  BY <1>2, <1>3, LaysOutTwice
<1>10. LaysOut(n, gen, called)
  BY <1>4, <1>9, LaysOutTwice
<1> QED
  BY <1>6, <1>7, <1>10, LaysOutTwice

\* The places of code that was joined to code.
LEMMA JoinedPlaces ==
  ASSUME NEW s \in Seq(Byte), NEW t \in Seq(Byte)
  PROVE  /\ s \o t \in Seq(Byte) /\ Len(s \o t) = Len(s) + Len(t)
         /\ Len(s) \in Nat /\ Len(t) \in Nat
         /\ \A q \in 1..Len(s) : (s \o t)[q] = s[q]
         /\ \A q \in 1..Len(t) : (s \o t)[Len(s) + q] = t[q]
<1>1. Len(s) \in Nat /\ Len(t) \in Nat
  BY LenProperties
<1>2. \A q \in 1..(Len(s) + Len(t)) : (s \o t)[q] = IF q <= Len(s) THEN s[q] ELSE t[q - Len(s)]
  BY ConcatProperties
<1>3. ASSUME NEW q \in 1..Len(s) PROVE (s \o t)[q] = s[q]
  <2>1. q \in 1..(Len(s) + Len(t)) /\ q <= Len(s)
    BY <1>1
  <2> QED
    BY <1>2, <2>1
<1>4. ASSUME NEW q \in 1..Len(t) PROVE (s \o t)[Len(s) + q] = t[q]
  <2>1. Len(s) + q \in 1..(Len(s) + Len(t)) /\ ~(Len(s) + q <= Len(s))
        /\ (Len(s) + q) - Len(s) = q
    BY <1>1
  <2> QED
    BY <1>2, <2>1
<1> QED
  BY <1>1, <1>3, <1>4, JoinedBytes

\* The locals of a block are popped.
LEMMA PopLocalsLays ==
  ASSUME NEW n, NEW gen, IsGen(n, gen), NEW old_count \in Nat
  PROVE  LET popped == PopLocals(gen, old_count)
         IN Grown(gen.code, popped.code) /\ popped.exits = gen.exits
              /\ popped.panicked = gen.panicked
<1> DEFINE k == gen.stack_size - old_count
           pops == [i \in 1..k |-> OpByte["Pop"]]
           code == gen.code \o pops
<1>1. OpByte["Pop"] \in Byte
  BY OpByteIsByte, Written
<1>2. k \in Int /\ gen.code \in Seq(Byte) /\ DOMAIN gen = GenFields
  BY DEF IsGen
<1> HIDE DEF k
<1>3. pops \in Seq(Byte) /\ code \in Seq(Byte)
  BY <1>1, <1>2, PopsAreCode, JoinedBytes
<1>4. PopLocals(gen, old_count) = [gen EXCEPT !.code = code, !.stack_size = old_count]
  BY DEF PopLocals, k
<1>5. Grown(gen.code, code)
  <2>1. /\ Len(code) = Len(gen.code) + Len(pops)
        /\ \A q \in 1..Len(gen.code) : code[q] = gen.code[q]
        /\ \A q \in 1..Len(pops) : code[Len(gen.code) + q] = pops[q]
    BY <1>2, <1>3, JoinedPlaces
  <2>2. Len(pops) \in Nat /\ DOMAIN pops = 1..Len(pops) /\ Len(gen.code) \in Nat
    BY <1>2, <1>3, LenProperties
  <2>3. \A i \in 1..Len(pops) : pops[i] = OpByte["Pop"]
    BY <2>2
  <2> HIDE DEF pops, code
  <2>4. \A q \in (Len(gen.code) + 1)..Len(code) : code[q] = OpByte["Pop"]
    <3> SUFFICES ASSUME NEW q \in (Len(gen.code) + 1)..Len(code)
                 PROVE  code[q] = OpByte["Pop"]
      OBVIOUS
    <3>1. PICK r \in 1..Len(pops) : q = Len(gen.code) + r
      <4>1. q - Len(gen.code) \in 1..Len(pops) /\ q = Len(gen.code) + (q - Len(gen.code))
        BY <2>1, <2>2
      <4> QED
        BY <4>1
    <3> QED
      BY <2>1, <2>3, <3>1
  <2> QED
    BY <1>2, <1>3, <2>1, <2>2, <2>4, PopsAdded
<1> HIDE DEF code
<1> QED
  BY <1>2, <1>4, <1>5 DEF GenFields

\* A jump with its offset.
LEMMA ShortOpAdds ==
  ASSUME NEW n, NEW gen, IsGen(n, gen), NEW op \in {"Jump", "JumpIfNot"}, NEW k \in Int, FitsJump(k)
  PROVE  LET new == WriteShort(WriteInstr(gen, op), k)
         IN /\ Adds(gen.code, new.code, op)
            /\ TargetIn(new.code, Len(gen.code) + 1) = Len(new.code) + k
            /\ Len(new.code) = Len(gen.code) + 3 /\ Len(gen.code) \in Nat
            /\ new.exits = gen.exits /\ new.panicked = gen.panicked
<1> DEFINE l == Len(gen.code)
           first == Append(gen.code, OpByte[op])
           code == first \o Short(k)
           new == WriteShort(WriteInstr(gen, op), k)
<1>1. DOMAIN gen = GenFields /\ gen.code \in Seq(Byte) /\ op \in Range(OpNames) /\ l \in Nat
  BY Written, LenProperties DEF IsGen
<1>2. OpByte[op] \in Byte
  BY <1>1, OpByteIsByte
<1>3. new.code = code /\ new.exits = gen.exits /\ new.panicked = gen.panicked
  BY <1>1 DEF WriteInstr, WriteByte, WriteShort, GenFields
<1>4. /\ first \in Seq(Byte) /\ Len(first) = l + 1
      /\ \A q \in 1..l : first[q] = gen.code[q]
      /\ first[l + 1] = OpByte[op]
  BY <1>1, <1>2, AppendProperties
<1>5. Short(k) \in Seq(Byte) /\ Len(Short(k)) = 2
  BY ShortIsBytes
<1> HIDE DEF first
<1>6. /\ code \in Seq(Byte) /\ Len(code) = Len(first) + 2
      /\ \A q \in 1..Len(first) : code[q] = first[q]
      /\ \A q \in 1..2 : code[Len(first) + q] = Short(k)[q]
  <2>1. /\ code \in Seq(Byte) /\ Len(code) = Len(first) + Len(Short(k))
        /\ \A q \in 1..Len(first) : code[q] = first[q]
        /\ \A q \in 1..Len(Short(k)) : code[Len(first) + q] = Short(k)[q]
    BY <1>4, <1>5, JoinedPlaces
  <2> QED
    BY <1>5, <2>1
<1> HIDE DEF code, new, l
<1>7. /\ \A q \in 1..l : code[q] = gen.code[q]
      /\ code[l + 1] = OpByte[op] /\ Len(code) = l + 3
      /\ code[l + 2] = Short(k)[1] /\ code[l + 3] = Short(k)[2]
  <2>1. 1 \in 1..2 /\ Len(first) + 1 = l + 2
    BY <1>1, <1>4
  <2>2. 2 \in 1..2 /\ Len(first) + 2 = l + 3
    BY <1>1, <1>4
  <2>3. code[l + 2] = Short(k)[1] /\ code[l + 3] = Short(k)[2]
    BY <1>6, <2>1, <2>2
  <2>4. \A q \in 1..l : code[q] = gen.code[q]
    BY <1>1, <1>4, <1>6
  <2>5. code[l + 1] = OpByte[op] /\ Len(code) = l + 3
    BY <1>1, <1>4, <1>6
  <2> QED
    BY <2>3, <2>4, <2>5
<1>8. Width(op) = 3
  BY Widths DEF ShortOps
<1>9. Adds(gen.code, code, op)
  BY <1>1, <1>6, <1>7, <1>8 DEF Adds, l
<1>10. TargetIn(code, l + 1) = Len(code) + k
  <2>1. (l + 1) + 1 = l + 2 /\ (l + 1) + 2 = l + 3
    BY <1>1
  <2>2. Signed16(code[l + 2], code[l + 3]) = k
    BY <1>7, ShortRead
  <2> QED
    BY <1>7, <2>1, <2>2 DEF TargetIn
<1> QED
  BY <1>1, <1>3, <1>7, <1>9, <1>10 DEF l, new

\* Until it is patched, a forward jump leads right behind itself.
LEMMA JumpLays ==
  ASSUME NEW n, NEW gen, IsGen(n, gen), NEW op \in {"Jump", "JumpIfNot"}
  PROVE  LET new == WriteJump(gen, op)
         IN /\ LaysOut(n, gen, new)
            /\ new.panicked = gen.panicked
            /\ JumpArg(new) = Len(gen.code) + 1 /\ Len(gen.code) < Len(new.code)
            /\ \A S : IsRow(gen.code, S) =>
                 \E T : /\ IsRow(new.code, T) /\ S \subseteq T
                        /\ JumpArg(new) \in JumpsIn(new.code, T)
<1> DEFINE new == WriteJump(gen, op)
<1>1. 0 \in Int /\ FitsJump(0)
  <2>1. MaxJump \in Nat
    BY EmitAssumption
  <2> QED
    BY <2>1 DEF FitsJump
<1>2. /\ Adds(gen.code, new.code, op)
      /\ TargetIn(new.code, Len(gen.code) + 1) = Len(new.code) + 0
      /\ Len(new.code) = Len(gen.code) + 3 /\ Len(gen.code) \in Nat
      /\ new.exits = gen.exits /\ new.panicked = gen.panicked
  BY <1>1, ShortOpAdds DEF WriteJump
<1>3. Writes(n, gen, new)
  BY WriteJumpWrites
<1> HIDE DEF new
<1>4. JumpArg(new) = Len(gen.code) + 1 /\ Len(gen.code) < Len(new.code)
  BY <1>2 DEF JumpArg, Here
<1>5. ASSUME NEW S, IsRow(gen.code, S)
      PROVE  /\ IsRow(new.code, S \cup {Len(new.code)})
             /\ JumpArg(new) \in JumpsIn(new.code, S \cup {Len(new.code)})
  <2>1. op \in ShortOps
    BY DEF ShortOps
  <2>2. TargetIn(new.code, Len(gen.code) + 1) = Len(new.code) /\ Len(new.code) - Len(new.code) = 0
    BY <1>2
  <2> QED
    BY <1>1, <1>2, <1>4, <1>5, <2>1, <2>2, JumpAdded
<1>6. \A S : IsRow(gen.code, S) =>
        \E T : /\ IsRow(new.code, T) /\ S \subseteq T
               /\ JumpArg(new) \in JumpsIn(new.code, T)
  BY <1>5
<1>7. Grown(gen.code, new.code)
  <2>1. Len(gen.code) <= Len(new.code) /\ \A q \in 1..Len(gen.code) : new.code[q] = gen.code[q]
    BY <1>2 DEF Adds
  <2> QED
    BY <1>6, <2>1 DEF Grown
<1> QED
  BY <1>2, <1>3, <1>4, <1>6, <1>7 DEF LaysOut, new

\* A jump back leads where it should, or the generator gives up.
LEMMA JumpBackLays ==
  ASSUME NEW n, NEW gen, IsGen(n, gen), NEW S, IsRow(gen.code, S), NEW target \in S,
         ~WriteJumpBack(gen, target).panicked
  PROVE  LET new == WriteJumpBack(gen, target)
         IN /\ ~gen.panicked /\ Writes(n, gen, new) /\ new.exits = gen.exits
            /\ Len(new.code) = Len(gen.code) + 3 /\ Len(gen.code) \in Nat
            /\ \A q \in 1..Len(gen.code) : new.code[q] = gen.code[q]
            /\ JumpArg(new) = Len(gen.code) + 1
            /\ TargetIn(new.code, JumpArg(new)) = target
            /\ \E T : /\ IsRow(new.code, T) /\ S \subseteq T
                      /\ JumpArg(new) \in JumpsIn(new.code, T)
<1> DEFINE offset == target - (Len(gen.code) + 3)
           new == WriteJumpBack(gen, target)
<1>1. Len(gen.code) \in Nat /\ target \in Nat /\ DOMAIN gen = GenFields
  <2>1. Len(gen.code) \in Nat
    BY LenProperties DEF IsGen
  <2>2. target \in 0..Len(gen.code)
    BY DEF IsRow, Laid
  <2> QED
    BY <2>1, <2>2 DEF IsGen
<1>2. offset \in Int
  BY <1>1
<1>3. FitsJump(offset) /\ new = WriteShort(WriteInstr(gen, "Jump"), offset)
  <2>1. CASE FitsJump(offset)
    BY <2>1 DEF WriteJumpBack, Here
  <2>2. CASE ~FitsJump(offset)
    <3>1. new = [gen EXCEPT !.panicked = TRUE]
      BY <2>2 DEF WriteJumpBack, Here
    <3>2. new.panicked
      BY <1>1, <3>1 DEF GenFields
    <3> QED
      BY <3>2
  <2> QED
    BY <2>1, <2>2
<1>6. Writes(n, gen, new)
  BY <1>1, WriteJumpBackWrites
<1> HIDE DEF offset, new
<1>a. ~new.panicked
  BY DEF new
<1>4. /\ Adds(gen.code, new.code, "Jump")
      /\ TargetIn(new.code, Len(gen.code) + 1) = Len(new.code) + offset
      /\ Len(new.code) = Len(gen.code) + 3
      /\ new.exits = gen.exits /\ new.panicked = gen.panicked
  BY <1>2, <1>3, ShortOpAdds
<1>5. TargetIn(new.code, Len(gen.code) + 1) = target /\ target - Len(new.code) = offset
  BY <1>1, <1>4 DEF offset
<1>7. JumpArg(new) = Len(gen.code) + 1
  BY <1>1, <1>4 DEF JumpArg, Here
<1>8. "Jump" \in ShortOps
  BY DEF ShortOps
<1>b. FitsJump(target - Len(new.code)) /\ target \in S \cup {Len(new.code)}
  BY <1>3, <1>5
<1>c. /\ IsRow(new.code, S \cup {Len(new.code)})
      /\ Len(gen.code) + 1 \in JumpsIn(new.code, S \cup {Len(new.code)})
  BY <1>4, <1>5, <1>8, <1>b, JumpAdded
<1>9. /\ IsRow(new.code, S \cup {Len(new.code)})
      /\ JumpArg(new) \in JumpsIn(new.code, S \cup {Len(new.code)})
  BY <1>7, <1>c
<1>10. \A q \in 1..Len(gen.code) : new.code[q] = gen.code[q]
  BY <1>4 DEF Adds
<1> QED
  BY <1>1, <1>a, <1>4, <1>5, <1>6, <1>7, <1>9, <1>10 DEF new

\* Patching changes where the patched jumps lead, and nothing else.
LEMMA PatchLays ==
  ASSUME NEW n, NEW gen, IsGen(n, gen), NEW S, IsRow(gen.code, S),
         NEW jumps, jumps \subseteq JumpsIn(gen.code, S),
         NEW new, new = PatchToNext(gen, jumps), ~new.panicked
  PROVE  /\ ~gen.panicked /\ Writes(n, gen, new) /\ new.exits = gen.exits
         /\ Len(new.code) = Len(gen.code)
         /\ IsRow(new.code, S) /\ JumpsIn(new.code, S) = JumpsIn(gen.code, S)
         /\ \A at \in JumpsIn(gen.code, S) :
               TargetIn(new.code, at) = IF at \in jumps THEN Len(gen.code)
                                        ELSE TargetIn(gen.code, at)
<1> DEFINE c == gen.code
           bytes(jumpArg) == Short(OffsetToNext(gen, jumpArg))
           d == [i \in DOMAIN c |-> IF i - 1 \in jumps THEN bytes(i - 1)[1]
                                    ELSE IF i - 2 \in jumps THEN bytes(i - 2)[2]
                                    ELSE c[i]]
<1>1. c \in Seq(Byte) /\ Len(c) \in Nat /\ DOMAIN c = 1..Len(c) /\ DOMAIN gen = GenFields
  BY LenProperties DEF IsGen
<1>2. new = [gen EXCEPT !.code = d,
                        !.panicked = @ \/ \E at \in jumps : ~FitsJump(OffsetToNext(gen, at))]
  BY DEF PatchToNext
<1>3. Writes(n, gen, new)
  BY PatchWrites
<1>4. new.code = d /\ new.exits = gen.exits /\ ~gen.panicked
      /\ \A at \in jumps : FitsJump(OffsetToNext(gen, at))
  <2> HIDE DEF d
  <2> QED
    BY <1>1, <1>2 DEF GenFields
<1>5. d \in Seq(Byte) /\ Len(d) = Len(c)
  <2>1. d \in Seq(Byte)
    BY <1>3, <1>4 DEF Writes, IsGen
  <2>2. DOMAIN d = 1..Len(d) /\ DOMAIN d = DOMAIN c /\ Len(d) \in Nat
    BY <2>1, LenProperties
  <2> HIDE DEF d
  <2> QED
    BY <1>1, <2>1, <2>2
<1>6. ASSUME NEW at \in JumpsIn(c, S)
      PROVE  /\ at \in Nat /\ at + 2 <= Len(c) /\ at \in 1..Len(c)
             /\ \A m \in S : m # at /\ m # at + 1
             /\ at - 1 \in S
  BY <1>1, JumpPlaces DEF IsRow, JumpsIn
<1>7. S \subseteq 0..Len(c) /\ 0 \in S /\ Len(c) \in S
  BY DEF IsRow, Laid
<1>8. ASSUME NEW ip \in S \ {Len(c)} PROVE d[ip + 1] = c[ip + 1]
  <2>1. ip + 1 \in 1..Len(c) /\ ip \in Nat /\ (ip + 1) - 1 = ip /\ (ip + 1) - 2 = ip - 1
    BY <1>1, <1>7
  <2>2. ip \notin jumps
    BY <1>6
  <2>3. ip - 1 \notin jumps
    <3>1. ip - 1 \in jumps => ip # (ip - 1) + 1
      BY <1>6
    <3> QED
      BY <2>1, <3>1
  <2> QED
    BY <1>1, <2>1, <2>2, <2>3
<1>9. ASSUME NEW at \in JumpsIn(c, S), at \in jumps
      PROVE  TargetIn(d, at) = Len(c)
  <2>1. at + 1 \in 1..Len(c) /\ at + 2 \in 1..Len(c) /\ (at + 1) - 1 = at /\ (at + 2) - 2 = at
        /\ (at + 2) - 1 = at + 1
    BY <1>1, <1>6
  <2>2. at + 1 \notin jumps
    <3>1. at + 1 \in jumps => (at + 1) - 1 \in S /\ (at + 1) - 1 = at
      BY <1>6
    <3> QED
      BY <1>6, <3>1
  <2>3. d[at + 1] = bytes(at)[1]
    BY <1>1, <1>9, <2>1
  <2>4. d[at + 2] = bytes(at)[2]
    BY <1>1, <1>9, <2>1, <2>2
  <2>5. OffsetToNext(gen, at) = Len(c) - (at + 2) /\ Len(c) - (at + 2) \in Int
    BY <1>1, <1>6 DEF OffsetToNext, Here
  <2>6. FitsJump(Len(c) - (at + 2))
    BY <1>4, <1>9, <2>5
  <2> HIDE DEF d
  <2>7. Signed16(d[at + 1], d[at + 2]) = Len(c) - (at + 2)
    BY <2>3, <2>4, <2>5, <2>6, ShortRead
  <2> QED
    BY <1>1, <1>6, <2>7 DEF TargetIn
<1>10. ASSUME NEW at \in JumpsIn(c, S), at \notin jumps
       PROVE  TargetIn(d, at) = TargetIn(c, at)
  <2>1. at + 1 \in 1..Len(c) /\ at + 2 \in 1..Len(c) /\ (at + 1) - 1 = at /\ (at + 2) - 2 = at
        /\ (at + 2) - 1 = at + 1 /\ (at + 1) - 2 = at - 1
    BY <1>1, <1>6
  <2>2. at + 1 \notin jumps
    <3>1. at + 1 \in jumps => (at + 1) - 1 \in S /\ (at + 1) - 1 = at
      BY <1>6
    <3> QED
      BY <1>6, <3>1
  <2>3. at - 1 \notin jumps
    <3>1. at - 1 \in jumps => \A m \in S : m # at - 1
      BY <1>6
    <3> QED
      BY <1>6, <3>1
  <2>4. d[at + 1] = c[at + 1]
    BY <1>1, <1>10, <2>1, <2>3
  <2>5. d[at + 2] = c[at + 2]
    BY <1>1, <1>10, <2>1, <2>2
  <2> HIDE DEF d
  <2> QED
    BY <2>4, <2>5 DEF TargetIn
<1> HIDE DEF d, c
<1>11. \A ip \in S \ {Len(c)} : NextOf(d, ip) = NextOf(c, ip)
  BY <1>8 DEF NextOf
<1>12. Laid(d, S)
  BY <1>5, <1>8, <1>11 DEF IsRow, Laid, c
<1>13. JumpsIn(d, S) = JumpsIn(c, S)
  <2>1. ASSUME NEW at \in 1..Len(c), at - 1 \in S PROVE d[at] = c[at]
    <3>1. at - 1 # Len(c) /\ (at - 1) + 1 = at
      BY <1>1
    <3> QED
      BY <1>8, <2>1, <3>1
  <2> QED
    BY <1>5, <2>1 DEF JumpsIn
<1>14. JumpsStay(d, S)
  <2> SUFFICES ASSUME NEW at \in JumpsIn(c, S)
               PROVE  TargetIn(d, at) \in S /\ FitsJump(TargetIn(d, at) - (at + 2))
    BY <1>13 DEF JumpsStay
  <2>1. CASE at \in jumps
    <3>1. FitsJump(Len(c) - (at + 2))
      BY <1>4, <2>1 DEF OffsetToNext, Here, c
    <3> QED
      BY <1>7, <1>9, <2>1, <3>1
  <2>2. CASE at \notin jumps
    BY <1>10, <2>2 DEF IsRow, JumpsStay, c
  <2> QED
    BY <2>1, <2>2
<1> QED
  BY <1>3, <1>4, <1>5, <1>9, <1>10, <1>12, <1>13, <1>14 DEF IsRow, c

(***************************************************************************)
(* The places that the generator keeps.  J are the jumps over the branches *)
(* and loops that are open; they and the breaks still have to be patched.  *)
(***************************************************************************)
JumpsOpen(visits) == {visits[j].jump : j \in {k \in DOMAIN visits : visits[k].kind # "block"}}

Awaits(gen, J, at) == at \in J \/ \E b \in gen.break_backlog : b.jump = at

Settled(gen, J, S, e) ==
    /\ e.goal # Unknown
    /\ e.at \in JumpsIn(gen.code, S) /\ TargetIn(gen.code, e.at) = e.goal
    /\ ~Awaits(gen, J, e.at)

Awaited(gen, e) ==
    /\ e.goal = Unknown
    /\ \E b \in gen.break_backlog : b.jump = e.at /\ e.loop = gen.loop_starts[b.loop + 1]

StartsHold(gen, S) ==
    /\ \A k \in 1..Len(gen.loop_starts) :
          gen.loop_starts[k] \in S /\ gen.loop_starts[k] < Len(gen.code)
    /\ \A k, l \in 1..Len(gen.loop_starts) : k < l => gen.loop_starts[k] < gen.loop_starts[l]

BreaksHold(gen, J, S) ==
    /\ J \subseteq JumpsIn(gen.code, S)
    /\ \A b \in gen.break_backlog :
          /\ b.loop \in 0..(Len(gen.loop_starts) - 1)
          /\ b.jump \in JumpsIn(gen.code, S) /\ b.jump \notin J
    /\ \A b, c \in gen.break_backlog : b.jump = c.jump => b.loop = c.loop

ExitsHold(gen, J, S) ==
    \A e \in gen.exits :
        /\ e = Exit(e.at, e.loop, e.goal)
        /\ Settled(gen, J, S, e) \/ Awaited(gen, e)

Holds(gen, J, S) ==
    /\ IsRow(gen.code, S)
    /\ StartsHold(gen, S)
    /\ BreaksHold(gen, J, S)
    /\ ExitsHold(gen, J, S)

\* Where d goes on from c, the jumps are where they were and lead where they led.
Extends(c, d, S, T) ==
    /\ IsRow(c, S) /\ IsRow(d, T) /\ S \subseteq T
    /\ Len(c) <= Len(d)
    /\ \A q \in 1..Len(c) : d[q] = c[q]

\* The jumps of the old code are jumps of the new code.
LEMMA JumpsExtended ==
  ASSUME NEW c \in Seq(Byte), NEW d \in Seq(Byte), NEW S, NEW T, Extends(c, d, S, T)
  PROVE  /\ JumpsIn(c, S) \subseteq JumpsIn(d, T)
         /\ \A at \in JumpsIn(c, S) : TargetIn(d, at) = TargetIn(c, at) /\ at < Len(c)
<1>1. Len(c) \in Nat /\ Len(d) \in Nat
  BY LenProperties
<1>2. ASSUME NEW at \in JumpsIn(c, S)
      PROVE  at \in JumpsIn(d, T) /\ TargetIn(d, at) = TargetIn(c, at) /\ at < Len(c)
  <2>1. at \in Nat /\ at + 2 <= Len(c) /\ at \in 1..Len(c)
    BY JumpPlaces DEF Extends, IsRow, JumpsIn
  <2>2. at + 1 \in 1..Len(c) /\ at + 2 \in 1..Len(c) /\ at < Len(c) /\ at \in 1..Len(d)
    BY <1>1, <2>1 DEF Extends
  <2>3. d[at] = c[at] /\ d[at + 1] = c[at + 1] /\ d[at + 2] = c[at + 2]
    BY <2>1, <2>2 DEF Extends
  <2>4. at \in JumpsIn(d, T)
    BY <2>2, <2>3 DEF Extends, JumpsIn
  <2> QED
    BY <2>2, <2>3, <2>4 DEF TargetIn
<1> QED
  BY <1>2

\* Growing goes on from a row.
LEMMA GrownExtends ==
  ASSUME NEW c, NEW d, Grown(c, d), NEW S, IsRow(c, S)
  PROVE  \E T : Extends(c, d, S, T)
BY DEF Grown, Extends

\* Writing keeps the places,
LEMMA HoldsWritten ==
  ASSUME NEW old, NEW new, old.code \in Seq(Byte), new.code \in Seq(Byte),
         NEW J, NEW S, NEW T, Holds(old, J, S), Extends(old.code, new.code, S, T),
         new.loop_starts = old.loop_starts, new.break_backlog = old.break_backlog,
         new.exits = old.exits
  PROVE  Holds(new, J, T)
<1>1. /\ JumpsIn(old.code, S) \subseteq JumpsIn(new.code, T)
      /\ \A at \in JumpsIn(old.code, S) : TargetIn(new.code, at) = TargetIn(old.code, at)
  BY JumpsExtended
<1>2. Len(old.code) \in Nat /\ Len(new.code) \in Nat /\ Len(old.code) <= Len(new.code)
  BY LenProperties DEF Extends
<1>3. IsRow(new.code, T) /\ S \subseteq T
  BY DEF Extends
<1>4. StartsHold(new, T)
  <2>1. \A m \in S : m \in Nat
    BY <1>2 DEF Holds, IsRow, Laid
  <2> QED
    BY <1>2, <1>3, <2>1 DEF Holds, StartsHold
<1>5. BreaksHold(new, J, T)
  BY <1>1 DEF Holds, BreaksHold
<1>6. ExitsHold(new, J, T)
  <2> SUFFICES ASSUME NEW e \in old.exits
               PROVE  /\ e = Exit(e.at, e.loop, e.goal)
                      /\ Settled(new, J, T, e) \/ Awaited(new, e)
    BY DEF ExitsHold
  <2>1. /\ e = Exit(e.at, e.loop, e.goal)
        /\ Settled(old, J, S, e) \/ Awaited(old, e)
    BY DEF Holds, ExitsHold
  <2>2. CASE Settled(old, J, S, e)
    BY <1>1, <2>1, <2>2 DEF Settled, Awaits
  <2>3. CASE Awaited(old, e)
    BY <2>1, <2>3 DEF Awaited
  <2> QED
    BY <2>1, <2>2, <2>3
<1> QED
  BY <1>3, <1>4, <1>5, <1>6 DEF Holds

\* and so does the start of a loop, once something has been written behind it.
LEMMA HoldsBegun ==
  ASSUME NEW old, NEW new, old.code \in Seq(Byte), new.code \in Seq(Byte),
         old.loop_starts \in Seq(Nat),
         NEW J, NEW S, NEW T, Holds(old, J, S), Extends(old.code, new.code, S, T),
         Len(old.code) < Len(new.code),
         new.loop_starts = Append(old.loop_starts, Len(old.code)),
         new.break_backlog = old.break_backlog, new.exits = old.exits
  PROVE  Holds(new, J, T)
<1> DEFINE m == Len(old.loop_starts)
<1>1. /\ JumpsIn(old.code, S) \subseteq JumpsIn(new.code, T)
      /\ \A at \in JumpsIn(old.code, S) : TargetIn(new.code, at) = TargetIn(old.code, at)
  BY JumpsExtended
<1>2. Len(old.code) \in Nat /\ Len(new.code) \in Nat /\ Len(old.code) < Len(new.code) /\ m \in Nat
  BY LenProperties
<1>3. IsRow(new.code, T) /\ S \subseteq T
  BY DEF Extends
<1>a. Len(old.code) \in S /\ \A q \in S : q \in Nat
  BY <1>2 DEF Holds, IsRow, Laid
<1>b. /\ Len(new.loop_starts) = m + 1
      /\ \A k \in 1..m : new.loop_starts[k] = old.loop_starts[k]
      /\ new.loop_starts[m + 1] = Len(old.code)
  BY <1>2, AppendProperties
<1>c. \A k \in 1..(m + 1) : k \in 1..m \/ k = m + 1
  BY <1>2
<1>d. \A k \in 1..m : /\ old.loop_starts[k] \in S /\ old.loop_starts[k] \in Nat
                      /\ old.loop_starts[k] < Len(old.code)
  BY <1>a DEF Holds, StartsHold
<1> HIDE DEF m
<1>4. StartsHold(new, T)
  <2>1. ASSUME NEW k \in 1..(m + 1)
        PROVE  new.loop_starts[k] \in T /\ new.loop_starts[k] < Len(new.code)
    <3>1. CASE k \in 1..m
      BY <1>2, <1>3, <1>b, <1>d, <3>1
    <3>2. CASE k = m + 1
      BY <1>2, <1>3, <1>a, <1>b, <3>2
    <3> QED
      BY <1>c, <3>1, <3>2
  <2>2. ASSUME NEW k \in 1..(m + 1), NEW l \in 1..(m + 1), k < l
        PROVE  new.loop_starts[k] < new.loop_starts[l]
    <3>1. k \in 1..m
      BY <1>2, <2>2
    <3>2. CASE l \in 1..m
      <4>1. old.loop_starts[k] < old.loop_starts[l]
        BY <2>2, <3>1, <3>2 DEF Holds, StartsHold, m
      <4> QED
        BY <1>b, <3>1, <3>2, <4>1
    <3>3. CASE l = m + 1
      BY <1>b, <1>d, <3>1, <3>3
    <3> QED
      BY <1>c, <3>2, <3>3
  <2> QED
    BY <1>b, <2>1, <2>2 DEF StartsHold
<1>5. \A b \in old.break_backlog : b.loop \in 0..(m - 1) /\ b.loop \in 0..m /\ b.loop + 1 \in 1..m
  <2>1. \A k \in 0..(m - 1) : k \in 0..m /\ k + 1 \in 1..m
    BY <1>2
  <2> QED
    BY <2>1 DEF Holds, BreaksHold, m
<1>6. BreaksHold(new, J, T)
  <2>1. Len(new.loop_starts) - 1 = m
    BY <1>2, <1>b
  <2> QED
    BY <1>1, <1>5, <2>1 DEF Holds, BreaksHold
<1>7. ExitsHold(new, J, T)
  <2> SUFFICES ASSUME NEW e \in old.exits
               PROVE  /\ e = Exit(e.at, e.loop, e.goal)
                      /\ Settled(new, J, T, e) \/ Awaited(new, e)
    BY DEF ExitsHold
  <2>1. /\ e = Exit(e.at, e.loop, e.goal)
        /\ Settled(old, J, S, e) \/ Awaited(old, e)
    BY DEF Holds, ExitsHold
  <2>2. CASE Settled(old, J, S, e)
    BY <1>1, <2>1, <2>2 DEF Settled, Awaits
  <2>3. CASE Awaited(old, e)
    BY <1>5, <1>b, <2>1, <2>3 DEF Awaited
  <2> QED
    BY <2>1, <2>2, <2>3
<1> QED
  BY <1>3, <1>4, <1>6, <1>7 DEF Holds

\* A new jump may be kept among those to be patched.
LEMMA HoldsAwaiting ==
  ASSUME NEW gen, NEW J, NEW S, Holds(gen, J, S), NEW jump \in JumpsIn(gen.code, S),
         \A b \in gen.break_backlog : b.jump # jump, \A e \in gen.exits : e.at # jump
  PROVE  Holds(gen, J \cup {jump}, S)
<1>1. BreaksHold(gen, J \cup {jump}, S)
  BY DEF Holds, BreaksHold
<1>2. ExitsHold(gen, J \cup {jump}, S)
  BY DEF Holds, ExitsHold, Settled, Awaited, Awaits
<1> QED
  BY <1>1, <1>2 DEF Holds

\* One that is no longer to be patched may be forgotten.
LEMMA HoldsFewer ==
  ASSUME NEW gen, NEW J, NEW S, Holds(gen, J, S), NEW K, K \subseteq J
  PROVE  Holds(gen, K, S)
<1>1. BreaksHold(gen, K, S)
  BY DEF Holds, BreaksHold
<1>2. ExitsHold(gen, K, S)
  BY DEF Holds, ExitsHold, Settled, Awaited, Awaits
<1> QED
  BY <1>1, <1>2 DEF Holds

\* Patching those that are to be patched keeps the places.
LEMMA HoldsPatched ==
  ASSUME NEW n, NEW gen, IsGen(n, gen), NEW J, NEW S, Holds(gen, J, S),
         NEW jumps, \A at \in jumps : Awaits(gen, J, at),
         NEW new, new = PatchToNext(gen, jumps), ~new.panicked
  PROVE  /\ ~gen.panicked /\ Writes(n, gen, new) /\ new.exits = gen.exits
         /\ Len(new.code) = Len(gen.code) /\ Holds(new, J, S)
         /\ \A at \in jumps : at \in JumpsIn(new.code, S)
                              /\ TargetIn(new.code, at) = Len(new.code)
<1>1. jumps \subseteq JumpsIn(gen.code, S)
  BY DEF Holds, BreaksHold, Awaits
<1>2. /\ ~gen.panicked /\ Writes(n, gen, new) /\ new.exits = gen.exits
      /\ Len(new.code) = Len(gen.code)
      /\ IsRow(new.code, S) /\ JumpsIn(new.code, S) = JumpsIn(gen.code, S)
      /\ \A at \in JumpsIn(gen.code, S) :
            TargetIn(new.code, at) = IF at \in jumps THEN Len(gen.code)
                                     ELSE TargetIn(gen.code, at)
  BY <1>1, PatchLays DEF Holds
<1>3. new.loop_starts = gen.loop_starts /\ new.break_backlog = gen.break_backlog
  BY <1>2 DEF Writes, SameBooks
<1>4. StartsHold(new, S)
  BY <1>2, <1>3 DEF Holds, StartsHold
<1>5. BreaksHold(new, J, S)
  BY <1>2, <1>3 DEF Holds, BreaksHold
<1>6. ExitsHold(new, J, S)
  <2> SUFFICES ASSUME NEW e \in gen.exits
               PROVE  /\ e = Exit(e.at, e.loop, e.goal)
                      /\ Settled(new, J, S, e) \/ Awaited(new, e)
    BY <1>2 DEF ExitsHold
  <2>1. /\ e = Exit(e.at, e.loop, e.goal)
        /\ Settled(gen, J, S, e) \/ Awaited(gen, e)
    BY DEF Holds, ExitsHold
  <2>2. CASE Settled(gen, J, S, e)
    BY <1>2, <1>3, <2>1, <2>2 DEF Settled, Awaits
  <2>3. CASE Awaited(gen, e)
    BY <1>3, <2>1, <2>3 DEF Awaited
  <2> QED
    BY <2>1, <2>2, <2>3
<1> QED
  BY <1>1, <1>2, <1>4, <1>5, <1>6 DEF Holds

\* A loop's end, where its breaks land.
LEMMA HoldsEnded ==
  ASSUME NEW n, NEW gen, IsGen(n, gen), NEW J, NEW S, Holds(gen, J, S), gen.loop_starts # <<>>,
         NEW new, new = Landed(EndLoop(gen), gen.loop_starts[Len(gen.loop_starts)]), ~new.panicked
  PROVE  /\ ~gen.panicked /\ Holds(new, J, S)
         /\ new.loop_starts = SubSeq(gen.loop_starts, 1, Len(gen.loop_starts) - 1)
<1> DEFINE m == Len(gen.loop_starts)
           start == gen.loop_starts[m]
           landing == {b.jump : b \in {c \in gen.break_backlog : c.loop = m - 1}}
           patched == PatchToNext(gen, landing)
           fewer == SubSeq(gen.loop_starts, 1, m - 1)
           rest == {b \in gen.break_backlog : b.loop # m - 1}
           land(e) == IF e.loop = start /\ e.goal = Unknown
                      THEN [e EXCEPT !.goal = Len(patched.code)] ELSE e
<1>1. /\ m \in Nat \ {0} /\ DOMAIN gen = GenFields /\ gen.loop_starts \in Seq(Nat)
      /\ gen.code \in Seq(Byte)
  BY LenProperties, EmptySeq DEF IsGen
<1>2. DOMAIN patched = GenFields /\ Writes(n, gen, patched)
  BY PatchWrites DEF Writes, IsGen
<1>3. EndLoop(gen) = [patched EXCEPT !.loop_starts = SubSeq(@, 1, m - 1),
                                     !.break_backlog = {b \in @ : b.loop # m - 1}]
  BY DEF EndLoop
<1> HIDE DEF patched
<1>4. /\ new.code = patched.code /\ new.loop_starts = fewer
      /\ new.break_backlog = rest /\ new.panicked = patched.panicked
      /\ new.exits = {land(e) : e \in patched.exits}
  <2>1. patched.loop_starts = gen.loop_starts /\ patched.break_backlog = gen.break_backlog
    BY <1>2 DEF Writes, SameBooks
  <2>2. /\ EndLoop(gen).code = patched.code /\ EndLoop(gen).loop_starts = fewer
        /\ EndLoop(gen).break_backlog = rest /\ EndLoop(gen).panicked = patched.panicked
        /\ EndLoop(gen).exits = patched.exits /\ DOMAIN EndLoop(gen) = GenFields
    BY <1>2, <1>3, <2>1 DEF GenFields
  <2>3. new = [EndLoop(gen) EXCEPT !.exits = {land(e) : e \in patched.exits}]
    BY <2>2 DEF Landed, Here
  <2> HIDE DEF land, fewer, rest
  <2> QED
    BY <2>2, <2>3 DEF GenFields
<1>5. \A at \in landing : Awaits(gen, J, at)
  BY DEF Awaits
<1> HIDE DEF landing
<1>6. /\ ~gen.panicked /\ patched.exits = gen.exits
      /\ Len(patched.code) = Len(gen.code) /\ Holds(patched, J, S)
      /\ patched.loop_starts = gen.loop_starts /\ patched.break_backlog = gen.break_backlog
      /\ \A at \in landing : at \in JumpsIn(patched.code, S)
                             /\ TargetIn(patched.code, at) = Len(patched.code)
  BY <1>4, <1>5, HoldsPatched DEF patched, Writes, SameBooks
<1>7. /\ Len(fewer) = m - 1
      /\ \A k \in 1..(m - 1) : fewer[k] = gen.loop_starts[k]
  <2>1. m - 1 \in 0..m /\ IsSequence(gen.loop_starts)
    BY <1>1, SeqIsSequence
  <2> QED
    BY <2>1, FirstPart
<1> HIDE DEF fewer
<1>8. \A k \in 1..(m - 1) : k \in 1..m
  BY <1>1
<1>9. IsRow(new.code, S)
  BY <1>4, <1>6 DEF Holds
<1>10. StartsHold(new, S)
  <2>1. StartsHold(patched, S)
    BY <1>6 DEF Holds
  <2> QED
    BY <1>4, <1>6, <1>7, <1>8, <2>1 DEF StartsHold
<1>11. \A b \in rest : b.loop \in 0..(m - 2) /\ b.loop + 1 \in 1..(m - 1)
  <2> SUFFICES ASSUME NEW b \in rest PROVE b.loop \in 0..(m - 2) /\ b.loop + 1 \in 1..(m - 1)
    OBVIOUS
  <2>1. b.loop \in 0..(m - 1) /\ b.loop # m - 1
    BY <1>6 DEF Holds, BreaksHold
  <2> QED
    BY <1>1, <2>1
<1>12. BreaksHold(new, J, S)
  <2>1. BreaksHold(patched, J, S)
    BY <1>6 DEF Holds
  <2>2. Len(new.loop_starts) - 1 = m - 2
    BY <1>1, <1>4, <1>7
  <2> QED
    BY <1>4, <1>6, <1>11, <2>1, <2>2 DEF BreaksHold
<1>13. ExitsHold(new, J, S)
  <2> SUFFICES ASSUME NEW e \in patched.exits
               PROVE  LET f == land(e)
                      IN /\ f = Exit(f.at, f.loop, f.goal)
                         /\ Settled(new, J, S, f) \/ Awaited(new, f)
    BY <1>4 DEF ExitsHold
  <2>1. /\ e = Exit(e.at, e.loop, e.goal)
        /\ Settled(patched, J, S, e) \/ Awaited(patched, e)
    BY <1>6 DEF Holds, ExitsHold
  <2>2. CASE Settled(patched, J, S, e)
    <3>1. land(e) = e
      BY <2>2 DEF Settled
    <3>2. Settled(new, J, S, e)
      BY <1>4, <1>6, <2>2 DEF Settled, Awaits
    <3> QED
      BY <2>1, <3>1, <3>2
  <2>3. CASE Awaited(patched, e)
    <3>1. PICK b \in gen.break_backlog : b.jump = e.at /\ e.loop = gen.loop_starts[b.loop + 1]
      BY <1>6, <2>3 DEF Awaited
    <3>2. e.goal = Unknown
      BY <2>3 DEF Awaited
    <3>3. b.loop \in 0..(m - 1) /\ b.jump \notin J
      BY <1>6, <3>1 DEF Holds, BreaksHold
    <3>4. CASE b.loop = m - 1
      <4>1. e.loop = start
        BY <1>1, <3>1, <3>4
      <4>2. land(e) = Exit(e.at, e.loop, Len(patched.code))
        BY <2>1, <3>2, <4>1 DEF Exit
      <4>3. e.at \in landing
        BY <3>1, <3>4 DEF landing
      <4>4. ~Awaits(new, J, e.at)
        <5>1. \A c \in rest : c.jump # e.at
          BY <1>6, <3>1, <3>4 DEF Holds, BreaksHold
        <5> QED
          BY <1>4, <3>1, <3>3, <5>1 DEF Awaits
      <4>5. Len(patched.code) # Unknown
        BY <1>1, <1>6, LenProperties DEF Unknown
      <4>6. land(e).at = e.at /\ land(e).goal = Len(patched.code) /\ land(e).loop = e.loop
        BY <4>2 DEF Exit
      <4>7. Settled(new, J, S, land(e))
        BY <1>4, <1>6, <4>3, <4>4, <4>5, <4>6 DEF Settled
      <4> HIDE DEF land
      <4> QED
        BY <4>2, <4>6, <4>7
    <3>5. CASE b.loop # m - 1
      <4>1. b \in rest /\ b.loop + 1 \in 1..(m - 1)
        BY <1>11, <3>1, <3>5
      <4>2. e.loop # start
        <5>1. b.loop + 1 \in 1..m /\ m \in 1..m /\ b.loop + 1 < m
          BY <1>1, <4>1
        <5>2. /\ gen.loop_starts[b.loop + 1] < gen.loop_starts[m]
              /\ gen.loop_starts[b.loop + 1] \in Nat /\ gen.loop_starts[m] \in Nat
          BY <1>1, <5>1, ElementOfSeq DEF Holds, StartsHold
        <5> HIDE DEF m
        <5> QED
          BY <3>1, <5>2
      <4>3. land(e) = e
        BY <4>2
      <4>4. Awaited(new, e)
        BY <1>4, <1>7, <3>1, <3>2, <4>1 DEF Awaited
      <4> QED
        BY <2>1, <4>3, <4>4
    <3> QED
      BY <3>4, <3>5
  <2> QED
    BY <2>1, <2>2, <2>3
<1> QED
  BY <1>4, <1>6, <1>9, <1>10, <1>12, <1>13 DEF Holds, fewer

\* A continue has its goal at once.
LEMMA HoldsContinue ==
  ASSUME NEW n, NEW gen, IsGen(n, gen), NEW J, NEW S, Holds(gen, J, S),
         NEW at \in JumpsIn(gen.code, S), ~Awaits(gen, J, at),
         NEW loop, NEW goal, goal # Unknown, TargetIn(gen.code, at) = goal
  PROVE  Holds(Exits(gen, at, loop, goal), J, S)
<1> DEFINE new == Exits(gen, at, loop, goal)
<1>1. /\ new.code = gen.code /\ new.loop_starts = gen.loop_starts
      /\ new.break_backlog = gen.break_backlog
      /\ new.exits = gen.exits \cup {Exit(at, loop, goal)}
  BY DEF Exits, IsGen, GenFields
<1> HIDE DEF new
<1>2. StartsHold(new, S) /\ BreaksHold(new, J, S)
  BY <1>1 DEF Holds, StartsHold, BreaksHold
<1>3. ExitsHold(new, J, S)
  <2>1. ASSUME NEW e \in gen.exits
        PROVE  /\ e = Exit(e.at, e.loop, e.goal)
               /\ Settled(new, J, S, e) \/ Awaited(new, e)
    BY <1>1 DEF Holds, ExitsHold, Settled, Awaited, Awaits
  <2>2. Exit(at, loop, goal).at = at /\ Exit(at, loop, goal).goal = goal
        /\ Exit(at, loop, goal).loop = loop
    BY DEF Exit
  <2>3. Settled(new, J, S, Exit(at, loop, goal))
    BY <1>1, <2>2 DEF Settled, Awaits
  <2> QED
    BY <1>1, <2>1, <2>2, <2>3 DEF ExitsHold
<1> QED
  BY <1>1, <1>2, <1>3 DEF Holds, new

\* A break waits for the end of the loop that it leaves.
LEMMA HoldsBreak ==
  ASSUME NEW gen, NEW J, NEW S, Holds(gen, J, S), NEW jump \in JumpsIn(gen.code, S),
         ~Awaits(gen, J, jump), \A e \in gen.exits : e.at # jump,
         NEW loop \in 0..(Len(gen.loop_starts) - 1),
         NEW new, new.code = gen.code, new.loop_starts = gen.loop_starts,
         new.break_backlog = gen.break_backlog \cup {[jump |-> jump, loop |-> loop]},
         new.exits = gen.exits \cup {Exit(jump, gen.loop_starts[loop + 1], Unknown)}
  PROVE  Holds(new, J, S)
<1> DEFINE b == [jump |-> jump, loop |-> loop]
           f == Exit(jump, gen.loop_starts[loop + 1], Unknown)
<1>1. b.jump = jump /\ b.loop = loop
  OBVIOUS
<1>2. f.at = jump /\ f.loop = gen.loop_starts[loop + 1] /\ f.goal = Unknown
      /\ f = Exit(f.at, f.loop, f.goal)
  BY DEF Exit
<1> HIDE DEF b, f
<1>3. new.break_backlog = gen.break_backlog \cup {b} /\ new.exits = gen.exits \cup {f}
  BY DEF b, f
<1>4. StartsHold(new, S)
  BY DEF Holds, StartsHold
<1>5. BreaksHold(new, J, S)
  <2>1. /\ jump \notin J /\ \A c \in gen.break_backlog : c.jump # jump
        /\ BreaksHold(gen, J, S)
    BY DEF Awaits, Holds
  <2> QED
    BY <1>1, <1>3, <2>1 DEF BreaksHold
<1>6. ExitsHold(new, J, S)
  <2>1. ASSUME NEW e \in gen.exits
        PROVE  /\ e = Exit(e.at, e.loop, e.goal)
               /\ Settled(new, J, S, e) \/ Awaited(new, e)
    <3>1. /\ e = Exit(e.at, e.loop, e.goal) /\ e.at # jump
          /\ Settled(gen, J, S, e) \/ Awaited(gen, e)
      BY DEF Holds, ExitsHold
    <3>2. CASE Settled(gen, J, S, e)
      BY <1>1, <1>3, <3>1, <3>2 DEF Settled, Awaits
    <3>3. CASE Awaited(gen, e)
      BY <1>3, <3>1, <3>3 DEF Awaited
    <3> QED
      BY <3>1, <3>2, <3>3
  <2>2. Awaited(new, f)
    BY <1>1, <1>2, <1>3 DEF Awaited
  <2> QED
    BY <1>2, <1>3, <2>1, <2>2 DEF ExitsHold
<1> QED
  BY <1>4, <1>5, <1>6 DEF Holds

(***************************************************************************)
(* The loops that are open, and their starts.                              *)
(***************************************************************************)
Inside(visits, i) == {j \in Whiles(visits) : j > i}

\* The n-th loop from the inside has the n-th start from the end.
StartsMatch(starts, visits) ==
    /\ \A i \in Whiles(visits) :
          /\ Cardinality(Inside(visits, i)) + 1 \in 1..Len(starts)
          /\ visits[i].start = starts[Len(starts) - Cardinality(Inside(visits, i))]
    /\ \A k \in 1..Len(starts) :
          \E i \in Whiles(visits) : Cardinality(Inside(visits, i)) = k - 1

\* Only so many loops are inside another.
LEMMA InsideFinite ==
  ASSUME NEW visits \in Seq(OpenVisits), NEW i
  PROVE  IsFiniteSet(Inside(visits, i)) /\ Cardinality(Inside(visits, i)) \in Nat
<1>1. IsFiniteSet(Inside(visits, i))
  BY WhilesFinite, FS_Subset DEF Inside
<1> QED
  BY <1>1, FS_CardinalityType

\* A statement that is no loop leaves them alone.
LEMMA MatchOpened ==
  ASSUME NEW visits \in Seq(OpenVisits), NEW v \in OpenVisits, v.kind # "while",
         NEW starts, StartsMatch(starts, visits)
  PROVE  StartsMatch(starts, Append(visits, v))
<1>1. Whiles(Append(visits, v)) = Whiles(visits)
  BY VisitOpened DEF Whiles
<1>2. \A i \in Whiles(visits) : Append(visits, v)[i] = visits[i]
  BY VisitOpened DEF Whiles
<1>3. \A i : Inside(Append(visits, v), i) = Inside(visits, i)
  BY <1>1 DEF Inside
<1> QED
  BY <1>1, <1>2, <1>3 DEF StartsMatch

\* A loop adds its start.
LEMMA MatchBegun ==
  ASSUME NEW visits \in Seq(OpenVisits), NEW v \in OpenVisits, v.kind = "while",
         NEW starts \in Seq(Nat), StartsMatch(starts, visits)
  PROVE  StartsMatch(Append(starts, v.start), Append(visits, v))
<1> DEFINE m == Len(starts)
           new == Len(visits) + 1
           more == Append(visits, v)
           longer == Append(starts, v.start)
           inside(i) == Inside(visits, i)
<1>1. m \in Nat /\ Len(visits) \in Nat /\ v.start \in Nat
  BY LenProperties DEF OpenVisits
<1>2. /\ Len(longer) = m + 1 /\ longer[m + 1] = v.start
      /\ \A k \in 1..m : longer[k] = starts[k]
  BY <1>1, AppendProperties
<1>3. /\ DOMAIN visits = 1..Len(visits) /\ DOMAIN more = 1..(Len(visits) + 1)
      /\ \A j \in 1..Len(visits) : more[j] = visits[j]
      /\ more[new] = v
  BY VisitOpened
<1> HIDE DEF longer, more
<1>4. Whiles(more) = Whiles(visits) \cup {new}
  BY <1>1, <1>3 DEF Whiles
<1>5. \A i \in Whiles(visits) : i \in 1..Len(visits) /\ i < new /\ i # new /\ i \in Nat
  BY <1>1, <1>3 DEF Whiles
<1> HIDE DEF new
<1>6. Inside(more, new) = {}
  BY <1>1, <1>4, <1>5 DEF Inside, new
<1>7. Cardinality(Inside(more, new)) = 0
  BY <1>6, FS_EmptySet
<1>8. ASSUME NEW i \in Whiles(visits)
      PROVE  /\ Cardinality(Inside(more, i)) = Cardinality(Inside(visits, i)) + 1
             /\ Cardinality(Inside(visits, i)) \in Nat
  <2>1. Inside(more, i) = Inside(visits, i) \cup {new}
    BY <1>4, <1>5 DEF Inside
  <2>2. new \notin Inside(visits, i)
    BY <1>5 DEF Inside
  <2> QED
    BY <2>1, <2>2, InsideFinite, FS_AddElement
<1>9. ASSUME NEW i \in Whiles(more)
      PROVE  /\ Cardinality(Inside(more, i)) + 1 \in 1..Len(longer)
             /\ more[i].start = longer[Len(longer) - Cardinality(Inside(more, i))]
  <2>1. CASE i = new
    <3>1. (m + 1) - 0 = m + 1 /\ 0 + 1 \in 1..(m + 1)
      BY <1>1
    <3> QED
      BY <1>2, <1>3, <1>7, <2>1, <3>1
  <2>2. CASE i \in Whiles(visits)
    <3> DEFINE c == Cardinality(Inside(visits, i))
    <3>1. c + 1 \in 1..m /\ visits[i].start = starts[m - c] /\ c \in Nat
      BY <1>8, <2>2 DEF StartsMatch
    <3>2. Cardinality(Inside(more, i)) = c + 1
      BY <1>8, <2>2
    <3> HIDE DEF c
    <3>3. (c + 1) + 1 \in 1..(m + 1) /\ (m + 1) - (c + 1) = m - c /\ m - c \in 1..m
      BY <1>1, <3>1
    <3>4. more[i] = visits[i]
      BY <1>3, <1>5, <2>2
    <3> QED
      BY <1>2, <3>1, <3>2, <3>3, <3>4
  <2> QED
    BY <1>4, <2>1, <2>2
<1>10. ASSUME NEW k \in 1..Len(longer)
       PROVE  \E i \in Whiles(more) : Cardinality(Inside(more, i)) = k - 1
  <2>1. CASE k = 1
    BY <1>4, <1>7, <2>1
  <2>2. CASE k # 1
    <3>1. k - 1 \in 1..m
      BY <1>1, <1>2, <2>2
    <3>2. PICK i \in Whiles(visits) : Cardinality(Inside(visits, i)) = (k - 1) - 1
      BY <3>1 DEF StartsMatch
    <3>3. Cardinality(Inside(more, i)) = ((k - 1) - 1) + 1
      BY <1>8, <3>2
    <3> QED
      BY <1>1, <1>2, <1>4, <3>3
  <2> QED
    BY <2>1, <2>2
<1> QED
  BY <1>9, <1>10 DEF StartsMatch, longer, more

\* Closing a statement that is no loop leaves them alone, too.
LEMMA MatchClosed ==
  ASSUME NEW visits \in Seq(OpenVisits), visits # <<>>, Last(visits).kind # "while",
         NEW starts, StartsMatch(starts, visits)
  PROVE  StartsMatch(starts, Front(visits))
<1> DEFINE last == Len(visits)
           front == Front(visits)
<1>1. /\ last \in Nat \ {0} /\ DOMAIN visits = 1..last /\ DOMAIN front = 1..(last - 1)
      /\ \A j \in 1..(last - 1) : front[j] = visits[j]
      /\ visits[last].kind # "while"
  BY VisitClosed
<1> HIDE DEF last, front
<1>2. \A j \in 1..last : j \in 1..(last - 1) \/ j = last
  BY <1>1
<1>3. \A j \in 1..(last - 1) : j \in 1..last
  BY <1>1
<1>4. Whiles(front) = Whiles(visits)
  BY <1>1, <1>2, <1>3 DEF Whiles
<1>5. \A i \in Whiles(visits) : front[i] = visits[i]
  BY <1>1, <1>4 DEF Whiles
<1>6. \A i : Inside(front, i) = Inside(visits, i)
  BY <1>4 DEF Inside
<1> QED
  BY <1>4, <1>5, <1>6 DEF StartsMatch, front

\* The innermost loop has the last start, which goes with it.
LEMMA MatchEnded ==
  ASSUME NEW visits \in Seq(OpenVisits), visits # <<>>, Last(visits).kind = "while",
         NEW starts \in Seq(Nat), StartsMatch(starts, visits)
  PROVE  /\ Len(starts) \in Nat \ {0} /\ Last(visits).start = starts[Len(starts)]
         /\ StartsMatch(SubSeq(starts, 1, Len(starts) - 1), Front(visits))
<1> DEFINE m == Len(starts)
           last == Len(visits)
           front == Front(visits)
           shorter == SubSeq(starts, 1, m - 1)
<1>1. /\ last \in Nat \ {0} /\ DOMAIN visits = 1..last /\ DOMAIN front = 1..(last - 1)
      /\ \A j \in 1..(last - 1) : front[j] = visits[j]
      /\ visits[last].kind = "while" /\ Last(visits) = visits[last]
      /\ front \in Seq(OpenVisits)
  BY VisitClosed
<1> HIDE DEF last, front
<1>2. \A j \in 1..last : j \in 1..(last - 1) \/ j = last
  BY <1>1
<1>3. \A j \in 1..(last - 1) : j \in 1..last /\ j # last /\ j < last
  BY <1>1
<1>4. Whiles(visits) = Whiles(front) \cup {last}
  BY <1>1, <1>2, <1>3 DEF Whiles
<1>5. \A i \in Whiles(front) : i \in 1..(last - 1) /\ front[i] = visits[i]
  BY <1>1 DEF Whiles
<1>6. Inside(visits, last) = {}
  BY <1>1, <1>3, <1>4, <1>5 DEF Inside
<1>7. Cardinality(Inside(visits, last)) = 0
  BY <1>6, FS_EmptySet
<1>8. m \in Nat
  BY LenProperties
<1>9. m \in Nat \ {0} /\ visits[last].start = starts[m]
  <2>1. /\ 0 + 1 \in 1..m
        /\ visits[last].start = starts[m - 0]
    BY <1>4, <1>7 DEF StartsMatch
  <2> QED
    BY <1>8, <2>1
<1>10. /\ Len(shorter) = m - 1
       /\ \A k \in 1..(m - 1) : shorter[k] = starts[k]
  <2>1. m - 1 \in 0..m /\ IsSequence(starts)
    BY <1>9, SeqIsSequence
  <2> QED
    BY <2>1, FirstPart
<1> HIDE DEF shorter
<1>11. ASSUME NEW i \in Whiles(front)
       PROVE  /\ Cardinality(Inside(visits, i)) = Cardinality(Inside(front, i)) + 1
              /\ Cardinality(Inside(front, i)) \in Nat
  <2>1. Inside(visits, i) = Inside(front, i) \cup {last}
    BY <1>3, <1>4, <1>5 DEF Inside
  <2>2. last \notin Inside(front, i)
    BY <1>3, <1>5 DEF Inside
  <2> QED
    BY <1>1, <2>1, <2>2, InsideFinite, FS_AddElement
<1>12. ASSUME NEW i \in Whiles(front)
       PROVE  /\ Cardinality(Inside(front, i)) + 1 \in 1..Len(shorter)
              /\ front[i].start = shorter[Len(shorter) - Cardinality(Inside(front, i))]
  <2> DEFINE c == Cardinality(Inside(front, i))
  <2>1. /\ (c + 1) + 1 \in 1..m /\ visits[i].start = starts[m - (c + 1)] /\ c \in Nat
    BY <1>4, <1>11 DEF StartsMatch
  <2> HIDE DEF c
  <2>2. c + 1 \in 1..(m - 1) /\ (m - 1) - c = m - (c + 1) /\ (m - 1) - c \in 1..(m - 1)
    BY <1>9, <2>1
  <2>3. front[i].start = shorter[(m - 1) - c]
    BY <1>5, <1>10, <2>1, <2>2
  <2> QED
    BY <1>10, <2>2, <2>3 DEF c
<1>13. ASSUME NEW k \in 1..Len(shorter)
       PROVE  \E i \in Whiles(front) : Cardinality(Inside(front, i)) = k - 1
  <2>1. k + 1 \in 1..m /\ k \in 1..(m - 1) /\ (k + 1) - 1 = k
    BY <1>9, <1>10
  <2>2. PICK i \in Whiles(visits) : Cardinality(Inside(visits, i)) = k
    BY <2>1 DEF StartsMatch
  <2>3. i # last
    BY <1>7, <2>1, <2>2
  <2>4. i \in Whiles(front)
    BY <1>4, <2>2, <2>3
  <2>5. k = Cardinality(Inside(front, i)) + 1 /\ Cardinality(Inside(front, i)) \in Nat
    BY <1>11, <2>2, <2>4
  <2> QED
    BY <2>4, <2>5
<1>14. StartsMatch(shorter, front)
  BY <1>12, <1>13 DEF StartsMatch
<1> QED
  BY <1>1, <1>9, <1>14 DEF shorter, front

\* The loop that a break or a continue names is the one whose start it takes.
LEMMA LoopFound ==
  ASSUME NEW starts, StartsMatch(starts, Visits), NEW k \in 1..Len(starts)
  PROVE  Loop(k).start = starts[Len(starts) - (k - 1)]
<1> DEFINE found == CHOOSE i \in Whiles(Visits) : Cardinality(Inside(Visits, i)) = k - 1
<1>1. \E i \in Whiles(Visits) : Cardinality(Inside(Visits, i)) = k - 1
  BY DEF StartsMatch
<1>2. found \in Whiles(Visits) /\ Cardinality(Inside(Visits, found)) = k - 1
  BY <1>1
<1>3. Loop(k) = Visits[found]
  BY DEF Loop, Whiles, Inside
<1> HIDE DEF found
<1>4. Visits[found].start = starts[Len(starts) - Cardinality(Inside(Visits, found))]
  BY <1>2 DEF StartsMatch
<1> QED
  BY <1>2, <1>3, <1>4

\* Without an open statement there is no open loop.
LEMMA NoneOpen ==
  ASSUME NEW starts \in Seq(Nat), StartsMatch(starts, <<>>)
  PROVE  starts = <<>>
<1>1. Whiles(<<>>) = {}
  BY DEF Whiles
<1>2. Len(starts) \in Nat /\ ~(1 \in 1..Len(starts))
  BY <1>1, LenProperties DEF StartsMatch
<1>3. Len(starts) = 0
  BY <1>2
<1> QED
  BY <1>3, EmptySeq

\* The jumps of the open statements.
LEMMA JumpOpened ==
  ASSUME NEW visits \in Seq(OpenVisits), NEW v \in OpenVisits
  PROVE  JumpsOpen(Append(visits, v)) \subseteq JumpsOpen(visits)
           \cup (IF v.kind = "block" THEN {} ELSE {v.jump})
<1>1. /\ DOMAIN visits = 1..Len(visits) /\ DOMAIN Append(visits, v) = 1..(Len(visits) + 1)
      /\ \A j \in 1..Len(visits) : Append(visits, v)[j] = visits[j]
      /\ Append(visits, v)[Len(visits) + 1] = v /\ Len(visits) \in Nat
  BY VisitOpened
<1>2. \A j \in 1..(Len(visits) + 1) : j \in 1..Len(visits) \/ j = Len(visits) + 1
  BY <1>1
<1> QED
  BY <1>1, <1>2 DEF JumpsOpen

\* A construct that ends gives up its jump, and no other.
LEMMA JumpClosed ==
  ASSUME NEW visits \in Seq(OpenVisits), visits # <<>>
  PROVE  /\ JumpsOpen(Front(visits)) \subseteq JumpsOpen(visits)
         /\ Last(visits).kind # "block" => Last(visits).jump \in JumpsOpen(visits)
<1>1. /\ Len(visits) \in Nat \ {0} /\ DOMAIN visits = 1..Len(visits)
      /\ DOMAIN Front(visits) = 1..(Len(visits) - 1)
      /\ \A j \in 1..(Len(visits) - 1) : Front(visits)[j] = visits[j]
      /\ Last(visits) = visits[Len(visits)]
  BY VisitClosed
<1>2. /\ \A j \in 1..(Len(visits) - 1) : j \in 1..Len(visits)
      /\ Len(visits) \in 1..Len(visits)
  BY <1>1
<1> QED
  BY <1>1, <1>2 DEF JumpsOpen

(***************************************************************************)
(* The invariant of the layout.                                            *)
(***************************************************************************)
\* A function under compilation.
KeepsPlaces(gen, visits) ==
    /\ StartsMatch(gen.loop_starts, visits)
    /\ \E S : Holds(gen, JumpsOpen(visits), S)

Placed(gen, visits) ==
    ~gen.panicked => KeepsPlaces(gen, visits) /\ (gen.sealed => ClosedCode(gen.code))

\* A finished one.
PlacedFunction(f) ==
    /\ \E S : IsRow(f.code, S)
    /\ f.covered => ClosedCode(f.code)
    /\ \A e \in f.exits : e.goal # Unknown /\ TargetIn(f.code, e.at) = e.goal

GoesOn == phase \in {"compiled", "running"} \/ (phase = "compile" /\ ~contexts[1].gen.panicked)

LayoutInv ==
    /\ phase = "compile" =>
         \A i \in DOMAIN contexts : Placed(contexts[i].gen, contexts[i].visits)
    /\ GoesOn => \A i \in DOMAIN program : PlacedFunction(program[i])

\* What is not code is of no matter to it.
SamePlaces(old, new) ==
    /\ new.code = old.code /\ new.loop_starts = old.loop_starts
    /\ new.break_backlog = old.break_backlog /\ new.exits = old.exits

\* Where the code, the loops and the exits are the same, so is the layout.
LEMMA HeldSame ==
  ASSUME NEW old, NEW new, SamePlaces(old, new), NEW visits, KeepsPlaces(old, visits)
  PROVE  KeepsPlaces(new, visits)
<1>1. PICK S : Holds(old, JumpsOpen(visits), S)
  BY DEF KeepsPlaces
<1>2. StartsHold(new, S) /\ BreaksHold(new, JumpsOpen(visits), S)
  BY <1>1 DEF SamePlaces, Holds, StartsHold, BreaksHold
<1>3. ExitsHold(new, JumpsOpen(visits), S)
  BY <1>1 DEF SamePlaces, Holds, ExitsHold, Settled, Awaited, Awaits
<1> QED
  BY <1>1, <1>2, <1>3 DEF KeepsPlaces, Holds, SamePlaces

\* What closes a statement is of no matter to the layout.
LEMMA SealedSame ==
  ASSUME NEW n, NEW gen, IsGen(n, gen), NEW sealed
  PROVE  /\ SamePlaces(gen, Boundary(Seal(gen, sealed)))
         /\ Boundary(Seal(gen, sealed)).panicked = gen.panicked
         /\ Boundary(Seal(gen, sealed)).sealed = sealed
BY DEF IsGen, GenFields, SamePlaces, Boundary, Seal

\* Nor is what is recorded for the properties.
LEMMA RecordsPlace ==
  ASSUME NEW n, NEW gen, IsGen(n, gen), NEW a
  PROVE  /\ SamePlaces(gen, Boundary(gen))
         /\ Boundary(gen).panicked = gen.panicked /\ Boundary(gen).sealed = gen.sealed
         /\ SamePlaces(gen, Reads(gen, a)) /\ Reads(gen, a).panicked = gen.panicked
         /\ SamePlaces(gen, [gen EXCEPT !.leaky = a])
         /\ [gen EXCEPT !.leaky = a].panicked = gen.panicked
         /\ SamePlaces(gen, [gen EXCEPT !.untyped = a])
         /\ [gen EXCEPT !.untyped = a].panicked = gen.panicked
         /\ SamePlaces(gen, NewVar(gen)) /\ NewVar(gen).panicked = gen.panicked
         /\ NewVar(gen).sealed = gen.sealed
BY DEF IsGen, GenFields, SamePlaces, Boundary, Seal, Reads, NewVar

\* Writing whole instructions keeps a function held.
LEMMA HeldWritten ==
  ASSUME NEW n, NEW old, IsGen(n, old), NEW new, LaysOut(n, old, new), ~new.panicked,
         NEW visits, KeepsPlaces(old, visits)
  PROVE  KeepsPlaces(new, visits)
<1>1. PICK S : Holds(old, JumpsOpen(visits), S)
  BY DEF KeepsPlaces
<1>2. PICK T : Extends(old.code, new.code, S, T)
  BY <1>1, GrownExtends DEF Holds, LaysOut
<1>3. Holds(new, JumpsOpen(visits), T)
  BY <1>1, <1>2, HoldsWritten DEF LaysOut, Writes, SameBooks, IsGen
<1> QED
  BY <1>3 DEF KeepsPlaces, LaysOut, Writes, SameBooks

\* The function being compiled is held.
LEMMA CurrentHeld ==
  ASSUME IInv, LayoutInv, Compiling
  PROVE  /\ KeepsPlaces(Gen, Visits) /\ (Gen.sealed => ClosedCode(Gen.code))
         /\ IsGen(Len(program), Gen) /\ Visits \in Seq(OpenVisits) /\ IsResolver(Res)
         /\ LoopsMatch(Gen, Res, Visits)
         /\ phase = "compile" /\ Level \in 1..2 /\ DOMAIN contexts = 1..Level
         /\ IsSequence(contexts) /\ ~Gen.panicked
<1>1. phase = "compile" /\ ~Gen.panicked
  BY DEF Compiling
<1>2. /\ Coherent(Len(program), Level, 0, Len(global_bindings), Gen, Res, Visits)
      /\ Level \in 1..2
  BY <1>1, CurrentCoherent
<1>3. IsSequence(contexts) /\ DOMAIN contexts = 1..Level /\ Level \in DOMAIN contexts
  BY <1>1, <1>2, Places DEF IInv, Compiled, Level
<1>4. Placed(Gen, Visits)
  BY <1>1, <1>3 DEF LayoutInv, Gen, Visits
<1> QED
  BY <1>1, <1>2, <1>3, <1>4 DEF Placed, Coherent, IsContext

\* A statement keeps the layout when what it leaves is held.
LEMMA ReplacedPlaces ==
  ASSUME IInv, LayoutInv, Compiling, UNCHANGED <<phase, program>>,
         NEW gen, IsGen(Len(program), gen), NEW res, NEW visits, NEW sealed,
         Replaced(Seal(gen, sealed), res, visits),
         ~gen.panicked => KeepsPlaces(gen, visits) /\ (sealed => ClosedCode(gen.code))
  PROVE  LayoutInv'
<1> DEFINE new == Boundary(Seal(gen, sealed))
           c == [gen |-> new, res |-> res, visits |-> visits]
<1>1. /\ Level \in 1..2 /\ DOMAIN contexts = 1..Level /\ phase = "compile" /\ phase' = "compile"
      /\ ~Gen.panicked
  BY CurrentHeld
<1>2. contexts' = [contexts EXCEPT ![Level] = c]
  BY DEF Replaced, Context
<1>a. /\ SamePlaces(gen, Boundary(Seal(gen, sealed)))
      /\ Boundary(Seal(gen, sealed)).panicked = gen.panicked
      /\ Boundary(Seal(gen, sealed)).sealed = sealed
  BY SealedSame
<1> HIDE DEF new
<1>3. SamePlaces(gen, new) /\ new.panicked = gen.panicked /\ new.sealed = sealed
  BY <1>a DEF new
<1>4. Placed(new, visits)
  BY <1>3, HeldSame DEF Placed, SamePlaces
<1>5. c.gen = new /\ c.visits = visits
  OBVIOUS
<1> HIDE DEF c
<1>6. ASSUME NEW i \in DOMAIN contexts'
      PROVE  Placed(contexts'[i].gen, contexts'[i].visits)
  <2>1. CASE i = Level
    BY <1>1, <1>2, <1>4, <1>5, <2>1
  <2>2. CASE i # Level
    BY <1>1, <1>2, <2>2 DEF LayoutInv
  <2> QED
    BY <2>1, <2>2
<1>7. ASSUME GoesOn' PROVE GoesOn
  <2>1. CASE Level = 1
    BY <1>1, <2>1 DEF GoesOn, Gen
  <2>2. CASE Level = 2
    <3>1. contexts'[1] = contexts[1]
      BY <1>1, <1>2, <2>2
    <3> QED
      BY <1>1, <1>7, <3>1 DEF GoesOn
  <2> QED
    BY <1>1, <2>1, <2>2
<1> QED
  BY <1>1, <1>6, <1>7 DEF LayoutInv

\* A statement that leaves the generator laid out keeps the layout.
LEMMA PutPlaces ==
  ASSUME IInv, LayoutInv, Compiling, UNCHANGED <<phase, program>>,
         NEW gen, IsGen(Len(program), gen), NEW res, NEW visits, Put(gen, res, visits),
         ~gen.panicked => KeepsPlaces(gen, visits)
  PROVE  LayoutInv'
BY ReplacedPlaces DEF Put

\* The statements that only write.
LEMMA LayingPlaces ==
  ASSUME IInv, LayoutInv, Compiling, UNCHANGED <<phase, program>>,
         NEW gen, LaysOut(Len(program), Gen, gen), NEW res, Put(gen, res, Visits)
  PROVE  LayoutInv'
<1>1. IsGen(Len(program), Gen) /\ KeepsPlaces(Gen, Visits)
  BY CurrentHeld
<1>2. ~gen.panicked => KeepsPlaces(gen, Visits)
  BY <1>1, HeldWritten
<1>3. IsGen(Len(program), gen)
  BY DEF LaysOut, Writes
<1> QED
  BY <1>2, <1>3, PutPlaces

(***************************************************************************)
(* The statements.                                                         *)
(***************************************************************************)
\* An assignment.
LEMMA AssignPlaces == ASSUME IInv, LayoutInv, NEW name, AssignStmt(name) PROVE LayoutInv'
<1>1. Compiling /\ UNCHANGED <<phase, program>> /\ phase = "compile"
  BY DEF AssignStmt, Statement, Compiling
<1>2. PICK b \in IntsNamed(name) :
        Put(ExpressionStmt(CodeStore(CodeLiteral(Gen, b.data.tag), b)), Res, Visits)
  BY DEF AssignStmt
<1> DEFINE n == Len(program)
           literal == CodeLiteral(Gen, b.data.tag)
           stored == CodeStore(literal, b)
<1>3. IsGen(n, Gen) /\ IsBinding(b) /\ b.data.tag \in Int
  BY <1>1, <1>2, CurrentBindings DEF IsBinding, IsDeclaration
<1>4. LaysOut(n, Gen, literal) /\ IsGen(n, literal)
  BY <1>3, ExpressionsLay DEF LaysOut, Writes
<1>5. LaysOut(n, literal, stored) /\ IsGen(n, stored)
  BY <1>3, <1>4, ExpressionsLay DEF LaysOut, Writes
<1>6. LaysOut(n, stored, ExpressionStmt(stored))
  BY <1>3, <1>5, ExpressionsLay
<1> HIDE DEF literal, stored
<1>7. LaysOut(n, Gen, stored)
  BY <1>3, <1>4, <1>5, LaysOutTwice
<1>8. LaysOut(n, Gen, ExpressionStmt(stored))
  BY <1>3, <1>6, <1>7, LaysOutTwice
<1> QED
  BY <1>1, <1>2, <1>8, LayingPlaces DEF stored, literal

\* A variable that is observed.
LEMMA YieldPlaces == ASSUME IInv, LayoutInv, NEW name, YieldStmt(name) PROVE LayoutInv'
<1>1. Compiling /\ UNCHANGED <<phase, program>> /\ phase = "compile"
  BY DEF YieldStmt, Statement, Compiling
<1>2. PICK b \in IntsNamed(name) :
        Put(ExpressionStmt(WriteInstr(CodeLoad(Reads(Gen, b.data.tag), b), "TESTYield")),
            Res, Visits)
  BY DEF YieldStmt
<1> DEFINE n == Len(program)
           read == Reads(Gen, b.data.tag)
           loaded == CodeLoad(read, b)
           yielded == WriteInstr(loaded, "TESTYield")
<1>3. IsGen(n, Gen) /\ IsBinding(b)
  BY <1>1, <1>2, CurrentBindings
<1>4. LaysOut(n, Gen, read) /\ IsGen(n, read)
  <2>1. Writes(n, Gen, read) /\ SamePlaces(Gen, read) /\ read.panicked = Gen.panicked
    BY <1>3, RecordsWrite, RecordsPlace
  <2> HIDE DEF read
  <2> QED
    BY <1>3, <2>1, NothingLaid DEF SamePlaces, Writes
<1> HIDE DEF read
<1>5. LaysOut(n, read, loaded) /\ IsGen(n, loaded)
  BY <1>3, <1>4, ExpressionsLay DEF LaysOut, Writes
<1> HIDE DEF loaded
<1>6. LaysOut(n, loaded, yielded) /\ IsGen(n, yielded)
  <2>1. "TESTYield" \in Range(OpNames) /\ "TESTYield" \notin ShortOps /\ "TESTYield" \notin ByteOps
    BY Written DEF ShortOps, ByteOps
  <2> QED
    BY <1>5, <2>1, InstrAdds DEF LaysOut, Writes
<1> HIDE DEF yielded
<1>7. LaysOut(n, yielded, ExpressionStmt(yielded))
  BY <1>3, <1>6, ExpressionsLay
<1>8. LaysOut(n, Gen, loaded)
  BY <1>3, <1>4, <1>5, LaysOutTwice
<1>9. LaysOut(n, Gen, yielded)
  BY <1>3, <1>6, <1>8, LaysOutTwice
<1>10. LaysOut(n, Gen, ExpressionStmt(yielded))
  BY <1>3, <1>7, <1>9, LaysOutTwice
<1> QED
  BY <1>1, <1>2, <1>10, LayingPlaces DEF yielded, loaded, read

\* A call.
LEMMA CallPlaces == ASSUME IInv, LayoutInv, NEW name, CallStmt(name) PROVE LayoutInv'
<1>1. Compiling /\ UNCHANGED <<phase, program>> /\ phase = "compile"
  BY DEF CallStmt, Statement, Compiling
<1>2. PICK args \in IntArgs : \E b \in ResolveCall(Res, global_bindings, name, args) :
        Put(ExpressionStmt(CallWith(Gen, b)), Res, Visits)
  BY DEF CallStmt
<1>3. PICK b \in ResolveCall(Res, global_bindings, name, args) :
        Put(ExpressionStmt(CallWith(Gen, b)), Res, Visits)
  BY <1>2
<1> DEFINE n == Len(program)
           called == CallWith(Gen, b)
<1>4. IsGen(n, Gen) /\ IsBinding(b) /\ Len(b.data.params) \in Int
  <2>1. Len(args) \in Int
    BY DEF IntArgs, MaxArgs
  <2> QED
    BY <1>1, <1>3, <2>1, CurrentBindings
<1>5. LaysOut(n, Gen, called) /\ IsGen(n, called)
  BY <1>4, CallLays DEF LaysOut, Writes
<1>6. LaysOut(n, called, ExpressionStmt(called))
  BY <1>4, <1>5, ExpressionsLay
<1>7. LaysOut(n, Gen, ExpressionStmt(called))
  BY <1>4, <1>5, <1>6, LaysOutTwice
<1> QED
  BY <1>1, <1>3, <1>7, LayingPlaces

\* A call whose value is an argument of another.
LEMMA PrintCallPlaces == ASSUME IInv, LayoutInv, NEW name, PrintCall(name) PROVE LayoutInv'
<1>1. Compiling /\ UNCHANGED <<phase, program>> /\ phase = "compile"
  BY DEF PrintCall, Statement, Compiling
<1>a. PICK args \in IntArgs : \E b \in ResolveCall(Res, global_bindings, name, args) :
        \E print \in ResolveCall(Res, global_bindings, "print", <<b.data.ret_type>>) :
           LET value == Coerce(CallWith(LoadCallee(Gen, print), b),
                               b.data.ret_type, print.data.params[1])
           IN Put(ExpressionStmt(WriteIndexed(value, "CallNative", 1)), Res, Visits)
  BY DEF PrintCall
<1>b. PICK b \in ResolveCall(Res, global_bindings, name, args) :
        \E print \in ResolveCall(Res, global_bindings, "print", <<b.data.ret_type>>) :
           LET value == Coerce(CallWith(LoadCallee(Gen, print), b),
                               b.data.ret_type, print.data.params[1])
           IN Put(ExpressionStmt(WriteIndexed(value, "CallNative", 1)), Res, Visits)
  BY <1>a
<1>2. PICK print \in ResolveCall(Res, global_bindings, "print", <<b.data.ret_type>>) :
        LET value == Coerce(CallWith(LoadCallee(Gen, print), b),
                            b.data.ret_type, print.data.params[1])
        IN Put(ExpressionStmt(WriteIndexed(value, "CallNative", 1)), Res, Visits)
  BY <1>b
<1> DEFINE n == Len(program)
           loaded == LoadCallee(Gen, print)
           called == CallWith(loaded, b)
           value == Coerce(called, b.data.ret_type, print.data.params[1])
           printed == WriteIndexed(value, "CallNative", 1)
<1>3. IsGen(n, Gen) /\ IsBinding(b) /\ Len(b.data.params) \in Int
  <2>1. Len(args) \in Int
    BY DEF IntArgs, MaxArgs
  <2> QED
    BY <1>1, <1>2, <2>1, CurrentBindings
<1>4. IsBinding(print)
  BY <1>1, <1>2, CurrentBindings
<1>5. LaysOut(n, Gen, loaded) /\ IsGen(n, loaded)
  BY <1>3, <1>4, CalleeLays DEF LaysOut, Writes
<1> HIDE DEF loaded
<1>6. LaysOut(n, loaded, called) /\ IsGen(n, called)
  BY <1>3, <1>5, CallLays DEF LaysOut, Writes
<1> HIDE DEF called
<1>7. LaysOut(n, called, value) /\ IsGen(n, value)
  BY <1>6, CoerceLays DEF LaysOut, Writes
<1> HIDE DEF value
<1>8. LaysOut(n, value, printed) /\ IsGen(n, printed)
  <2>1. "CallNative" \in Range(OpNames) /\ "CallNative" \in ByteOps
    BY Written DEF ByteOps
  <2> QED
    BY <1>7, <2>1, IndexedAdds DEF LaysOut, Writes
<1> HIDE DEF printed
<1>9. LaysOut(n, printed, ExpressionStmt(printed))
  BY <1>4, <1>8, ExpressionsLay
<1>10. LaysOut(n, Gen, called)
  BY <1>3, <1>5, <1>6, LaysOutTwice
<1>11. LaysOut(n, Gen, value)
  BY <1>3, <1>7, <1>10, LaysOutTwice
<1>12. LaysOut(n, Gen, printed)
  BY <1>3, <1>8, <1>11, LaysOutTwice
<1>13. LaysOut(n, Gen, ExpressionStmt(printed))
  BY <1>3, <1>9, <1>12, LaysOutTwice
<1> QED
  BY <1>1, <1>2, <1>13, LayingPlaces DEF printed, value, called, loaded

\* Declaring a variable whose value has been laid out.
LEMMA DeclarePlaces ==
  ASSUME IInv, LayoutInv, Compiling, UNCHANGED <<phase, program>>,
         NEW gen, LaysOut(Len(program), Gen, gen), NEW d, Declare(gen, d)
  PROVE  LayoutInv'
<1>1. Put(NewVar(gen), DeclareLocal(Res, d), Visits)
  BY DEF Declare
<1>2. IsGen(Len(program), gen)
  BY DEF LaysOut, Writes
<1>3. /\ IsGen(Len(program), NewVar(gen)) /\ SamePlaces(gen, NewVar(gen))
      /\ NewVar(gen).panicked = gen.panicked
  BY <1>2, NewVarEffect, RecordsPlace
<1>4. ~gen.panicked => KeepsPlaces(gen, Visits)
  BY CurrentHeld, HeldWritten
<1>5. ~NewVar(gen).panicked => KeepsPlaces(NewVar(gen), Visits)
  BY <1>3, <1>4, HeldSame
<1> QED
  BY <1>1, <1>3, <1>5, PutPlaces

\* A declaration with a literal.
LEMMA VarPlaces == ASSUME IInv, LayoutInv, NEW name, VarStmt(name) PROVE LayoutInv'
<1>1. Compiling /\ UNCHANGED <<phase, program>> /\ phase = "compile" /\ declared < Len(Tags)
  BY DEF VarStmt, Statement, Compiling
<1> DEFINE tag == Tags[declared + 1]
           gen == NewConstant(Gen, [t |-> "Int", within |-> "None", v |-> tag])
           d == VarData(name, [t |-> "Int", f |-> 0], <<>>, "None", tag)
<1>2. Declare(gen, d)
  BY DEF VarStmt
<1>3. tag \in Int
  <2>1. Len(Tags) \in Nat /\ declared \in Nat
    BY CompilerAssumption, LenProperties DEF IInv
  <2>2. Tags \in Seq(-128..127) /\ declared + 1 \in 1..Len(Tags)
    BY <1>1, <2>1, CompilerAssumption
  <2>3. tag \in -128..127
    BY <2>2, ElementOfSeq
  <2> HIDE DEF tag
  <2> QED
    BY <2>3
<1> HIDE DEF tag
<1>4. LaysOut(Len(program), Gen, gen)
  BY <1>1, <1>3, CurrentBindings, IntIsConstant, ConstantLays
<1> HIDE DEF gen, d
<1> QED
  BY <1>1, <1>2, <1>4, DeclarePlaces

\* A declaration without one.
LEMMA VarAnyPlaces == ASSUME IInv, LayoutInv, NEW name, VarAnyStmt(name) PROVE LayoutInv'
<1>1. Compiling /\ UNCHANGED <<phase, program>> /\ phase = "compile"
  BY DEF VarAnyStmt, Statement, Compiling
<1> DEFINE none == WriteInstr(Gen, "None")
           gen == WriteInstr(none, "WrapAny")
           d == VarData(name, [t |-> "Any", f |-> 0], <<>>, "None", 0)
<1>2. Declare(gen, d)
  BY DEF VarAnyStmt
<1>3. /\ {"None", "WrapAny"} \subseteq Range(OpNames)
      /\ \A op \in {"None", "WrapAny"} : op \notin ShortOps /\ op \notin ByteOps
  BY Written DEF ShortOps, ByteOps
<1>4. IsGen(Len(program), Gen)
  BY <1>1, CurrentBindings
<1>5. LaysOut(Len(program), Gen, none) /\ IsGen(Len(program), none)
  BY <1>3, <1>4, InstrAdds DEF LaysOut, Writes
<1> HIDE DEF none
<1>6. LaysOut(Len(program), none, gen)
  BY <1>3, <1>5, InstrAdds
<1> HIDE DEF gen, d
<1>7. LaysOut(Len(program), Gen, gen)
  BY <1>4, <1>5, <1>6, LaysOutTwice
<1> QED
  BY <1>1, <1>2, <1>7, DeclarePlaces

\* A struct.
LEMMA StructPlaces == ASSUME IInv, LayoutInv, StructStmt PROVE LayoutInv'
<1>1. Compiling /\ UNCHANGED <<phase, program>> /\ phase = "compile"
  BY DEF StructStmt, Statement, Compiling
<1> DEFINE gen == WriteIndexed(Gen, "GetGlobal", NewObj - 1)
           d == VarData(StructName, [t |-> "NativeFunc", f |-> NewObj], <<"Int">>, "Object", 0)
<1>2. Declare(gen, d)
  BY DEF StructStmt
<1>3. "GetGlobal" \in Range(OpNames) /\ "GetGlobal" \in ByteOps /\ NewObj - 1 \in Int
  <2>1. NewObj \in Int
    BY RegistryAssumption, LenProperties
  <2> QED
    BY <2>1, Written DEF ByteOps
<1>4. LaysOut(Len(program), Gen, gen)
  BY <1>1, <1>3, CurrentBindings, IndexedAdds
<1> HIDE DEF gen, d
<1> QED
  BY <1>1, <1>2, <1>4, DeclarePlaces

\* The offset of a jump that has just been written is nobody else's.
LEMMA JumpIsNew ==
  ASSUME NEW gen, gen.code \in Seq(Byte), NEW J, NEW S, Holds(gen, J, S),
         NEW at, at = Len(gen.code) + 1
  PROVE  /\ ~Awaits(gen, J, at)
         /\ \A b \in gen.break_backlog : b.jump # at
         /\ \A e \in gen.exits : e.at # at
<1>1. \A jump \in JumpsIn(gen.code, S) : jump # at
  <2>1. Len(gen.code) \in Nat
    BY LenProperties
  <2> QED
    BY <2>1 DEF JumpsIn
<1>2. \A b \in gen.break_backlog : b.jump # at
  BY <1>1 DEF Holds, BreaksHold
<1>3. ~Awaits(gen, J, at)
  BY <1>1, <1>2 DEF Awaits, Holds, BreaksHold
<1>4. \A e \in gen.exits : e.at # at
  BY <1>1, <1>2 DEF Holds, ExitsHold, Settled, Awaited
<1> QED
  BY <1>2, <1>3, <1>4

\* A condition.
LEMMA ConditionLays ==
  ASSUME NEW n, NEW gen, IsGen(n, gen)
  PROVE  LET tested == Condition(gen)
         IN LaysOut(n, gen, tested) /\ tested.panicked = gen.panicked
            /\ Len(gen.code) < Len(tested.code)
<1> DEFINE tested == Condition(gen)
           op == "TESTTakeInput"
<1>1. op \in Range(OpNames) /\ op \notin ShortOps /\ op \notin ByteOps
  BY Written DEF ShortOps, ByteOps
<1>2. Adds(gen.code, tested.code, op) /\ LaysOut(n, gen, tested)
  BY <1>1, InstrAdds DEF Condition
<1>3. Width(op) = 1
  BY <1>1, Widths
<1>4. tested.panicked = gen.panicked
  BY DEF Condition, WriteInstr, WriteByte, IsGen, GenFields
<1>5. Len(gen.code) < Len(tested.code)
  BY <1>2, <1>3, LenProperties DEF Adds
<1> QED
  BY <1>2, <1>4, <1>5

\* A forward jump keeps the places, and is one that may wait for its goal.
LEMMA JumpHolds ==
  ASSUME NEW n, NEW gen, IsGen(n, gen), ~gen.panicked, NEW op \in {"Jump", "JumpIfNot"},
         NEW J, NEW S, Holds(gen, J, S)
  PROVE  LET new == WriteJump(gen, op)
         IN /\ IsGen(n, new) /\ ~new.panicked
            /\ SameBooks(gen, new) /\ new.exits = gen.exits
            /\ ~Awaits(new, J, JumpArg(new))
            /\ \A b \in new.break_backlog : b.jump # JumpArg(new)
            /\ \A e \in new.exits : e.at # JumpArg(new)
            /\ \E T : Holds(new, J, T) /\ JumpArg(new) \in JumpsIn(new.code, T)
<1> DEFINE new == WriteJump(gen, op)
<1>1. /\ LaysOut(n, gen, new) /\ new.panicked = gen.panicked
      /\ JumpArg(new) = Len(gen.code) + 1 /\ Len(gen.code) < Len(new.code)
      /\ \A R : IsRow(gen.code, R) =>
           \E T : IsRow(new.code, T) /\ R \subseteq T /\ JumpArg(new) \in JumpsIn(new.code, T)
  BY JumpLays
<1> HIDE DEF new
<1>2. /\ gen.code \in Seq(Byte) /\ new.code \in Seq(Byte) /\ IsGen(n, new)
      /\ SameBooks(gen, new) /\ new.exits = gen.exits
      /\ IsRow(gen.code, S)
  BY <1>1 DEF IsGen, LaysOut, Writes, Holds
<1>3. /\ ~Awaits(gen, J, JumpArg(new))
      /\ \A b \in gen.break_backlog : b.jump # JumpArg(new)
      /\ \A e \in gen.exits : e.at # JumpArg(new)
  BY <1>1, <1>2, JumpIsNew
<1>4. ~Awaits(new, J, JumpArg(new))
  BY <1>2, <1>3 DEF Awaits, SameBooks
<1>5. PICK T : IsRow(new.code, T) /\ S \subseteq T /\ JumpArg(new) \in JumpsIn(new.code, T)
  BY <1>1, <1>2
<1>6. Extends(gen.code, new.code, S, T)
  BY <1>1, <1>2, <1>5 DEF LaysOut, Grown, Extends
<1>7. Holds(new, J, T)
  BY <1>2, <1>6, HoldsWritten DEF SameBooks
<1> QED
  BY <1>1, <1>2, <1>3, <1>4, <1>5, <1>7 DEF SameBooks, new

\* A statement that was opened.
LEMMA OpenedPlaces ==
  ASSUME NEW gen, NEW visits \in Seq(OpenVisits), NEW v \in OpenVisits,
         StartsMatch(gen.loop_starts, Append(visits, v)),
         NEW S, Holds(gen, JumpsOpen(visits), S),
         v.kind # "block" =>
            /\ v.jump \in JumpsIn(gen.code, S)
            /\ \A b \in gen.break_backlog : b.jump # v.jump
            /\ \A e \in gen.exits : e.at # v.jump
  PROVE  KeepsPlaces(gen, Append(visits, v))
<1> DEFINE J == JumpsOpen(visits)
           more == JumpsOpen(Append(visits, v))
<1>1. more \subseteq J \cup (IF v.kind = "block" THEN {} ELSE {v.jump})
  BY JumpOpened
<1> HIDE DEF J, more
<1>2. Holds(gen, J, S)
  BY DEF J
<1>3. Holds(gen, more, S)
  <2>1. CASE v.kind = "block"
    BY <1>1, <1>2, <2>1, HoldsFewer
  <2>2. CASE v.kind # "block"
    <3>1. Holds(gen, J \cup {v.jump}, S)
      BY <1>2, <2>2, HoldsAwaiting
    <3>2. more \subseteq J \cup {v.jump}
      BY <1>1, <2>2
    <3> QED
      BY <3>1, <3>2, HoldsFewer
  <2> QED
    BY <2>1, <2>2
<1> QED
  BY <1>3 DEF KeepsPlaces, more

\* A block.
LEMMA OpenBlockPlaces == ASSUME IInv, LayoutInv, OpenBlock PROVE LayoutInv'
<1> DEFINE v == Visit("block", Gen.stack_size, 0, 0)
<1>1. /\ Compiling /\ UNCHANGED <<phase, program>>
      /\ Put(Gen, EnterScope(Res), Append(Visits, v))
  BY DEF OpenBlock, Opening, Statement
<1>2. /\ KeepsPlaces(Gen, Visits) /\ IsGen(Len(program), Gen) /\ Visits \in Seq(OpenVisits)
  BY <1>1, CurrentHeld
<1>3. v \in OpenVisits /\ v.kind = "block"
  BY <1>2 DEF Visit, OpenVisits, IsGen
<1> HIDE DEF v
<1>4. PICK S : Holds(Gen, JumpsOpen(Visits), S)
  BY <1>2 DEF KeepsPlaces
<1>5. StartsMatch(Gen.loop_starts, Append(Visits, v))
  BY <1>2, <1>3, MatchOpened DEF KeepsPlaces
<1>6. KeepsPlaces(Gen, Append(Visits, v))
  BY <1>2, <1>3, <1>4, <1>5, OpenedPlaces
<1> QED
  BY <1>1, <1>2, <1>6, PutPlaces

\* An if, whose jump waits for the end of its branch.
LEMMA BeginIfPlaces == ASSUME IInv, LayoutInv, BeginIf PROVE LayoutInv'
<1> DEFINE n == Len(program)
           tested == Condition(Gen)
           gen == WriteJump(tested, "JumpIfNot")
           v == Visit("then", gen.stack_size, JumpArg(gen), 0)
<1>1. /\ Compiling /\ UNCHANGED <<phase, program>>
      /\ Put(gen, EnterScope(Res), Append(Visits, v))
  BY DEF BeginIf, Opening, Statement
<1>2. /\ KeepsPlaces(Gen, Visits) /\ IsGen(n, Gen) /\ Visits \in Seq(OpenVisits)
      /\ ~Gen.panicked /\ phase = "compile"
  BY <1>1, CurrentHeld
<1>3. LaysOut(n, Gen, tested) /\ ~tested.panicked
  BY <1>2, ConditionLays
<1> HIDE DEF tested
<1>4. KeepsPlaces(tested, Visits) /\ IsGen(n, tested)
  BY <1>2, <1>3, HeldWritten DEF LaysOut, Writes
<1>5. PICK S : Holds(tested, JumpsOpen(Visits), S)
  BY <1>4 DEF KeepsPlaces
<1>6. /\ IsGen(n, gen) /\ ~gen.panicked
      /\ SameBooks(tested, gen) /\ gen.exits = tested.exits
      /\ \A b \in gen.break_backlog : b.jump # JumpArg(gen)
      /\ \A e \in gen.exits : e.at # JumpArg(gen)
      /\ \E T : Holds(gen, JumpsOpen(Visits), T) /\ JumpArg(gen) \in JumpsIn(gen.code, T)
  BY <1>3, <1>4, <1>5, JumpHolds
<1>7. v \in OpenVisits /\ v.kind = "then" /\ v.jump = JumpArg(gen)
  <2>1. JumpArg(gen) \in Int /\ gen.stack_size \in Nat
    BY <1>6, LenProperties DEF IsGen, JumpArg, Here
  <2> QED
    BY <2>1 DEF Visit, OpenVisits
<1> HIDE DEF gen, v
<1>8. PICK T : Holds(gen, JumpsOpen(Visits), T) /\ JumpArg(gen) \in JumpsIn(gen.code, T)
  BY <1>6
<1>9. StartsMatch(gen.loop_starts, Append(Visits, v))
  BY <1>2, <1>4, <1>6, <1>7, MatchOpened DEF KeepsPlaces, SameBooks
<1>10. KeepsPlaces(gen, Append(Visits, v))
  BY <1>2, <1>6, <1>7, <1>8, <1>9, OpenedPlaces
<1> QED
  BY <1>1, <1>6, <1>10, PutPlaces DEF v

\* A while, whose jump back will lead to its condition.
LEMMA BeginWhilePlaces == ASSUME IInv, LayoutInv, BeginWhile PROVE LayoutInv'
<1> DEFINE n == Len(program)
           begun == BeginLoop(Gen)
           tested == Condition(begun)
           gen == WriteJump(tested, "JumpIfNot")
           v == Visit("while", gen.stack_size, JumpArg(gen), Here(Gen))
<1>1. /\ Compiling /\ UNCHANGED <<phase, program>>
      /\ Put(gen, EnterScope(EnterLoop(Res)), Append(Visits, v))
  BY DEF BeginWhile, Statement
<1>2. /\ KeepsPlaces(Gen, Visits) /\ IsGen(n, Gen) /\ Visits \in Seq(OpenVisits)
      /\ ~Gen.panicked /\ phase = "compile"
  BY <1>1, CurrentHeld
<1>3. /\ IsGen(n, begun) /\ begun.code = Gen.code /\ begun.exits = Gen.exits
      /\ begun.panicked = Gen.panicked /\ begun.break_backlog = Gen.break_backlog
      /\ begun.loop_starts = Append(Gen.loop_starts, Len(Gen.code))
  <2>1. IsGen(n, begun)
    BY <1>2, BeginLoopEffect
  <2> QED
    BY <1>2, <2>1 DEF IsGen, GenFields, BeginLoop, Here
<1> HIDE DEF begun
<1>4. LaysOut(n, begun, tested) /\ ~tested.panicked /\ Len(begun.code) < Len(tested.code)
  BY <1>2, <1>3, ConditionLays
<1> HIDE DEF tested
<1>5. IsGen(n, tested) /\ SameBooks(begun, tested) /\ tested.exits = begun.exits
  BY <1>4 DEF LaysOut, Writes
<1>6. PICK R : Holds(Gen, JumpsOpen(Visits), R)
  BY <1>2 DEF KeepsPlaces
<1>7. PICK S : Extends(Gen.code, tested.code, R, S)
  BY <1>3, <1>4, <1>6, GrownExtends DEF LaysOut, Holds
<1>8. Holds(tested, JumpsOpen(Visits), S)
  <2>1. /\ Gen.code \in Seq(Byte) /\ tested.code \in Seq(Byte) /\ Gen.loop_starts \in Seq(Nat)
    BY <1>2, <1>5 DEF IsGen
  <2>2. /\ tested.loop_starts = Append(Gen.loop_starts, Len(Gen.code))
        /\ tested.break_backlog = Gen.break_backlog /\ tested.exits = Gen.exits
        /\ Len(Gen.code) < Len(tested.code)
    BY <1>3, <1>4, <1>5 DEF SameBooks
  <2> QED
    BY <1>6, <1>7, <2>1, <2>2, HoldsBegun
<1>9. /\ IsGen(n, gen) /\ ~gen.panicked
      /\ SameBooks(tested, gen) /\ gen.exits = tested.exits
      /\ \A b \in gen.break_backlog : b.jump # JumpArg(gen)
      /\ \A e \in gen.exits : e.at # JumpArg(gen)
      /\ \E T : Holds(gen, JumpsOpen(Visits), T) /\ JumpArg(gen) \in JumpsIn(gen.code, T)
  BY <1>4, <1>5, <1>8, JumpHolds
<1>10. v \in OpenVisits /\ v.kind = "while" /\ v.jump = JumpArg(gen) /\ v.start = Len(Gen.code)
  <2>1. JumpArg(gen) \in Int /\ gen.stack_size \in Nat /\ Here(Gen) \in Nat
    BY <1>2, <1>9, LenProperties DEF IsGen, JumpArg, Here
  <2> QED
    BY <2>1 DEF Visit, OpenVisits, Here
<1> HIDE DEF gen, v
<1>11. PICK T : Holds(gen, JumpsOpen(Visits), T) /\ JumpArg(gen) \in JumpsIn(gen.code, T)
  BY <1>9
<1>12. StartsMatch(gen.loop_starts, Append(Visits, v))
  <2>1. Gen.loop_starts \in Seq(Nat) /\ StartsMatch(Gen.loop_starts, Visits)
    BY <1>2 DEF IsGen, KeepsPlaces
  <2>2. StartsMatch(Append(Gen.loop_starts, v.start), Append(Visits, v))
    BY <1>2, <1>10, <2>1, MatchBegun
  <2> QED
    BY <1>3, <1>5, <1>9, <1>10, <2>2 DEF SameBooks
<1>13. KeepsPlaces(gen, Append(Visits, v))
  BY <1>2, <1>9, <1>10, <1>11, <1>12, OpenedPlaces
<1> QED
  BY <1>1, <1>9, <1>13, PutPlaces DEF v

\* The locals of what is closed are popped.
LEMMA DonePlaces ==
  ASSUME IInv, LayoutInv, NEW kind, Closing(kind)
  PROVE  /\ Compiling /\ UNCHANGED <<phase, program>>
         /\ Visits \in Seq(OpenVisits) /\ Visits # <<>>
         /\ Last(Visits) \in OpenVisits /\ Last(Visits).kind = kind
         /\ IsGen(Len(program), BlockDone) /\ ~BlockDone.panicked
         /\ StartsMatch(BlockDone.loop_starts, Visits)
         /\ \E S : Holds(BlockDone, JumpsOpen(Visits), S)
<1> DEFINE n == Len(program)
           old_count == Last(Visits).old_count
<1>1. /\ Compiling /\ UNCHANGED <<phase, program>>
      /\ Visits \in Seq(OpenVisits) /\ Visits # <<>>
      /\ Last(Visits) \in OpenVisits /\ Last(Visits).kind = kind
  BY ClosingFinds DEF Closing
<1>2. KeepsPlaces(Gen, Visits) /\ IsGen(n, Gen) /\ ~Gen.panicked
  BY <1>1, CurrentHeld
<1>3. old_count \in Nat
  BY <1>1 DEF OpenVisits
<1>4. BlockDone = PopLocals(Gen, old_count)
  BY DEF BlockDone
<1> HIDE DEF old_count
<1>5. /\ IsGen(n, BlockDone) /\ BlockDone.break_backlog = Gen.break_backlog
      /\ BlockDone.loop_starts = Gen.loop_starts
  BY <1>2, <1>3, <1>4, PopLocalsEffect
<1>6. /\ Grown(Gen.code, BlockDone.code) /\ BlockDone.exits = Gen.exits /\ ~BlockDone.panicked
  BY <1>2, <1>3, <1>4, PopLocalsLays
<1>7. PICK S : Holds(Gen, JumpsOpen(Visits), S)
  BY <1>2 DEF KeepsPlaces
<1>8. PICK T : Extends(Gen.code, BlockDone.code, S, T)
  BY <1>6, <1>7, GrownExtends DEF Holds
<1>9. Gen.code \in Seq(Byte) /\ BlockDone.code \in Seq(Byte)
  BY <1>2, <1>5 DEF IsGen
<1>10. Holds(BlockDone, JumpsOpen(Visits), T)
  BY <1>5, <1>6, <1>7, <1>8, <1>9, HoldsWritten
<1> QED
  BY <1>1, <1>2, <1>5, <1>6, <1>10 DEF KeepsPlaces

\* A statement that was closed.
LEMMA ClosedPlaces ==
  ASSUME NEW gen, NEW visits \in Seq(OpenVisits), visits # <<>>,
         StartsMatch(gen.loop_starts, Front(visits)),
         NEW S, Holds(gen, JumpsOpen(visits), S)
  PROVE  KeepsPlaces(gen, Front(visits))
<1>1. Holds(gen, JumpsOpen(Front(visits)), S)
  BY JumpClosed, HoldsFewer
<1> QED
  BY <1>1 DEF KeepsPlaces

\* The end of a block.
LEMMA CloseBlockPlaces == ASSUME IInv, LayoutInv, CloseBlock PROVE LayoutInv'
<1>1. Closing("block") /\ Put(BlockDone, ExitScope(Res), Front(Visits))
  BY DEF CloseBlock
<1>2. /\ Compiling /\ UNCHANGED <<phase, program>>
      /\ Visits \in Seq(OpenVisits) /\ Visits # <<>> /\ Last(Visits).kind = "block"
      /\ IsGen(Len(program), BlockDone)
      /\ StartsMatch(BlockDone.loop_starts, Visits)
      /\ \E S : Holds(BlockDone, JumpsOpen(Visits), S)
  BY <1>1, DonePlaces
<1>3. StartsMatch(BlockDone.loop_starts, Front(Visits))
  BY <1>2, MatchClosed
<1>4. KeepsPlaces(BlockDone, Front(Visits))
  BY <1>2, <1>3, ClosedPlaces
<1> QED
  BY <1>1, <1>2, <1>4, PutPlaces

\* A jump back keeps the places, and leads where it should.
LEMMA JumpBackHolds ==
  ASSUME NEW n, NEW gen, IsGen(n, gen), NEW J, NEW S, Holds(gen, J, S), NEW target \in S,
         ~WriteJumpBack(gen, target).panicked
  PROVE  LET new == WriteJumpBack(gen, target)
         IN /\ ~Awaits(new, J, JumpArg(new))
            /\ TargetIn(new.code, JumpArg(new)) = target
            /\ \E T : Holds(new, J, T) /\ JumpArg(new) \in JumpsIn(new.code, T)
<1> DEFINE new == WriteJumpBack(gen, target)
<1>1. IsRow(gen.code, S)
  BY DEF Holds
<1>2. /\ ~gen.panicked /\ Writes(n, gen, new) /\ new.exits = gen.exits
      /\ Len(new.code) = Len(gen.code) + 3 /\ Len(gen.code) \in Nat
      /\ \A q \in 1..Len(gen.code) : new.code[q] = gen.code[q]
      /\ JumpArg(new) = Len(gen.code) + 1
      /\ TargetIn(new.code, JumpArg(new)) = target
      /\ \E T : /\ IsRow(new.code, T) /\ S \subseteq T
                /\ JumpArg(new) \in JumpsIn(new.code, T)
  BY <1>1, JumpBackLays
<1> HIDE DEF new
<1>3. \A q \in 1..Len(gen.code) : new.code[q] = gen.code[q]
  BY <1>2
<1>4. JumpArg(new) = Len(gen.code) + 1 /\ TargetIn(new.code, JumpArg(new)) = target
  BY <1>2
<1>5. PICK T : /\ IsRow(new.code, T) /\ S \subseteq T
               /\ JumpArg(new) \in JumpsIn(new.code, T)
  BY <1>2
<1>6. Extends(gen.code, new.code, S, T)
  BY <1>1, <1>2, <1>3, <1>5 DEF Extends
<1>7. gen.code \in Seq(Byte) /\ new.code \in Seq(Byte)
  BY <1>2 DEF Writes, IsGen
<1>8. Holds(new, J, T)
  BY <1>2, <1>6, <1>7, HoldsWritten DEF Writes, SameBooks
<1>9. ~Awaits(gen, J, JumpArg(new))
  BY <1>4, <1>7, JumpIsNew
<1>10. ~Awaits(new, J, JumpArg(new))
  BY <1>2, <1>9 DEF Awaits, Writes, SameBooks
<1> QED
  BY <1>4, <1>5, <1>8, <1>10 DEF new

\* Patching one jump leaves the others where they are.
LEMMA PatchKeepsJumps ==
  ASSUME NEW n, NEW gen, IsGen(n, gen), NEW S, IsRow(gen.code, S),
         NEW jump \in JumpsIn(gen.code, S),
         NEW new, new = PatchToNext(gen, {jump}), ~new.panicked
  PROVE  JumpsIn(new.code, S) = JumpsIn(gen.code, S)
<1> DEFINE jumps == {jump}
<1>1. jumps \subseteq JumpsIn(gen.code, S) /\ new = PatchToNext(gen, jumps)
  OBVIOUS
<1> HIDE DEF jumps
<1> QED
  BY <1>1, PatchLays

\* The end of a branch, to which the jump over it leads.
LEMMA BranchEndPlaces ==
  ASSUME IInv, LayoutInv, NEW kind \in {"then", "else"}, Closing(kind),
         Put(PatchJumpToNext(BlockDone, Last(Visits).jump), ExitScope(Res), Front(Visits))
  PROVE  LayoutInv'
<1> DEFINE n == Len(program)
           jump == Last(Visits).jump
           patched == PatchJumpToNext(BlockDone, jump)
<1>1. /\ Compiling /\ UNCHANGED <<phase, program>>
      /\ Visits \in Seq(OpenVisits) /\ Visits # <<>> /\ Last(Visits).kind = kind
      /\ IsGen(n, BlockDone) /\ ~BlockDone.panicked
      /\ StartsMatch(BlockDone.loop_starts, Visits)
  BY DonePlaces
<1>2. PICK S : Holds(BlockDone, JumpsOpen(Visits), S)
  BY DonePlaces
<1>3. jump \in JumpsOpen(Visits)
  BY <1>1, JumpClosed
<1>4. patched = PatchToNext(BlockDone, {jump})
  BY DEF PatchJumpToNext
<1>5. Writes(n, BlockDone, patched)
  BY <1>1, <1>4, PatchWrites
<1> HIDE DEF patched, jump
<1>6. StartsMatch(patched.loop_starts, Front(Visits))
  BY <1>1, <1>5, MatchClosed DEF Writes, SameBooks
<1>7. ASSUME ~patched.panicked PROVE KeepsPlaces(patched, Front(Visits))
  <2>1. \A at \in {jump} : Awaits(BlockDone, JumpsOpen(Visits), at)
    BY <1>3 DEF Awaits
  <2>2. Holds(patched, JumpsOpen(Visits), S)
    BY <1>1, <1>2, <1>4, <1>7, <2>1, HoldsPatched
  <2> QED
    BY <1>1, <1>6, <2>2, ClosedPlaces
<1> QED
  BY <1>1, <1>5, <1>7, PutPlaces DEF Writes, patched, jump

\* The end of an if, and of its false branch.
LEMMA EndIfPlaces == ASSUME IInv, LayoutInv, EndIf \/ EndElse PROVE LayoutInv'
BY BranchEndPlaces DEF EndIf, EndElse

\* The true branch ends where the false one begins: the condition's jump leads
\* there, and another one waits for the end of the false branch.
LEMMA BeginElsePlaces == ASSUME IInv, LayoutInv, BeginElse PROVE LayoutInv'
<1> DEFINE n == Len(program)
           J == JumpsOpen(Visits)
           jump == Last(Visits).jump
           jumped == WriteJump(BlockDone, "Jump")
           patched == PatchJumpToNext(jumped, jump)
           v == Visit("else", jumped.stack_size, JumpArg(jumped), 0)
<1>1. /\ Closing("then")
      /\ Put(patched, EnterScope(ExitScope(Res)), Append(Front(Visits), v))
  BY DEF BeginElse
<1>2. /\ Compiling /\ UNCHANGED <<phase, program>>
      /\ Visits \in Seq(OpenVisits) /\ Visits # <<>> /\ Last(Visits).kind = "then"
      /\ IsGen(n, BlockDone) /\ ~BlockDone.panicked
      /\ StartsMatch(BlockDone.loop_starts, Visits)
      /\ \E S : Holds(BlockDone, J, S)
  BY <1>1, DonePlaces
<1>3. jump \in J /\ JumpsOpen(Front(Visits)) \subseteq J /\ Front(Visits) \in Seq(OpenVisits)
  BY <1>2, JumpClosed, VisitClosed
<1> HIDE DEF J, jump
<1>4. PICK S : Holds(BlockDone, J, S)
  BY <1>2
<1>5. /\ IsGen(n, jumped) /\ ~jumped.panicked
      /\ SameBooks(BlockDone, jumped) /\ jumped.exits = BlockDone.exits
      /\ \A b \in jumped.break_backlog : b.jump # JumpArg(jumped)
      /\ \A e \in jumped.exits : e.at # JumpArg(jumped)
      /\ \E T : Holds(jumped, J, T) /\ JumpArg(jumped) \in JumpsIn(jumped.code, T)
  BY <1>2, <1>4, JumpHolds
<1>6. v \in OpenVisits /\ v.kind = "else" /\ v.jump = JumpArg(jumped)
  <2>1. JumpArg(jumped) \in Int /\ jumped.stack_size \in Nat
    BY <1>5, LenProperties DEF IsGen, JumpArg, Here
  <2> QED
    BY <2>1 DEF Visit, OpenVisits
<1> HIDE DEF jumped, v
<1>7. PICK T : Holds(jumped, J, T) /\ JumpArg(jumped) \in JumpsIn(jumped.code, T)
  BY <1>5
<1>8. patched = PatchToNext(jumped, {jump})
  BY DEF PatchJumpToNext
<1>9. Writes(n, jumped, patched)
  BY <1>5, <1>8, PatchWrites
<1> HIDE DEF patched
<1>10. StartsMatch(patched.loop_starts, Append(Front(Visits), v))
  <2>1. StartsMatch(BlockDone.loop_starts, Front(Visits))
    BY <1>2, MatchClosed
  <2>2. patched.loop_starts = BlockDone.loop_starts
    BY <1>5, <1>9 DEF Writes, SameBooks
  <2> QED
    BY <1>3, <1>6, <2>1, <2>2, MatchOpened
<1>11. ASSUME ~patched.panicked PROVE KeepsPlaces(patched, Append(Front(Visits), v))
  <2>1. \A at \in {jump} : Awaits(jumped, J, at)
    BY <1>3 DEF Awaits
  <2>2. Holds(patched, J, T) /\ patched.exits = jumped.exits
    BY <1>5, <1>7, <1>8, <1>11, <2>1, HoldsPatched
  <2>3. jump \in JumpsIn(jumped.code, T) /\ IsRow(jumped.code, T)
    BY <1>3, <1>7 DEF Holds, BreaksHold
  <2>4. JumpsIn(patched.code, T) = JumpsIn(jumped.code, T)
    BY <1>5, <1>8, <1>11, <2>3, PatchKeepsJumps
  <2>5. Holds(patched, JumpsOpen(Front(Visits)), T)
    BY <1>3, <2>2, HoldsFewer
  <2>6. /\ v.jump \in JumpsIn(patched.code, T)
        /\ \A b \in patched.break_backlog : b.jump # v.jump
        /\ \A e \in patched.exits : e.at # v.jump
    BY <1>5, <1>6, <1>7, <1>9, <2>2, <2>4 DEF Writes, SameBooks
  <2> QED
    BY <1>3, <1>6, <1>10, <2>5, <2>6, OpenedPlaces
<1> QED
  BY <1>1, <1>2, <1>9, <1>11, PutPlaces DEF Writes

\* A generator that has not given up after a step had not before it.
LEMMA PatchedPanics ==
  ASSUME NEW n, NEW gen, IsGen(n, gen), NEW jumps, ~PatchToNext(gen, jumps).panicked
  PROVE  ~gen.panicked
<1> DEFINE code == [i \in DOMAIN gen.code |->
                      IF i - 1 \in jumps THEN Short(OffsetToNext(gen, i - 1))[1]
                      ELSE IF i - 2 \in jumps THEN Short(OffsetToNext(gen, i - 2))[2]
                      ELSE gen.code[i]]
           far == \E at \in jumps : ~FitsJump(OffsetToNext(gen, at))
<1>1. PatchToNext(gen, jumps) = [gen EXCEPT !.code = code, !.panicked = @ \/ far]
  BY DEF PatchToNext
<1> HIDE DEF code, far
<1>2. ASSUME gen.panicked PROVE PatchToNext(gen, jumps).panicked
  BY <1>1, <1>2 DEF IsGen, GenFields
<1> QED
  BY <1>2

\* The same of the end of a loop.
LEMMA EndedPanics ==
  ASSUME NEW n, NEW gen, IsGen(n, gen), NEW loop, ~Landed(EndLoop(gen), loop).panicked
  PROVE  ~gen.panicked
<1> DEFINE last == Len(gen.loop_starts) - 1
           landing == {b.jump : b \in {c \in gen.break_backlog : c.loop = last}}
           patched == PatchToNext(gen, landing)
           ended == EndLoop(gen)
<1>1. IsGen(n, patched)
  BY PatchWrites DEF Writes
<1>2. ended = [patched EXCEPT !.loop_starts = SubSeq(@, 1, last),
                              !.break_backlog = {b \in @ : b.loop # last}]
  BY DEF EndLoop
<1> HIDE DEF patched, ended
<1>3. DOMAIN ended = GenFields /\ ended.panicked = patched.panicked
  BY <1>1, <1>2 DEF IsGen, GenFields
<1>4. Landed(ended, loop).panicked = ended.panicked
  BY <1>3 DEF Landed, GenFields
<1>5. ~patched.panicked
  BY <1>3, <1>4 DEF ended
<1> QED
  BY <1>5, PatchedPanics DEF patched

\* The end of a loop: the jump back leads to its condition, that of the condition
\* and those of the breaks to what follows.
LEMMA EndWhilePlaces == ASSUME IInv, LayoutInv, EndWhile PROVE LayoutInv'
<1> DEFINE n == Len(program)
           J == JumpsOpen(Visits)
           visit == Last(Visits)
           back == WriteJumpBack(BlockDone, visit.start)
           patched == PatchJumpToNext(back, visit.jump)
           ended == EndLoop(patched)
           landed == Landed(ended, visit.start)
           starts == BlockDone.loop_starts
<1>1. /\ Closing("while") /\ Put(landed, ExitLoop(ExitScope(Res)), Front(Visits))
  BY DEF EndWhile
<1>2. /\ Compiling /\ UNCHANGED <<phase, program>>
      /\ Visits \in Seq(OpenVisits) /\ Visits # <<>>
      /\ visit \in OpenVisits /\ visit.kind = "while"
      /\ IsGen(n, BlockDone) /\ ~BlockDone.panicked
      /\ StartsMatch(starts, Visits)
      /\ \E S : Holds(BlockDone, J, S)
  BY <1>1, DonePlaces
<1>3. visit.jump \in J /\ visit.start \in Nat /\ visit.jump \in Int
  BY <1>2, JumpClosed DEF OpenVisits
<1>4. /\ starts \in Seq(Nat) /\ Len(starts) \in Nat \ {0} /\ visit.start = starts[Len(starts)]
      /\ StartsMatch(SubSeq(starts, 1, Len(starts) - 1), Front(Visits))
  <2>1. starts \in Seq(Nat)
    BY <1>2 DEF IsGen
  <2> QED
    BY <1>2, <2>1, MatchEnded
<1> HIDE DEF visit
<1>5. PICK S : Holds(BlockDone, J, S)
  BY <1>2
<1>6. Writes(n, BlockDone, back)
  BY <1>2, <1>3, WriteJumpBackWrites
<1>7. patched = PatchToNext(back, {visit.jump})
  BY DEF PatchJumpToNext
<1> HIDE DEF back, patched, J
<1>8. Writes(n, back, patched)
  BY <1>6, <1>7, PatchWrites DEF Writes
<1>9. patched.loop_starts = starts /\ back.loop_starts = starts /\ IsGen(n, patched) /\ starts # <<>>
  <2>1. starts # <<>>
    BY <1>4, EmptySeq
  <2> QED
    BY <1>6, <1>8, <2>1 DEF Writes, SameBooks
<1>10. IsGen(n, ended)
  BY <1>9, EndLoopEffect
<1> HIDE DEF starts
<1>11. IsGen(n, landed)
  BY <1>10, RecordsWrite DEF Writes
<1>12. landed = Landed(EndLoop(patched), patched.loop_starts[Len(patched.loop_starts)])
  BY <1>4, <1>9
<1> HIDE DEF landed, ended
<1>13. ASSUME ~landed.panicked PROVE KeepsPlaces(landed, Front(Visits))
  <2>1. ~patched.panicked
    BY <1>9, <1>12, <1>13, EndedPanics
  <2>2. ~back.panicked
    BY <1>6, <1>7, <2>1, PatchedPanics DEF Writes
  <2>3. visit.start \in S
    <3>1. Len(starts) \in 1..Len(starts)
      BY <1>4
    <3> QED
      BY <1>4, <1>5, <3>1 DEF Holds, StartsHold, starts
  <2>6. PICK T : Holds(back, J, T)
    BY <1>2, <1>5, <2>2, <2>3, JumpBackHolds DEF back
  <2>7. Holds(patched, J, T)
    <3>1. \A at \in {visit.jump} : Awaits(back, J, at)
      BY <1>3 DEF Awaits
    <3> QED
      BY <1>6, <1>7, <2>1, <2>6, <3>1, HoldsPatched DEF Writes
  <2>8. /\ Holds(landed, J, T)
        /\ landed.loop_starts = SubSeq(starts, 1, Len(starts) - 1)
    BY <1>9, <1>12, <1>13, <2>7, HoldsEnded
  <2> QED
    BY <1>2, <1>4, <2>8, ClosedPlaces DEF J
<1> QED
  BY <1>1, <1>2, <1>11, <1>13, PutPlaces DEF landed, ended, patched, back, visit

\* Repeating an enclosing loop.
LEMMA ContinuePlaces == ASSUME IInv, LayoutInv, NEW k, Continue(k) PROVE LayoutInv'
<1> DEFINE n == Len(program)
           J == JumpsOpen(Visits)
           place == Len(Gen.loop_starts) - k + 1
           start == Gen.loop_starts[place]
           jumped == WriteJumpBack(Gen, start)
           marked == Exits(jumped, JumpArg(jumped), Loop(k).start, Loop(k).start)
           left_by == Leaves(marked, k)
<1>1. /\ Compiling /\ UNCHANGED <<phase, program>> /\ k \in 1..Res.loop_depth
      /\ Put(left_by, Res, Visits)
  BY DEF Continue, Statement
<1>2. /\ KeepsPlaces(Gen, Visits) /\ IsGen(n, Gen) /\ Visits \in Seq(OpenVisits)
      /\ ~Gen.panicked /\ Res.loop_depth = Len(Gen.loop_starts)
  BY <1>1, CurrentHeld DEF LoopsMatch
<1>3. /\ Len(Gen.loop_starts) \in Nat /\ place \in 1..Len(Gen.loop_starts)
      /\ Gen.loop_starts \in Seq(Nat) /\ place = Len(Gen.loop_starts) - (k - 1)
  <2>1. Len(Gen.loop_starts) \in Nat /\ Gen.loop_starts \in Seq(Nat)
    BY <1>2, LenProperties DEF IsGen
  <2> QED
    BY <1>1, <1>2, <2>1
<1>4. start \in Nat
  BY <1>3, ElementOfSeq
<1>5. Loop(k).start = start
  BY <1>1, <1>2, <1>3, LoopFound DEF KeepsPlaces
<1> HIDE DEF place, start
<1>6. Writes(n, Gen, jumped)
  BY <1>2, <1>4, WriteJumpBackWrites
<1> HIDE DEF jumped
<1>7. /\ IsGen(n, marked) /\ marked.panicked = jumped.panicked
      /\ marked.loop_starts = jumped.loop_starts
  <2>1. IsGen(n, jumped)
    BY <1>6 DEF Writes
  <2>2. IsGen(n, marked)
    BY <2>1, RecordsWrite DEF Writes
  <2> QED
    BY <2>1, <2>2 DEF Exits, IsGen, GenFields
<1>8. IsGen(n, left_by) /\ SamePlaces(marked, left_by) /\ left_by.panicked = marked.panicked
  BY <1>7, RecordsWrite, RecordsPlace DEF Leaves, Writes
<1>9. marked = Exits(jumped, JumpArg(jumped), start, start)
  BY <1>5
<1> HIDE DEF marked, left_by, J
<1>10. ASSUME ~left_by.panicked PROVE KeepsPlaces(left_by, Visits)
  <2>1. PICK S : Holds(Gen, J, S)
    BY <1>2 DEF KeepsPlaces, J
  <2>2. start \in S
    BY <1>3, <2>1 DEF Holds, StartsHold, start
  <2>3. IsGen(n, jumped) /\ jumped = WriteJumpBack(Gen, start) /\ ~jumped.panicked
    BY <1>6, <1>7, <1>8, <1>10 DEF Writes, jumped
  <2>4. /\ ~Awaits(jumped, J, JumpArg(jumped))
        /\ TargetIn(jumped.code, JumpArg(jumped)) = start
    BY <1>2, <2>1, <2>2, <2>3, JumpBackHolds
  <2>5. PICK T : Holds(jumped, J, T) /\ JumpArg(jumped) \in JumpsIn(jumped.code, T)
    BY <1>2, <2>1, <2>2, <2>3, JumpBackHolds
  <2>7. start # Unknown
    BY <1>4 DEF Unknown
  <2>8. Holds(marked, J, T)
    BY <1>9, <2>3, <2>4, <2>5, <2>7, HoldsContinue
  <2>9. KeepsPlaces(marked, Visits)
    BY <1>2, <1>6, <1>7, <2>8 DEF KeepsPlaces, Writes, SameBooks, J
  <2> QED
    BY <1>8, <2>9, HeldSame
<1> QED
  BY <1>1, <1>8, <1>10, PutPlaces DEF left_by, marked, jumped, start, place

\* Leaving an enclosing loop.
LEMMA BreakPlaces == ASSUME IInv, LayoutInv, NEW k, Break(k) PROVE LayoutInv'
<1> DEFINE n == Len(program)
           J == JumpsOpen(Visits)
           jumped == WriteJump(Gen, "Jump")
           at == JumpArg(jumped)
           loop == Len(jumped.loop_starts) - k
           broken == [jumped EXCEPT !.break_backlog = @ \cup {[jump |-> at, loop |-> loop]}]
           marked == Exits(broken, at, Loop(k).start, Unknown)
           left_by == Leaves(marked, k)
<1>1. /\ Compiling /\ UNCHANGED <<phase, program>> /\ k \in 1..Res.loop_depth
      /\ Put(left_by, Res, Visits)
  BY DEF Break, Statement
<1>2. /\ KeepsPlaces(Gen, Visits) /\ IsGen(n, Gen) /\ Visits \in Seq(OpenVisits)
      /\ ~Gen.panicked /\ Res.loop_depth = Len(Gen.loop_starts)
  BY <1>1, CurrentHeld DEF LoopsMatch
<1>3. PICK S : Holds(Gen, J, S)
  BY <1>2 DEF KeepsPlaces
<1>4. /\ IsGen(n, jumped) /\ ~jumped.panicked
      /\ SameBooks(Gen, jumped) /\ jumped.exits = Gen.exits
      /\ ~Awaits(jumped, J, at)
      /\ \A e \in jumped.exits : e.at # at
      /\ \E T : Holds(jumped, J, T) /\ at \in JumpsIn(jumped.code, T)
  BY <1>2, <1>3, JumpHolds
<1> HIDE DEF jumped, at, J
<1>5. PICK T : Holds(jumped, J, T) /\ at \in JumpsIn(jumped.code, T)
  BY <1>4
<1>6. /\ Len(jumped.loop_starts) \in Nat /\ jumped.loop_starts = Gen.loop_starts
      /\ loop \in 0..(Len(jumped.loop_starts) - 1)
      /\ loop + 1 = Len(jumped.loop_starts) - (k - 1) /\ k \in 1..Len(jumped.loop_starts)
  <2>1. Len(jumped.loop_starts) \in Nat /\ jumped.loop_starts = Gen.loop_starts
    BY <1>4, LenProperties DEF IsGen, SameBooks
  <2> QED
    BY <1>1, <1>2, <2>1
<1>7. Loop(k).start = jumped.loop_starts[loop + 1]
  BY <1>2, <1>6, LoopFound DEF KeepsPlaces
<1> HIDE DEF loop
<1>8. /\ IsGen(n, broken) /\ broken.code = jumped.code /\ broken.exits = jumped.exits
      /\ broken.loop_starts = jumped.loop_starts
      /\ broken.break_backlog = jumped.break_backlog \cup {[jump |-> at, loop |-> loop]}
  BY <1>4 DEF IsGen, GenFields
<1> HIDE DEF broken
<1>9. /\ IsGen(n, marked) /\ marked.code = jumped.code
      /\ marked.loop_starts = jumped.loop_starts
      /\ marked.break_backlog = jumped.break_backlog \cup {[jump |-> at, loop |-> loop]}
      /\ marked.exits = jumped.exits \cup {Exit(at, jumped.loop_starts[loop + 1], Unknown)}
  <2>1. IsGen(n, marked)
    BY <1>8, RecordsWrite DEF Writes
  <2> QED
    BY <1>7, <1>8, <2>1 DEF Exits, IsGen, GenFields
<1> HIDE DEF marked
<1>10. Holds(marked, J, T)
  BY <1>4, <1>5, <1>6, <1>9, HoldsBreak
<1>11. KeepsPlaces(marked, Visits)
  BY <1>2, <1>6, <1>9, <1>10 DEF KeepsPlaces, J
<1>12. IsGen(n, left_by) /\ SamePlaces(marked, left_by)
  BY <1>9, RecordsWrite, RecordsPlace DEF Leaves, Writes
<1>13. KeepsPlaces(left_by, Visits)
  BY <1>11, <1>12, HeldSame
<1> HIDE DEF left_by
<1> QED
  BY <1>1, <1>12, <1>13, PutPlaces

\* A return closes the code behind it.
LEMMA ReturnLays ==
  ASSUME NEW n, NEW gen, IsGen(n, gen)
  PROVE  LET new == WriteInstr(gen, "Return")
         IN /\ LaysOut(n, gen, new) /\ new.panicked = gen.panicked
            /\ \A S : IsRow(gen.code, S) => ClosedCode(new.code)
<1> DEFINE new == WriteInstr(gen, "Return")
<1>1. "Return" \in Range(OpNames) /\ "Return" \notin ShortOps /\ "Return" \notin ByteOps
  BY Written DEF ShortOps, ByteOps
<1>2. Adds(gen.code, new.code, "Return") /\ LaysOut(n, gen, new)
  BY <1>1, InstrAdds
<1>3. new.panicked = gen.panicked
  BY DEF WriteInstr, WriteByte, IsGen, GenFields
<1> HIDE DEF new
<1>4. \A S : IsRow(gen.code, S) => ClosedCode(new.code)
  BY <1>2, ReturnAdded
<1> QED
  BY <1>2, <1>3, <1>4 DEF new

\* A return of a value that has been laid out.
LEMMA ReturningPlaces ==
  ASSUME IInv, LayoutInv, Compiling, UNCHANGED <<phase, program>>,
         NEW value, LaysOut(Len(program), Gen, value),
         Replaced(Seal(WriteInstr(value, "Return"), Visits = <<>>), Res, Visits)
  PROVE  LayoutInv'
<1> DEFINE n == Len(program)
           returned == WriteInstr(value, "Return")
           sealed == Visits = <<>>
<1>1. KeepsPlaces(Gen, Visits) /\ IsGen(n, Gen) /\ IsGen(n, value)
  BY CurrentHeld DEF LaysOut, Writes
<1>2. /\ LaysOut(n, value, returned) /\ returned.panicked = value.panicked
      /\ \A S : IsRow(value.code, S) => ClosedCode(returned.code)
  BY <1>1, ReturnLays
<1>3. Replaced(Seal(returned, sealed), Res, Visits) /\ IsGen(n, returned)
  BY <1>2 DEF LaysOut, Writes
<1> HIDE DEF returned, sealed
<1>4. ASSUME ~returned.panicked
      PROVE  KeepsPlaces(returned, Visits) /\ ClosedCode(returned.code)
  <2>1. KeepsPlaces(value, Visits)
    BY <1>1, <1>2, <1>4, HeldWritten
  <2>2. KeepsPlaces(returned, Visits)
    BY <1>1, <1>2, <1>4, <2>1, HeldWritten
  <2>3. ClosedCode(returned.code)
    BY <1>2, <2>1 DEF KeepsPlaces, Holds
  <2> QED
    BY <2>2, <2>3
<1> QED
  BY <1>3, <1>4, ReplacedPlaces

\* A return without a value.
LEMMA ReturnStmtPlaces == ASSUME IInv, LayoutInv, ReturnStmt PROVE LayoutInv'
<1> DEFINE n == Len(program)
           marked == [Gen EXCEPT !.untyped = @ \/ Gen.ret_type # "None"]
           value == WriteInstr(marked, "None")
<1>1. /\ Compiling /\ UNCHANGED <<phase, program>>
      /\ Replaced(Seal(WriteInstr(value, "Return"), Visits = <<>>), Res, Visits)
  BY DEF ReturnStmt, Statement
<1>2. IsGen(n, Gen)
  BY <1>1, CurrentHeld
<1>3. Writes(n, Gen, marked) /\ SamePlaces(Gen, marked) /\ marked.panicked = Gen.panicked
  BY <1>2, RecordsWrite, RecordsPlace
<1> HIDE DEF marked
<1>4. LaysOut(n, Gen, marked) /\ IsGen(n, marked)
  BY <1>2, <1>3, NothingLaid DEF SamePlaces, Writes
<1>5. LaysOut(n, marked, value)
  <2>1. "None" \in Range(OpNames) /\ "None" \notin ShortOps /\ "None" \notin ByteOps
    BY Written DEF ShortOps, ByteOps
  <2> QED
    BY <1>4, <2>1, InstrAdds
<1> HIDE DEF value
<1>6. LaysOut(n, Gen, value)
  BY <1>2, <1>4, <1>5, LaysOutTwice
<1> QED
  BY <1>1, <1>6, ReturningPlaces

\* A return with a value.
LEMMA ReturnValuePlaces == ASSUME IInv, LayoutInv, ReturnValue PROVE LayoutInv'
<1> DEFINE n == Len(program)
           literal == CodeLiteral(Gen, 0)
           value == Coerce(literal, "Int", Gen.ret_type)
<1>1. /\ Compiling /\ UNCHANGED <<phase, program>>
      /\ Replaced(Seal(WriteInstr(value, "Return"), Visits = <<>>), Res, Visits)
  BY DEF ReturnValue, Statement
<1>2. IsGen(n, Gen)
  BY <1>1, CurrentHeld
<1>3. LaysOut(n, Gen, literal) /\ IsGen(n, literal)
  BY <1>2, IntIsConstant, ConstantLays DEF CodeLiteral, LaysOut, Writes
<1> HIDE DEF literal
<1>4. LaysOut(n, literal, value)
  BY <1>3, CoerceLays
<1> HIDE DEF value
<1>5. LaysOut(n, Gen, value)
  BY <1>2, <1>3, <1>4, LaysOutTwice
<1> QED
  BY <1>1, <1>5, ReturningPlaces

\* A function that has no code yet.
LEMMA NewPlaced == ASSUME NEW params, NEW ret_type
                   PROVE  Placed(Boundary(NewGenerator(params, ret_type)), <<>>)
<1> DEFINE gen == Boundary(NewGenerator(params, ret_type))
<1>1. /\ gen.code = <<>> /\ gen.loop_starts = <<>> /\ gen.break_backlog = {}
      /\ gen.exits = {} /\ gen.sealed = FALSE
  BY DEF Boundary, NewGenerator
<1> HIDE DEF gen
<1>2. Whiles(<<>>) = {} /\ JumpsOpen(<<>>) = {} /\ Len(<<>>) = 0
  BY DEF Whiles, JumpsOpen
<1>3. StartsMatch(gen.loop_starts, <<>>)
  BY <1>1, <1>2 DEF StartsMatch
<1>4. Holds(gen, {}, {0})
  <2>1. StartsHold(gen, {0})
    BY <1>1, <1>2 DEF StartsHold
  <2>2. BreaksHold(gen, {}, {0}) /\ ExitsHold(gen, {}, {0})
    BY <1>1 DEF BreaksHold, ExitsHold
  <2> QED
    BY <1>1, <2>1, <2>2, EmptyRow DEF Holds
<1> QED
  BY <1>1, <1>2, <1>3, <1>4 DEF Placed, KeepsPlaces, gen

\* A function is declared, and its body begun.
LEMMA BeginFuncPlaces ==
  ASSUME IInv, LayoutInv, NEW ret_type, NEW n, BeginFunc(ret_type, n)
  PROVE  LayoutInv'
<1> DEFINE params == [k \in 1..n |-> "Int"]
           self == SelfData(FunctionId, params, ret_type)
           res == DeclareLocal(Res, self)
           new == NewGenerator(params, ret_type)
           inner == FunctionResolver(FunctionId, params, ret_type)
<1>1. /\ Compiling /\ UNCHANGED <<phase, program>> /\ Level = 1
      /\ contexts' = <<Context(Gen, res, Visits), Context(new, inner, <<>>)>>
  BY DEF BeginFunc, Statement
<1>2. /\ KeepsPlaces(Gen, Visits) /\ (Gen.sealed => ClosedCode(Gen.code))
      /\ IsGen(Len(program), Gen) /\ phase = "compile" /\ ~Gen.panicked
  BY <1>1, CurrentHeld
<1>3. /\ SamePlaces(Gen, Boundary(Gen)) /\ Boundary(Gen).sealed = Gen.sealed
  BY <1>2, RecordsPlace
<1>4. Placed(Boundary(Gen), Visits)
  BY <1>2, <1>3, HeldSame DEF Placed, SamePlaces
<1>5. Placed(Boundary(new), <<>>)
  BY NewPlaced
<1>6. /\ contexts'[1].gen = Boundary(Gen) /\ contexts'[1].visits = Visits
      /\ contexts'[2].gen = Boundary(new) /\ contexts'[2].visits = <<>>
      /\ DOMAIN contexts' = 1..2
  <2> HIDE DEF res, new, inner
  <2> QED
    BY <1>1 DEF Context
<1>7. ASSUME NEW i \in DOMAIN contexts'
      PROVE  Placed(contexts'[i].gen, contexts'[i].visits)
  <2> HIDE DEF new
  <2>1. i = 1 \/ i = 2
    BY <1>6
  <2> QED
    BY <1>4, <1>5, <1>6, <2>1
<1>8. GoesOn
  BY <1>1, <1>2 DEF GoesOn, Gen
<1> QED
  BY <1>1, <1>7, <1>8 DEF LayoutInv

\* The epilogue lays out, and closes what was open.
LEMMA EpilogueLays ==
  ASSUME NEW n, NEW gen, IsGen(n, gen), gen.ret_type \in {"None", "Int", "Any"}
  PROVE  LET ended == Epilogue(gen)
         IN /\ LaysOut(n, gen, ended)
            /\ \A S : ~ended.panicked /\ ~EndsInReturn(gen) /\ IsRow(gen.code, S)
                      => ClosedCode(ended.code)
<1> DEFINE value == NewConstant(gen, Dummy(gen.ret_type))
           returned == WriteInstr(value, "Return")
           ended == Epilogue(gen)
<1>1. CASE EndsInReturn(gen)
  <2>1. ended = gen
    BY <1>1 DEF Epilogue
  <2>2. Writes(n, gen, gen)
    BY DEF Writes, SameBooks
  <2> QED
    BY <1>1, <2>1, <2>2, NothingLaid
<1>2. CASE ~EndsInReturn(gen)
  <2>1. ended = returned
    BY <1>2 DEF Epilogue
  <2>2. Dummy(gen.ret_type) \in Constant(n)
    BY DEF Dummy, Constant, Value, Types
  <2>3. LaysOut(n, gen, value) /\ IsGen(n, value)
    BY <2>2, ConstantLays DEF LaysOut, Writes
  <2> HIDE DEF value
  <2>4. /\ LaysOut(n, value, returned) /\ returned.panicked = value.panicked
        /\ \A S : IsRow(value.code, S) => ClosedCode(returned.code)
    BY <2>3, ReturnLays
  <2> HIDE DEF returned, ended
  <2>5. LaysOut(n, gen, returned)
    BY <2>3, <2>4, LaysOutTwice
  <2>6. ASSUME ~returned.panicked, NEW S, IsRow(gen.code, S) PROVE ClosedCode(returned.code)
    BY <2>3, <2>4, <2>6 DEF LaysOut, Grown
  <2> QED
    BY <2>1, <2>5, <2>6 DEF ended
<1> QED
  BY <1>1, <1>2

\* A function that is finished has every exit settled.
LEMMA FinishedPlaces ==
  ASSUME NEW n, NEW gen, IsGen(n, gen), KeepsPlaces(gen, <<>>),
         NEW covered, covered => ClosedCode(gen.code)
  PROVE  PlacedFunction(Finished(gen, covered))
<1> DEFINE f == Finished(gen, covered)
<1>1. f.code = gen.code /\ f.exits = gen.exits /\ f.covered = covered
  BY DEF Finished
<1> HIDE DEF f
<1>2. gen.loop_starts = <<>>
  BY NoneOpen DEF KeepsPlaces, IsGen
<1>3. PICK S : Holds(gen, JumpsOpen(<<>>), S)
  BY DEF KeepsPlaces
<1>4. gen.break_backlog = {}
  <2>1. \A b \in gen.break_backlog : b.loop \in 0..(0 - 1)
    BY <1>2, <1>3 DEF Holds, BreaksHold
  <2> QED
    BY <2>1
<1>5. \A e \in gen.exits : e.goal # Unknown /\ TargetIn(gen.code, e.at) = e.goal
  BY <1>3, <1>4 DEF Holds, ExitsHold, Settled, Awaited
<1> QED
  BY <1>1, <1>3, <1>5 DEF PlacedFunction, Holds, f

\* The program takes one more.
LEMMA FunctionPlaced ==
  ASSUME IInv, NEW f, PlacedFunction(f), program' = Append(program, f),
         \A i \in DOMAIN program : PlacedFunction(program[i])
  PROVE  \A i \in DOMAIN program' : PlacedFunction(program'[i])
<1> DEFINE n == Len(program)
<1>1. IsSequence(program) /\ DOMAIN program = 1..n /\ n \in Nat
  BY Places DEF IInv
<1>2. /\ DOMAIN program' = 1..(n + 1) /\ program'[n + 1] = f
      /\ \A i \in 1..n : program'[i] = program[i]
  BY <1>1, Appended
<1> HIDE DEF n
<1>3. \A i \in 1..(n + 1) : i \in 1..n \/ i = n + 1
  BY <1>1
<1> QED
  BY <1>1, <1>2, <1>3

\* The end of a function.
LEMMA EndFuncPlaces == ASSUME IInv, LayoutInv, EndFunc PROVE LayoutInv'
<1> DEFINE n == Len(program)
           globals == Len(global_bindings)
           ended == Epilogue(Gen)
           outer == contexts[1]
           value == [t |-> "Function", within |-> "None", v |-> FunctionId]
           noted == [outer.gen EXCEPT !.panicked = @ \/ ended.panicked, !.sealed = FALSE]
           gen == NewConstant(noted, value)
           covered == Gen.sealed \/ ~EndsInReturn(Gen)
<1>1. /\ Compiling /\ UNCHANGED phase /\ phase = "compile" /\ Level = 2 /\ Visits = <<>>
      /\ program' = Append(program, Finished(ended, covered))
      /\ contexts' = <<Context(NewVar(gen), outer.res, outer.visits)>>
  BY DEF EndFunc, Compiling
<1>2. /\ KeepsPlaces(Gen, <<>>) /\ (Gen.sealed => ClosedCode(Gen.code))
      /\ IsGen(n, Gen) /\ ~Gen.panicked
      /\ Gen.ret_type \in {"None", "Int", "Any"} /\ n \in Nat
  BY <1>1, CurrentHeld, CurrentCoherent DEF Coherent, IsContext
<1>3. Placed(outer.gen, outer.visits)
  <2>1. 1 \in DOMAIN contexts
    BY <1>1, CurrentHeld
  <2> QED
    BY <1>1, <2>1 DEF LayoutInv
<1>4. IsGen(n + 1, outer.gen)
  <2>1. 1 \in DOMAIN contexts /\ 1 < Len(contexts)
    BY <1>1, Places DEF IInv, Compiled, Level
  <2>2. Compiled(contexts, n, globals)
    BY <1>1 DEF IInv
  <2>3. Coherent(n, 1, 1, globals, outer.gen, outer.res, outer.visits)
    BY <2>1, <2>2 DEF Compiled
  <2>4. globals \in Nat
    BY <1>1, CurrentCoherent
  <2> HIDE DEF outer, globals
  <2>5. Coherent(n + 1, 1, 1, globals, outer.gen, outer.res, outer.visits)
    BY <1>2, <2>3, <2>4, CoherentMoreFunctions
  <2> QED
    BY <2>5 DEF Coherent, IsContext
<1>5. /\ LaysOut(n, Gen, ended) /\ IsGen(n, ended)
      /\ \A S : ~ended.panicked /\ ~EndsInReturn(Gen) /\ IsRow(Gen.code, S)
                => ClosedCode(ended.code)
  BY <1>2, EpilogueLays DEF LaysOut, Writes
<1>6. ASSUME ~ended.panicked PROVE PlacedFunction(Finished(ended, covered))
  <2>1. KeepsPlaces(ended, <<>>)
    BY <1>2, <1>5, <1>6, HeldWritten
  <2>2. ASSUME covered PROVE ClosedCode(ended.code)
    <3>1. CASE EndsInReturn(Gen)
      BY <1>2, <2>2, <3>1 DEF Epilogue
    <3>2. CASE ~EndsInReturn(Gen)
      <4>1. PICK S : IsRow(Gen.code, S)
        BY <1>2 DEF KeepsPlaces, Holds
      <4> HIDE DEF ended
      <4> QED
        BY <1>5, <1>6, <3>2, <4>1
    <3> QED
      BY <3>1, <3>2
  <2> HIDE DEF ended, covered
  <2> QED
    BY <1>5, <2>1, <2>2, FinishedPlaces
<1>7. value \in Constant(n + 1)
  BY <1>2 DEF Constant, Value, Types, FunctionId
<1> HIDE DEF ended, outer, covered
<1>8. /\ IsGen(n + 1, noted) /\ SamePlaces(outer.gen, noted)
      /\ (noted.panicked <=> outer.gen.panicked \/ ended.panicked)
      /\ noted.sealed = FALSE
  BY <1>4 DEF IsGen, GenFields, SamePlaces
<1> HIDE DEF noted
<1>9. LaysOut(n + 1, noted, gen) /\ IsGen(n + 1, gen)
  BY <1>7, <1>8, ConstantLays DEF LaysOut, Writes
<1>10. gen.sealed = FALSE
  <2>1. gen = IF Len(noted.constants) > MaxConstant THEN [noted EXCEPT !.panicked = TRUE]
              ELSE [WriteByte(WriteInstr(noted, "Constant"), Len(noted.constants))
                      EXCEPT !.constants = Append(@, value)]
    BY DEF NewConstant
  <2> HIDE DEF gen, value
  <2> QED
    BY <1>8, <2>1 DEF WriteByte, WriteInstr, IsGen, GenFields
<1> HIDE DEF gen
<1>11. /\ contexts'[1].gen = Boundary(NewVar(gen)) /\ contexts'[1].visits = outer.visits
       /\ DOMAIN contexts' = 1..1
  BY <1>1 DEF Context
<1>12. /\ SamePlaces(gen, NewVar(gen)) /\ NewVar(gen).panicked = gen.panicked
       /\ NewVar(gen).sealed = FALSE /\ IsGen(n + 1, NewVar(gen))
  BY <1>9, <1>10, RecordsPlace, NewVarEffect
<1>13. /\ SamePlaces(NewVar(gen), Boundary(NewVar(gen)))
       /\ Boundary(NewVar(gen)).panicked = gen.panicked
       /\ Boundary(NewVar(gen)).sealed = FALSE
  BY <1>12, RecordsPlace
<1>14. ASSUME ~gen.panicked
       PROVE  /\ KeepsPlaces(Boundary(NewVar(gen)), outer.visits)
              /\ ~outer.gen.panicked /\ ~ended.panicked
  <2>1. ~noted.panicked
    BY <1>9, <1>14 DEF LaysOut
  <2>2. ~outer.gen.panicked /\ ~ended.panicked
    BY <1>8, <2>1
  <2>3. KeepsPlaces(noted, outer.visits)
    BY <1>3, <1>8, <2>2, HeldSame DEF Placed
  <2>4. KeepsPlaces(gen, outer.visits)
    BY <1>8, <1>9, <1>14, <2>3, HeldWritten
  <2>5. KeepsPlaces(NewVar(gen), outer.visits)
    BY <1>12, <2>4, HeldSame
  <2> QED
    BY <1>13, <2>2, <2>5, HeldSame
<1>15. \A i \in DOMAIN contexts' : Placed(contexts'[i].gen, contexts'[i].visits)
  <2>1. Placed(Boundary(NewVar(gen)), outer.visits)
    BY <1>13, <1>14 DEF Placed
  <2>2. \A i \in 1..1 : i = 1
    OBVIOUS
  <2> QED
    BY <1>11, <2>1, <2>2
<1>16. ASSUME GoesOn' PROVE \A i \in DOMAIN program' : PlacedFunction(program'[i])
  <2>1. ~gen.panicked
    BY <1>1, <1>11, <1>13, <1>16 DEF GoesOn
  <2>2. GoesOn
    BY <1>1, <1>14, <2>1 DEF GoesOn, outer
  <2>3. \A i \in DOMAIN program : PlacedFunction(program[i])
    BY <2>2 DEF LayoutInv
  <2> QED
    BY <1>1, <1>6, <1>14, <2>1, <2>3, FunctionPlaced
<1> QED
  BY <1>15, <1>16 DEF LayoutInv

\* The end of the main script.
LEMMA FinishKeepsPlaces == ASSUME IInv, LayoutInv, Finish PROVE LayoutInv'
<1> DEFINE n == Len(program)
           value == WriteInstr(Gen, "None")
           returned == WriteInstr(value, "Return")
<1>1. /\ Compiling /\ phase' = "compiled" /\ Level = 1 /\ Visits = <<>>
      /\ program' = Append(program, Finished(returned, TRUE))
  BY DEF Finish
<1>2. KeepsPlaces(Gen, <<>>) /\ IsGen(n, Gen) /\ ~Gen.panicked /\ phase = "compile"
  BY <1>1, CurrentHeld
<1>3. LaysOut(n, Gen, value) /\ IsGen(n, value) /\ ~value.panicked
  <2>1. "None" \in Range(OpNames) /\ "None" \notin ShortOps /\ "None" \notin ByteOps
    BY Written DEF ShortOps, ByteOps
  <2>2. LaysOut(n, Gen, value)
    BY <1>2, <2>1, InstrAdds
  <2>3. ~value.panicked
    BY <1>2 DEF WriteInstr, WriteByte, IsGen, GenFields
  <2> QED
    BY <2>2, <2>3 DEF LaysOut, Writes
<1> HIDE DEF value
<1>4. /\ LaysOut(n, value, returned) /\ ~returned.panicked /\ IsGen(n, returned)
      /\ \A S : IsRow(value.code, S) => ClosedCode(returned.code)
  BY <1>3, ReturnLays DEF LaysOut, Writes
<1> HIDE DEF returned
<1>5. KeepsPlaces(value, <<>>)
  BY <1>2, <1>3, HeldWritten
<1>6. KeepsPlaces(returned, <<>>)
  BY <1>3, <1>4, <1>5, HeldWritten
<1>7. ClosedCode(returned.code)
  BY <1>4, <1>5 DEF KeepsPlaces, Holds
<1>8. PlacedFunction(Finished(returned, TRUE))
  BY <1>4, <1>6, <1>7, FinishedPlaces
<1>9. \A i \in DOMAIN program : PlacedFunction(program[i])
  BY <1>1, <1>2 DEF LayoutInv, GoesOn, Gen
<1> QED
  BY <1>1, <1>8, <1>9, FunctionPlaced DEF LayoutInv

\* Every statement keeps the layout.
LEMMA CompilePlaces == ASSUME IInv, LayoutInv, Compile PROVE LayoutInv'
<1>1. ASSUME NEW name, VarStmt(name) \/ VarAnyStmt(name) PROVE LayoutInv'
  BY <1>1, VarPlaces, VarAnyPlaces
<1>2. ASSUME NEW name, AssignStmt(name) \/ YieldStmt(name) PROVE LayoutInv'
  BY <1>2, AssignPlaces, YieldPlaces
<1>3. ASSUME OpenBlock \/ CloseBlock \/ BeginWhile \/ EndWhile PROVE LayoutInv'
  BY <1>3, OpenBlockPlaces, CloseBlockPlaces, BeginWhilePlaces, EndWhilePlaces
<1>4. ASSUME BeginIf \/ EndIf \/ BeginElse \/ EndElse PROVE LayoutInv'
  BY <1>4, BeginIfPlaces, EndIfPlaces, BeginElsePlaces
<1>5. ASSUME NEW k, Break(k) \/ Continue(k) PROVE LayoutInv'
  BY <1>5, BreakPlaces, ContinuePlaces
<1>6. ASSUME NEW ret_type, NEW n, BeginFunc(ret_type, n) PROVE LayoutInv'
  BY <1>6, BeginFuncPlaces
<1>7. ASSUME EndFunc \/ StructStmt PROVE LayoutInv'
  BY <1>7, EndFuncPlaces, StructPlaces
<1>8. ASSUME NEW name, CallStmt(name) \/ PrintCall(name) PROVE LayoutInv'
  BY <1>8, CallPlaces, PrintCallPlaces
<1>9. ASSUME ReturnStmt \/ ReturnValue \/ Finish PROVE LayoutInv'
  BY <1>9, ReturnStmtPlaces, ReturnValuePlaces, FinishKeepsPlaces
<1>10. ASSUME Abort PROVE LayoutInv'
  BY <1>10 DEF Abort, LayoutInv, GoesOn
<1> QED
  BY <1>1, <1>2, <1>3, <1>4, <1>5, <1>6, <1>7, <1>8, <1>9, <1>10 DEF Compile

\* At the beginning nothing is laid out.
LEMMA InitPlaces == Init => LayoutInv
<1> SUFFICES ASSUME Init PROVE LayoutInv
  OBVIOUS
<1> DEFINE new == NewGenerator(<<>>, "None")
           res == NewResolver(TRUE, "None")
<1>1. contexts = <<Context(new, res, <<>>)>> /\ program = <<>>
  BY DEF Init, CompilerInit
<1>2. Placed(Boundary(new), <<>>)
  BY NewPlaced
<1> HIDE DEF new, res
<1>3. /\ contexts[1].gen = Boundary(new) /\ contexts[1].visits = <<>>
      /\ DOMAIN contexts = 1..1
  BY <1>1 DEF Context
<1>4. \A i \in 1..1 : i = 1
  OBVIOUS
<1> QED
  BY <1>1, <1>2, <1>3, <1>4 DEF LayoutInv

\* The layout of all code, under way and finished, holds in every state.
THEOREM LayoutHolds == Spec => []LayoutInv
<1>1. ASSUME IInv, LayoutInv, [Next]_vars PROVE LayoutInv'
  <2>1. CASE CompileStep
    BY <1>1, <2>1, CompilePlaces DEF CompileStep
  <2>2. CASE Start
    BY <1>1, <2>2 DEF Start, LayoutInv, GoesOn
  <2>3. CASE RunStep
    BY <1>1, <2>3, CycleKeepsProgram DEF RunStep, LayoutInv, GoesOn
  <2>4. CASE UNCHANGED vars
    BY <1>1, <2>4 DEF LayoutInv, GoesOn, vars, compilerVars
  <2> QED
    BY <1>1, <2>1, <2>2, <2>3, <2>4 DEF Next
<1> QED
  BY <1>1, InvariantHolds, InitPlaces, PTL DEF Spec

(***************************************************************************)
(* The places of a row are those where instructions start.                 *)
(***************************************************************************)
\* Counted from the beginning of the code, as InstructionStarts does, the starts
\* are the places of any row that the code has.
LEMMA StartsAreRow ==
  ASSUME NEW f, f.code \in Seq(Byte), NEW S, Laid(f.code, S)
  PROVE  InstructionStarts(f) = S
<1> DEFINE L == Len(f.code)
           ends(ip) == IF IsOp(f.code[ip + 1]) THEN ip + Width(Decode(f.code[ip + 1])) ELSE -1
           more(before, n) == before \cup {m \in {n} : \E ip \in before : ends(ip) = n}
           upTo == [n \in 0..L |-> S \cap 0..n]
<1>1. L \in Nat
  BY LenProperties
<1>2. S \subseteq 0..L /\ 0 \in S
  BY DEF Laid
<1>3. ASSUME NEW n \in 1..L, NEW before, before = S \cap 0..(n - 1)
      PROVE  more(before, n) = S \cap 0..n
  <2>1. n \in Nat /\ n - 1 \in Nat /\ n # 0
    BY <1>1
  <2>2. ASSUME n \in S PROVE \E ip \in before : ends(ip) = n
    <3>1. PICK ip \in S \ {L} : NextOf(f.code, ip) = n
      BY <2>1, <2>2 DEF Laid
    <3>2. IsOp(f.code[ip + 1]) /\ ends(ip) = n
      BY <3>1 DEF Laid, NextOf
    <3>3. ip \in Nat /\ ip < n
      BY <1>1, <1>2, <2>1, <3>1, Widths DEF NextOf
    <3> QED
      BY <1>3, <2>1, <3>1, <3>2, <3>3
  <2>3. ASSUME NEW ip \in before, ends(ip) = n PROVE n \in S
    <3>1. ip \in S /\ ip \in Nat /\ ip # L
      BY <1>1, <1>3, <2>1
    <3>2. NextOf(f.code, ip) \in S /\ IsOp(f.code[ip + 1])
      BY <3>1 DEF Laid
    <3> QED
      BY <2>3, <3>2 DEF NextOf
  <2>4. 0..n = 0..(n - 1) \cup {n}
    BY <2>1
  <2> QED
    BY <1>3, <2>2, <2>3, <2>4
<1> HIDE DEF more
<1>4. upTo = [n \in 0..L |-> IF n = 0 THEN {0} ELSE more(upTo[n - 1], n)]
  <2>1. ASSUME NEW n \in 0..L
        PROVE  upTo[n] = IF n = 0 THEN {0} ELSE more(upTo[n - 1], n)
    <3>1. CASE n = 0
      <4>1. \A k \in 0..n : k = 0
        BY <3>1
      <4> QED
        BY <1>2, <3>1, <4>1
    <3>2. CASE n # 0
      <4>1. n \in 1..L /\ n - 1 \in 0..L
        BY <1>1, <3>2
      <4>2. upTo[n - 1] = S \cap 0..(n - 1)
        BY <4>1
      <4> QED
        BY <1>3, <3>2, <4>1, <4>2
    <3> QED
      BY <3>1, <3>2
  <2> QED
    BY <2>1
<1> HIDE DEF upTo
<1>5. PICK found :
        /\ found = [n \in 0..L |-> IF n = 0 THEN {0} ELSE more(found[n - 1], n)]
        /\ InstructionStarts(f) = found[L]
  BY <1>4 DEF InstructionStarts, more
<1>6. \A n \in 0..L : found[n] = S \cap 0..n
  <2> DEFINE wrong == {n \in 0..L : found[n] # S \cap 0..n}
  <2>1. SUFFICES ASSUME wrong # {} PROVE FALSE
    OBVIOUS
  <2>w. wrong \subseteq Nat
    BY <1>1
  <2>2. PICK n \in wrong : \A k \in wrong : n <= k
    <3> HIDE DEF wrong
    <3> QED
      BY <2>1, <2>w, Least
  <2>3. n # 0
    <3>1. \A k \in 0..0 : k = 0
      OBVIOUS
    <3>2. found[0] = {0}
      BY <1>1, <1>5
    <3> QED
      BY <1>2, <2>2, <3>1, <3>2
  <2>4. n \in 1..L /\ n - 1 \in 0..L /\ ~(n <= n - 1)
    BY <1>1, <2>2, <2>3
  <2>5. found[n - 1] = S \cap 0..(n - 1)
    BY <2>2, <2>4
  <2>6. found[n] = more(found[n - 1], n)
    BY <1>5, <2>3, <2>4
  <2> QED
    BY <1>3, <2>2, <2>4, <2>5, <2>6
<1>7. S \cap 0..L = S /\ L \in 0..L
  <2>1. L \in 0..L
    BY <1>1
  <2> HIDE DEF L
  <2> QED
    BY <1>2, <2>1
<1>8. found[L] = S \cap 0..L
  BY <1>6, <1>7
<1> QED
  BY <1>5, <1>7, <1>8

(***************************************************************************)
(* What the layout says of the finished program, and of its run.           *)
(***************************************************************************)
\* The functions of a program that goes on are laid out, and their code is bytes.
LEMMA ProgramPlaced ==
  ASSUME IInv, LayoutInv, GoesOn, NEW i \in DOMAIN program
  PROVE  PlacedFunction(program[i]) /\ program[i].code \in Seq(Byte)
BY DEF IInv, IsFinished, LayoutInv

\* Every offset that the generator writes leads to an instruction of its own function,
\* or to the end of the code, and fits the two bytes it is written to.
THEOREM JumpsAlwaysLand == Spec => []JumpsLand
<1>1. ASSUME IInv, LayoutInv PROVE JumpsLand
  <2>1. SUFFICES ASSUME phase = "compiled", NEW i \in DOMAIN program
        PROVE  LET f == program[i]
                   starts == InstructionStarts(f)
               IN /\ Len(f.code) \in starts
                  /\ \A ip \in starts \ {Len(f.code)} :
                        Decode(f.code[ip + 1]) \in ShortOps =>
                           /\ TargetOf(f, ip + 1) \in starts
                           /\ FitsJump(TargetOf(f, ip + 1) - (ip + 3))
    BY DEF JumpsLand
  <2> DEFINE f == program[i]
             starts == InstructionStarts(f)
  <2>2. PlacedFunction(f) /\ f.code \in Seq(Byte)
    BY <1>1, <2>1, ProgramPlaced DEF GoesOn
  <2> HIDE DEF f
  <2>3. PICK S : IsRow(f.code, S)
    BY <2>2 DEF PlacedFunction
  <2>4. starts = S
    BY <2>2, <2>3, StartsAreRow DEF IsRow
  <2>5. S \subseteq 0..Len(f.code) /\ Len(f.code) \in S /\ Len(f.code) \in Nat
    BY <2>2, <2>3, LenProperties DEF IsRow, Laid
  <2>6. ASSUME NEW ip \in starts \ {Len(f.code)}, Decode(f.code[ip + 1]) \in ShortOps
        PROVE  /\ TargetOf(f, ip + 1) \in starts
               /\ FitsJump(TargetOf(f, ip + 1) - (ip + 3))
    <3>1. ip \in Nat /\ ip + 1 \in 1..Len(f.code) /\ (ip + 1) - 1 = ip /\ (ip + 1) + 2 = ip + 3
      <4>1. ip \in S /\ ip # Len(f.code)
        BY <2>4, <2>6
      <4>2. ip \in 0..Len(f.code)
        BY <2>5, <4>1
      <4> QED
        BY <2>5, <4>1, <4>2
    <3>2. ip + 1 \in JumpsIn(f.code, S)
      BY <2>4, <2>6, <3>1 DEF JumpsIn
    <3> QED
      BY <2>3, <2>4, <3>1, <3>2 DEF IsRow, JumpsStay, TargetIn, TargetOf
  <2> QED
    BY <2>4, <2>5, <2>6 DEF f
<1> QED
  BY <1>1, InvariantHolds, LayoutHolds, PTL

\* A break ends at the first instruction after its loop, a continue at the loop's
\* condition: the offsets that break_jump, patch_jump and write_jump_back write are the
\* ones of the loop that the statement names.
THEOREM ExitsAlwaysLand == Spec => []ExitsLand
<1>1. ASSUME IInv, LayoutInv PROVE ExitsLand
  <2>1. ASSUME phase = "compiled", NEW i \in DOMAIN program PROVE PlacedFunction(program[i])
    BY <1>1, <2>1, ProgramPlaced DEF GoesOn
  <2> QED
    BY <2>1 DEF ExitsLand, PlacedFunction, TargetIn, TargetOf
<1> QED
  BY <1>1, InvariantHolds, LayoutHolds, PTL

\* Where an activation may stand: at an instruction, or, in a function whose last byte
\* was taken for the end of every path, behind the last one.
Stands(f, ip) == ip \in InstructionStarts(f) /\ (f.covered => ip < Len(f.code))

\* From there an instruction leads to another such place.
LEMMA StandsOn ==
  ASSUME NEW f, f.code \in Seq(Byte), PlacedFunction(f),
         NEW ip, Stands(f, ip), ip < Len(f.code)
  PROVE  LET op == Decode(f.code[ip + 1])
             next == ip + Width(op)
             target == next + Signed16(f.code[ip + 2], f.code[ip + 3])
         IN /\ IsOp(f.code[ip + 1]) /\ next \in Nat /\ next <= Len(f.code)
            /\ op # "Return" => Stands(f, next)
            /\ op \in ShortOps => Stands(f, target) /\ target \in Nat
<1> DEFINE op == Decode(f.code[ip + 1])
           next == ip + Width(op)
           target == next + Signed16(f.code[ip + 2], f.code[ip + 3])
<1>1. PICK S : /\ IsRow(f.code, S)
               /\ f.covered =>
                    /\ \A at \in JumpsIn(f.code, S) : TargetIn(f.code, at) < Len(f.code)
                    /\ \A k \in S \ {Len(f.code)} :
                          NextOf(f.code, k) = Len(f.code) => Decode(f.code[k + 1]) = "Return"
  BY DEF PlacedFunction, ClosedCode
<1>2. InstructionStarts(f) = S /\ Laid(f.code, S)
  BY <1>1, StartsAreRow DEF IsRow
<1>3. ip \in S /\ S \subseteq 0..Len(f.code) /\ Len(f.code) \in Nat /\ Len(f.code) \in S
  BY <1>2, LenProperties DEF Stands, Laid
<1>4. ip \in Nat /\ ip \in S \ {Len(f.code)}
  BY <1>3
<1>5. IsOp(f.code[ip + 1]) /\ NextOf(f.code, ip) = next /\ next \in S
  BY <1>2, <1>4 DEF Laid, NextOf
<1>6. next \in Nat /\ next <= Len(f.code)
  BY <1>3, <1>5
<1>7. ASSUME op # "Return" PROVE Stands(f, next)
  <2>1. f.covered => next # Len(f.code)
    BY <1>1, <1>4, <1>5, <1>7
  <2> QED
    BY <1>2, <1>3, <1>5, <1>6, <2>1 DEF Stands
<1>8. ASSUME op \in ShortOps PROVE Stands(f, target) /\ target \in Nat
  <2>1. ip + 1 \in 1..Len(f.code) /\ (ip + 1) - 1 = ip
    BY <1>3, <1>4
  <2>2. ip + 1 \in JumpsIn(f.code, S)
    BY <1>4, <1>8, <2>1 DEF JumpsIn
  <2>3. Width(op) = 3
    BY <1>8, Widths
  <2>4. next = (ip + 1) + 2 /\ (ip + 1) + 1 = ip + 2 /\ (ip + 1) + 2 = ip + 3
    BY <1>4, <2>3
  <2>5. target = TargetIn(f.code, ip + 1)
    BY <2>4 DEF TargetIn
  <2>6. target \in S /\ (f.covered => target < Len(f.code))
    BY <1>1, <2>2, <2>5 DEF IsRow, JumpsStay
  <2> HIDE DEF target
  <2>7. target \in 0..Len(f.code)
    BY <1>3, <2>6
  <2> QED
    BY <1>2, <1>3, <2>6, <2>7 DEF Stands
<1> QED
  BY <1>5, <1>6, <1>7, <1>8

\* An activation begins at such a place.
LEMMA StandsFirst ==
  ASSUME NEW f, f.code \in Seq(Byte), PlacedFunction(f)
  PROVE  Stands(f, 0)
<1>1. PICK S : IsRow(f.code, S)
  BY DEF PlacedFunction
<1>2. InstructionStarts(f) = S /\ 0 \in S
  BY <1>1, StartsAreRow DEF IsRow, Laid
<1>3. f.covered => 0 < Len(f.code)
  BY DEF PlacedFunction, ClosedCode
<1> QED
  BY <1>2, <1>3 DEF Stands

\* All activations stand so, and a run ends accordingly.
AllStand == \A i \in DOMAIN call_stack : Stands(program[call_stack[i].function], call_stack[i].ip)
Astray == {"invalid_code", "bad_jump"}
RunStands ==
    phase = "running" =>
        /\ status = "running" => AllStand
        /\ status \notin Astray
        /\ status = "off_code" => ~Fn.covered
PlacedProgram == \A i \in DOMAIN program : PlacedFunction(program[i])

\* The top activation, where it can execute.
LEMMA TopStands ==
  ASSUME MachineOK, PlacedProgram, AllStand
  PROVE  /\ Stands(Fn, Top.ip)
         /\ Top.ip < Len(Fn.code) =>
              /\ IsOp(Fn.code[Top.ip + 1]) /\ After \in Nat /\ After <= Len(Fn.code)
              /\ Op # "Return" => Stands(Fn, After)
              /\ Op \in ShortOps => Stands(Fn, After + Offset) /\ After + Offset \in Nat
<1>1. Depth \in DOMAIN call_stack
  BY TopFacts
<1>2. Stands(Fn, Top.ip)
  BY <1>1, TopFacts DEF AllStand
<1>3. PlacedFunction(Fn) /\ Fn.code \in Seq(Byte)
  BY TopFacts DEF PlacedProgram
<1> DEFINE f == Fn
           ip == Top.ip
<1>4. f = Fn /\ ip = Top.ip
  OBVIOUS
<1> HIDE DEF f, ip
<1> QED
  BY <1>2, <1>3, <1>4, StandsOn DEF Op, After, Offset

\* The top activation moves to such a place.
LEMMA MoveStands ==
  ASSUME MachineOK, AllStand, NEW ip \in Nat, Stands(Fn, ip), MoveTo(ip), program' = program
  PROVE  AllStand'
<1>1. /\ DOMAIN call_stack' = 1..Depth /\ DOMAIN call_stack = 1..Depth
      /\ \A i \in 1..Depth : /\ call_stack'[i].function = call_stack[i].function
                             /\ call_stack'[i].ip = IF i = Depth THEN ip ELSE call_stack[i].ip
  BY Moved, TopFacts, LenProperties
<1>2. Fn = program[call_stack[Depth].function]
  BY TopFacts
<1> QED
  BY <1>1, <1>2 DEF AllStand

\* An instruction that leads to the next one, or to where its offset says.
LEMMA StepStands ==
  ASSUME MachineOK, PlacedProgram, AllStand, NEW ops, Executing(ops), program' = program,
         \/ "Return" \notin ops /\ MoveTo(After)
         \/ ops \subseteq ShortOps /\ MoveTo(After + Offset)
  PROVE  AllStand'
<1>1. Op \in ops /\ Top.ip < Len(Fn.code)
  BY DEF Executing, Fetches
<1>2. CASE "Return" \notin ops /\ MoveTo(After)
  BY <1>1, <1>2, TopStands, MoveStands
<1>3. CASE ops \subseteq ShortOps /\ MoveTo(After + Offset)
  BY <1>1, <1>3, TopStands, MoveStands
<1> QED
  BY <1>2, <1>3

\* A call puts an activation at the beginning of its function on top.
LEMMA CallStands ==
  ASSUME MachineOK, PlacedProgram, AllStand, CallUser
  PROVE  AllStand'
<1> DEFINE moved == [call_stack EXCEPT ![Depth].ip = After]
           new == Frame(Callee.v, CalleeSlot)
<1>1. /\ Executing({"CallUser"}) /\ program' = program
      /\ call_stack' = Append(moved, new)
  BY DEF CallUser, Same
<1>2. Executable /\ Op = "CallUser" /\ Top.ip < Len(Fn.code)
  BY <1>1, IsExecutable DEF Executable, Fetches
<1>3. Callee.v \in DOMAIN program
  BY <1>2, CalleeFacts
<1>4. Stands(program[Callee.v], 0)
  <2>1. program[Callee.v].code \in Seq(Byte) /\ PlacedFunction(program[Callee.v])
    BY <1>3 DEF MachineOK, IsProgram, PlacedProgram
  <2> QED
    BY <2>1, StandsFirst
<1>5. Stands(Fn, After)
  BY <1>2, TopStands
<1>6. DOMAIN call_stack = 1..Depth /\ Depth \in Nat \ {0} /\ Fn = program[call_stack[Depth].function]
  BY TopFacts
<1>7. moved \in Seq(FrameSet) /\ Len(moved) = Depth
  <2>1. call_stack \in Seq(FrameSet) /\ Depth \in 1..Len(call_stack) /\ Top \in FrameSet
    BY TopFacts DEF MachineOK, Depth
  <2>2. After \in Nat
    BY <1>2, TopStands
  <2>3. [Top EXCEPT !.ip = After] \in FrameSet
    BY <2>1, <2>2 DEF FrameSet
  <2> HIDE DEF moved
  <2>4. moved = [call_stack EXCEPT ![Depth] = [Top EXCEPT !.ip = After]]
    BY <2>1 DEF moved, Top
  <2> QED
    BY <2>1, <2>3, <2>4, ExceptSeq DEF Depth
<1>8. \A i \in 1..Depth : /\ moved[i].function = call_stack[i].function
                          /\ moved[i].ip = IF i = Depth THEN After ELSE call_stack[i].ip
  <2>1. \A i \in 1..Depth : call_stack[i] \in FrameSet
    BY <1>6, ElementOfSeq DEF MachineOK
  <2> QED
    BY <1>6, <2>1 DEF FrameSet
<1> HIDE DEF moved
<1>9. new.function = Callee.v /\ new.ip = 0
  BY DEF Frame
<1> HIDE DEF new
<1>10. ASSUME NEW i \in DOMAIN call_stack'
       PROVE  Stands(program[call_stack'[i].function], call_stack'[i].ip)
  <2>1. i \in 1..(Depth + 1) /\ call_stack'[i] = IF i <= Depth THEN moved[i] ELSE new
    BY <1>1, <1>6, <1>7, AppendProperties
  <2>2. CASE i <= Depth
    <3>1. i \in 1..Depth
      BY <1>6, <2>1, <2>2
    <3>2. Stands(program[call_stack[i].function], call_stack[i].ip)
      BY <1>6, <3>1 DEF AllStand
    <3> QED
      BY <1>5, <1>6, <1>8, <2>1, <2>2, <3>1, <3>2
  <2>3. CASE ~(i <= Depth)
    BY <1>4, <1>9, <2>1, <2>3
  <2> QED
    BY <2>2, <2>3
<1> QED
  BY <1>1, <1>10 DEF AllStand

\* A return takes the top one away.
LEMMA ReturnStands ==
  ASSUME MachineOK, AllStand, Return, status' = "running"
  PROVE  AllStand'
<1>1. Depth # 1 /\ call_stack' = SubSeq(call_stack, 1, Depth - 1) /\ program' = program
  BY DEF Return, Same
<1>2. Depth \in Nat \ {0} /\ DOMAIN call_stack = 1..Depth /\ Depth = Len(call_stack)
  BY TopFacts DEF Depth
<1>3. PICK n \in Nat : n = Depth - 1
  <2>1. Depth \in Nat \ {0}
    BY <1>2
  <2> QED
    BY <2>1
<1>4. n \in 1..Len(call_stack) /\ call_stack \in Seq(FrameSet)
  BY <1>1, <1>2, <1>3 DEF MachineOK
<1>5. \A i \in 1..n : i \in DOMAIN call_stack /\ call_stack[i] \in FrameSet
  BY <1>2, <1>4, ElementOfSeq
<1>6. DOMAIN call_stack' = 1..n /\ \A i \in 1..n : call_stack'[i] = call_stack[i]
  BY <1>1, <1>3, <1>4, <1>5, SubSeqProperties
<1> QED
  BY <1>1, <1>5, <1>6 DEF AllStand

\* Where the machine finds no instruction.
LEMMA FaultStands ==
  ASSUME MachineOK, PlacedProgram, AllStand, Fault
  PROVE  status' \notin Astray /\ (status' = "off_code" => ~Fn'.covered)
<1>1. status' = Problem /\ UNCHANGED <<program, call_stack, stack, heap>>
  BY DEF Fault
<1>2. Fn' = Fn
  BY <1>1 DEF Fn, Top, Depth
<1>3. /\ Top.ip < Len(Fn.code) => IsOp(Fn.code[Top.ip + 1]) /\ After <= Len(Fn.code)
      /\ Fn.covered => Top.ip < Len(Fn.code)
      /\ Top.ip \in Nat /\ Len(Fn.code) \in Nat /\ (Top.ip < Len(Fn.code) => After \in Nat)
  BY TopStands, TopFacts DEF Stands
<1>4. Problem = "off_code" => ~Fn.covered
  <2>1. Refusal # "off_code"
    BY UnwrapsAre, ComputingIs DEF Refusal, Unwritten, FloatBinary, IntBinary
  <2> QED
    BY <1>3, <2>1 DEF Problem
<1>5. Problem # "invalid_code"
  <2>1. Refusal # "invalid_code"
    BY UnwrapsAre, ComputingIs DEF Refusal, Unwritten, FloatBinary, IntBinary
  <2> QED
    BY <1>3, <2>1 DEF Problem
<1>6. Problem # "bad_jump"
  <2>1. SUFFICES ASSUME Problem = "bad_jump" PROVE FALSE
    OBVIOUS
  <2>2. Refusal = "bad_jump" /\ Top.ip < Len(Fn.code)
    BY <1>3, <2>1 DEF Problem
  <2>3. Op \in {"Jump", "JumpIfNot"} /\ After + Offset < 0
    BY <2>2, UnwrapsAre, ComputingIs DEF Refusal, Unwritten, FloatBinary, IntBinary
  <2>4. After + Offset \in Nat
    BY <2>2, <2>3, TopStands DEF ShortOps
  <2> QED
    BY <2>3, <2>4
<1> QED
  BY <1>1, <1>2, <1>4, <1>5, <1>6 DEF Astray

\* A cycle leads from such places to such places, or ends the run as it may.
LEMMA CycleStands ==
  ASSUME MachineOK, PlacedProgram, AllStand, Cycle
  PROVE  /\ status' = "running" => AllStand'
         /\ status' \notin Astray
         /\ status' = "off_code" => ~Fn'.covered
<1>1. status = "running"
  BY CycleRuns
<1>2. ASSUME status' = "running", AllStand'
      PROVE  /\ status' = "running" => AllStand'
             /\ status' \notin Astray
             /\ status' = "off_code" => ~Fn'.covered
  BY <1>2 DEF Astray
<1>3. ASSUME status' \in {"ended", "TypeError", "ManualCrash", "arithmetic_panic"}
      PROVE  /\ status' = "running" => AllStand'
             /\ status' \notin Astray
             /\ status' = "off_code" => ~Fn'.covered
  BY <1>3 DEF Astray
<1>4. ASSUME NEW ops, NEW n, NEW values, Executing(ops), "Return" \notin ops, Replace(n, values)
      PROVE  status' = "running" /\ AllStand'
  BY <1>1, <1>4, StepStands DEF Replace, Same
<1>5. CASE Pass \/ PushLiteral \/ GetLocal \/ GetGlobal \/ Pop \/ CallNative \/ FieldGet
           \/ TESTTakeInput \/ TESTYield \/ WrapAny \/ ValEqual
  BY <1>2, <1>4, <1>5 DEF Pass, PushLiteral, GetLocal, GetGlobal, Pop, CallNative, FieldGet,
                          TESTTakeInput, TESTYield, WrapAny, ValEqual
<1>6. CASE SetLocal \/ SetGlobal
  <2>1. status' = "running" /\ program' = program /\ MoveTo(After)
    BY <1>1, <1>6 DEF SetLocal, SetGlobal, StoreAt, Same
  <2>2. Executing({"SetLocal"}) \/ Executing({"SetGlobal"})
    BY <1>6 DEF SetLocal, SetGlobal
  <2> QED
    BY <1>2, <2>1, <2>2, StepStands
<1>7. CASE Jump
  <2>1. /\ status' = "running" /\ program' = program /\ MoveTo(After + Offset)
        /\ Executing({"Jump"}) /\ {"Jump"} \subseteq ShortOps
    BY <1>1, <1>7 DEF Jump, Same, ShortOps
  <2> QED
    BY <1>2, <2>1, StepStands
<1>8. CASE JumpIfNot
  <2>1. /\ status' = "running" /\ program' = program
        /\ MoveTo(After) \/ MoveTo(After + Offset)
        /\ Executing({"JumpIfNot"}) /\ {"JumpIfNot"} \subseteq ShortOps
    BY <1>1, <1>8 DEF JumpIfNot, Same, ShortOps
  <2> QED
    BY <1>2, <2>1, StepStands
<1>9. CASE CallUser
  <2>1. status' = "running"
    BY <1>1, <1>9 DEF CallUser, Same
  <2> QED
    BY <1>2, <1>9, <2>1, CallStands
<1>10. CASE NewObject \/ FieldSet
  <2>1. /\ status' = "running" /\ program' = program /\ MoveTo(After)
        /\ Executing({"CallNative"}) \/ Executing({"FieldSet"})
    BY <1>1, <1>10 DEF NewObject, FieldSet
  <2> QED
    BY <1>2, <2>1, StepStands
<1>11. CASE Return
  <2>1. status' = "running" \/ status' = "ended"
    BY <1>1, <1>11 DEF Return, Same
  <2> QED
    BY <1>2, <1>3, <1>11, <2>1, ReturnStands
<1>12. CASE UnwrapAny
  <2>1. Executing(DOMAIN Unwraps) /\ "Return" \notin DOMAIN Unwraps
    BY <1>12, UnwrapsAre DEF UnwrapAny
  <2>2. (\E values : Replace(1, values)) \/ status' = "TypeError"
    BY <1>12 DEF UnwrapAny
  <2> QED
    BY <1>2, <1>3, <1>4, <2>1, <2>2
<1>13. CASE Compute
  <2>1. Executing(DOMAIN Computing) /\ "Return" \notin DOMAIN Computing
    BY <1>13, ComputingIs DEF Compute, FloatBinary, IntBinary
  <2>2. \E n, values : Replace(n, values)
    BY <1>13 DEF Compute
  <2> QED
    BY <1>2, <1>4, <2>1, <2>2
<1>14. CASE ArithmeticPanic \/ Crash
  BY <1>3, <1>14 DEF ArithmeticPanic, Crash
<1>15. CASE Fault
  <2>1. AllStand'
    BY <1>15 DEF Fault, AllStand
  <2> QED
    BY <1>15, <2>1, FaultStands
<1> QED
  BY <1>5, <1>6, <1>7, <1>8, <1>9, <1>10, <1>11, <1>12, <1>13, <1>14, <1>15 DEF Cycle

\* The places of the activations and the ends of the runs, from the start on.
THEOREM RunStandsHolds == Spec => []RunStands
<1>1. Init => RunStands
  BY DEF Init, CompilerInit, RunStands
<1>2. ASSUME RunInv, LayoutInv, RunStands, RunInv', [Next]_vars PROVE RunStands'
  <2>1. CASE CompileStep
    BY <2>1, CompileOnly DEF CompileStep, RunStands
  <2>2. CASE Start
    <3>1. /\ phase = "compiled" /\ program' = program /\ status' = "running"
          /\ call_stack' = <<Frame(MainId, 0)>>
      BY <2>2 DEF Start, FirstFrame
    <3>2. MainId \in DOMAIN program
      BY <1>2, <3>1, EmptySeq DEF RunInv, IInv, IsSequence, MainId
    <3>3. Stands(program[MainId], 0)
      BY <1>2, <3>1, <3>2, ProgramPlaced, StandsFirst DEF RunInv, GoesOn
    <3>4. Frame(MainId, 0).function = MainId /\ Frame(MainId, 0).ip = 0
      BY DEF Frame
    <3>5. DOMAIN call_stack' = 1..1 /\ call_stack'[1] = Frame(MainId, 0)
      BY <3>1
    <3>6. \A i \in 1..1 : i = 1
      OBVIOUS
    <3>7. AllStand'
      BY <3>1, <3>3, <3>4, <3>5, <3>6 DEF AllStand
    <3> QED
      BY <3>1, <3>7 DEF RunStands, Astray
  <2>3. CASE RunStep
    <3>1. phase = "running" /\ Cycle /\ status = "running" /\ phase' = phase
      BY <2>3, CycleRuns DEF RunStep
    <3>2. MachineOK /\ PlacedProgram /\ AllStand
      BY <1>2, <3>1 DEF RunInv, LayoutInv, GoesOn, PlacedProgram, RunStands
    <3> QED
      BY <3>1, <3>2, CycleStands DEF RunStands
  <2>4. CASE UNCHANGED vars
    <3>1. phase' = phase /\ status' = status /\ UNCHANGED <<program, call_stack>>
      BY <2>4 DEF vars, runVars, compilerVars
    <3>2. Fn' = Fn /\ (AllStand' <=> AllStand)
      BY <3>1 DEF Fn, Top, Depth, AllStand
    <3> QED
      BY <1>2, <3>1, <3>2 DEF RunStands
  <2> QED
    BY <1>2, <2>1, <2>2, <2>3, <2>4 DEF Next
<1> QED
  BY <1>1, <1>2, RunInvariant, LayoutHolds, PTL DEF Spec

\* A run that reads behind the code of a function does so in one whose last byte the
\* generator took for a Return that ends every path.
THEOREM OnlyUncoveredRunsOff == Spec => []RunsOffOnlyUncovered
<1>1. RunStands => RunsOffOnlyUncovered
  BY DEF RunStands, RunsOffOnlyUncovered
<1> QED
  BY <1>1, RunStandsHolds, PTL

\* No run of a compiled program, sound or not, reads a byte that is no instruction, or
\* jumps to before the code.
CodeIsRead == status \notin Astray

\* The generator's rows are what the machine's reads rest on.
THEOREM CodeAlwaysRead == Spec => []CodeIsRead
<1>1. RunStands /\ RunInv => CodeIsRead
  BY DEF RunStands, RunInv, CodeIsRead, Astray
<1> QED
  BY <1>1, RunStandsHolds, RunInvariant, PTL

(***************************************************************************)
(* The types of the values in a frame.  An environment e says of which     *)
(* function: whether it is the main script, what it returns, what its      *)
(* frame begins with, the types of the globals that it reads, and, of each *)
(* function that it may call, the parameters, the return type, and how     *)
(* many globals there were when it was compiled.                           *)
(***************************************************************************)
StaticType == [t : Types, f : Nat]
FrameTypes == Seq(StaticType)

Signature == [params : Seq(Types), ret_type : Types, reach : Nat]

\* What GetGlobal reads: in the main script its own frame.
GlobalSlots(e, s) == IF e.main THEN s ELSE e.globals

Pushes(e, cs, op, arg, s, x) ==
    \/ op = "None" /\ x = Of("None")
    \/ op = "LoadByte" /\ x = Of("Int")
    \/ op = "TESTTakeInput" /\ x = Of("Bool")
    \/ op = "Constant" /\ arg + 1 \in DOMAIN cs /\ x = TypeOfValue(cs[arg + 1])
    \/ op = "GetLocal" /\ arg + 1 \in DOMAIN s /\ x = s[arg + 1]
    \/ op = "GetGlobal" /\ arg + 1 \in DOMAIN GlobalSlots(e, s) /\ x = GlobalSlots(e, s)[arg + 1]

Drops(e, op, x) ==
    \/ op = "Pop"
    \/ op = "JumpIfNot" /\ x = Of("Bool")
    \/ op = "Return" /\ (e.main \/ x = Of(e.ret))

Stores(e, op, arg, s, x) ==
    \/ op = "SetLocal" /\ arg + 1 \in DOMAIN s /\ s[arg + 1] = x
    \/ op = "SetGlobal" /\ arg + 1 \in DOMAIN GlobalSlots(e, s) /\ GlobalSlots(e, s)[arg + 1] = x

Converts(op, x, y) ==
    \/ op = "WrapAny" /\ y = Of("Any")
    \/ op = "TESTYield" /\ y = Of("None")
    \/ op \in DOMAIN Unwraps /\ x.t = "Any" /\ y = Of(Unwraps[op])
    \/ op = "IntToFloat" /\ x.t = "Int" /\ y = Of("Float")
    \/ op \in Unwritten

\* u is what lies below the callee x.
Answers(e, op, u, x, args, y) ==
    \/ /\ op = "CallUser"
       /\ x.t = "Function" /\ x.f \in DOMAIN e.sigs
       /\ e.sigs[x.f].params = Variants(args)
       /\ y = Of(e.sigs[x.f].ret_type)
       /\ e.main => \A g \in 1..e.sigs[x.f].reach : g <= Len(u) /\ u[g] = e.globals[g]
    \/ /\ op = "CallNative"
       /\ x.t = "NativeFunc" /\ x.f \in DOMAIN Natives
       /\ Natives[x.f].builds \/ Natives[x.f].takes = Variants(args)
       /\ y = Of(Natives[x.f].gives)

\* What an instruction finds in the frame and what it leaves there.
Rule(e, cs, op, arg, s, t) ==
    \/ \E x \in StaticType : t = Append(s, x) /\ Pushes(e, cs, op, arg, s, x)
    \/ \E x \in StaticType : s = Append(t, x) /\ Drops(e, op, x)
    \/ t = s /\ \E u \in FrameTypes, x \in StaticType : s = Append(u, x) /\ Stores(e, op, arg, s, x)
    \/ t = s /\ op = "Jump"
    \/ \E u \in FrameTypes, x, y \in StaticType :
          s = Append(u, x) /\ t = Append(u, y) /\ Converts(op, x, y)
    \/ \E u \in FrameTypes, x, y \in StaticType, args \in FrameTypes :
          /\ s = Append(u, x) \o args /\ Len(args) = arg
          /\ t = Append(u, y)
          /\ Answers(e, op, u, x, args, y)

ArgOf(code, ip) == IF Decode(code[ip + 1]) \in ByteOps THEN code[ip + 2] ELSE 0

\* T are the types of the frame at every place of the row S.
Flow(e, cs, code, S, T) ==
    /\ IsRow(code, S)
    /\ T \in [S -> FrameTypes]
    /\ T[0] = e.entry
    /\ \A ip \in S \ {Len(code)} :
          Rule(e, cs, Decode(code[ip + 1]), ArgOf(code, ip), T[ip], T[NextOf(code, ip)])
    /\ \A at \in JumpsIn(code, S) : T[TargetIn(code, at)] = T[at + 2]

\* Where one flow goes on from another.
Onward(S, T, S2, T2) == S \subseteq S2 /\ \A q \in S : T2[q] = T[q]

\* A pool that goes on from another one.
Longer(cs, ds) == DOMAIN cs \subseteq DOMAIN ds /\ \A i \in DOMAIN cs : ds[i] = cs[i]

\* Constants that are added to the pool do not change what is there.
LEMMA RuleMore ==
  ASSUME NEW e, NEW cs, NEW ds, Longer(cs, ds), NEW op, NEW arg, NEW s, NEW t, Rule(e, cs, op, arg, s, t)
  PROVE  Rule(e, ds, op, arg, s, t)
<1>1. ASSUME NEW x, Pushes(e, cs, op, arg, s, x) PROVE Pushes(e, ds, op, arg, s, x)
  BY <1>1 DEF Pushes, Longer
<1> QED
  BY <1>1 DEF Rule

\* Only one row fits a code.
LEMMA OneRow ==
  ASSUME NEW code \in Seq(Byte), NEW S, Laid(code, S), NEW T, Laid(code, T)
  PROVE  S = T
<1> DEFINE f == [code |-> code]
<1>1. f.code = code
  OBVIOUS
<1>2. InstructionStarts(f) = S
  BY <1>1, StartsAreRow
<1>3. InstructionStarts(f) = T
  BY <1>1, StartsAreRow
<1> QED
  BY <1>2, <1>3

\* A flow of old code, and what may be one of new code that goes on from it.
Resumes(e, cs, ds, c, d, S, T, S2, T2) ==
    /\ Flow(e, cs, c, S, T) /\ Longer(cs, ds)
    /\ c \in Seq(Byte) /\ d \in Seq(Byte) /\ Len(c) <= Len(d)
    /\ \A q \in 1..Len(c) : d[q] = c[q]
    /\ IsRow(d, S2) /\ S \subseteq S2
    /\ T2 \in [S2 -> FrameTypes]
    /\ \A q \in S : T2[q] = T[q]

\* The places of old code keep their instructions.
LEMMA FlowKept ==
  ASSUME NEW e, NEW cs, NEW ds, NEW c, NEW d, NEW S, NEW T, NEW S2, NEW T2,
         Resumes(e, cs, ds, c, d, S, T, S2, T2), NEW ip \in S \ {Len(c)}
  PROVE  /\ ip \in 0..(Len(c) - 1) /\ NextOf(d, ip) = NextOf(c, ip) /\ NextOf(c, ip) \in S
         /\ Decode(d[ip + 1]) = Decode(c[ip + 1])
         /\ Rule(e, ds, Decode(d[ip + 1]), ArgOf(d, ip), T2[ip], T2[NextOf(d, ip)])
<1> USE DEF Resumes
<1>1. IsRow(c, S) /\ Laid(c, S) /\ Len(c) \in Nat /\ Len(d) \in Nat
  BY LenProperties DEF Flow, IsRow
<1>2. S \subseteq 0..Len(c) /\ NextOf(c, ip) \in S /\ ip \in 0..(Len(c) - 1)
  BY <1>1 DEF Laid
<1>3. d[ip + 1] = c[ip + 1]
  BY <1>1, <1>2
<1>4. NextOf(d, ip) = NextOf(c, ip)
  BY <1>3 DEF NextOf
<1>5. ArgOf(d, ip) = ArgOf(c, ip)
  <2>1. CASE Decode(c[ip + 1]) \in ByteOps
    <3>1. Width(Decode(c[ip + 1])) = 2
      BY <2>1, Widths
    <3>2. NextOf(c, ip) = ip + 2
      BY <3>1 DEF NextOf
    <3>3. ip + 2 \in 0..Len(c) /\ ip + 2 \in 1..Len(c)
      BY <1>1, <1>2, <3>2
    <3> QED
      BY <1>3, <3>3 DEF ArgOf
  <2> QED
    BY <1>3, <2>1 DEF ArgOf
<1>6. Rule(e, cs, Decode(c[ip + 1]), ArgOf(c, ip), T[ip], T[NextOf(c, ip)])
  BY DEF Flow
<1>7. Rule(e, ds, Decode(c[ip + 1]), ArgOf(c, ip), T[ip], T[NextOf(c, ip)])
  BY <1>6, RuleMore
<1>8. T2[ip] = T[ip] /\ T2[NextOf(c, ip)] = T[NextOf(c, ip)]
  BY <1>2
<1> QED
  BY <1>2, <1>3, <1>4, <1>5, <1>7, <1>8

\* One instruction more, whose own jump, if it is one, leads to a frame like the one
\* that it leaves.
LEMMA FlowOne ==
  ASSUME NEW e, NEW cs, NEW ds, Longer(cs, ds), NEW c, NEW d, NEW op, Adds(c, d, op),
         NEW S, NEW T, Flow(e, cs, c, S, T), NEW S2, S2 = S \cup {Len(d)}, IsRow(d, S2),
         NEW t \in FrameTypes, Rule(e, ds, op, ArgOf(d, Len(c)), T[Len(c)], t),
         op \in ShortOps =>
            \/ TargetIn(d, Len(c) + 1) = Len(d)
            \/ TargetIn(d, Len(c) + 1) \in S /\ T[TargetIn(d, Len(c) + 1)] = t
  PROVE  \E T2 : Flow(e, ds, d, S2, T2) /\ Onward(S, T, S2, T2) /\ T2[Len(d)] = t
<1> DEFINE T2 == [q \in S2 |-> IF q = Len(d) THEN t ELSE T[q]]
<1>1. /\ c \in Seq(Byte) /\ d \in Seq(Byte) /\ Len(c) \in Nat /\ Len(d) \in Nat
      /\ Len(d) = Len(c) + Width(op) /\ Width(op) \in 1..3
      /\ \A q \in 1..Len(c) : d[q] = c[q]
  BY LenProperties, Widths DEF Adds
<1>2. /\ IsRow(c, S) /\ Laid(c, S) /\ S \subseteq 0..Len(c) /\ 0 \in S /\ Len(c) \in S
      /\ T \in [S -> FrameTypes]
  BY DEF Flow, IsRow, Laid
<1>3. Len(d) \notin S /\ Len(c) # Len(d) /\ Len(c) < Len(d) /\ 0 # Len(d)
  BY <1>1, <1>2
<1>4. /\ T2 \in [S2 -> FrameTypes] /\ T2[Len(d)] = t
      /\ \A q \in S : T2[q] = T[q]
  BY <1>2, <1>3
<1>5. \A at \in JumpsIn(c, S) : TargetIn(d, at) = TargetIn(c, at)
  BY <1>2, RowAdded
<1>6. /\ op \in ShortOps => JumpsIn(d, S2) = JumpsIn(c, S) \cup {Len(c) + 1}
      /\ op \notin ShortOps => JumpsIn(d, S2) = JumpsIn(c, S)
      /\ NextOf(d, Len(c)) = Len(d) /\ Decode(d[Len(c) + 1]) = op
  BY <1>2, RowAdded
<1> HIDE DEF T2
<1>7. ASSUME NEW ip \in S2 \ {Len(d)}
      PROVE  Rule(e, ds, Decode(d[ip + 1]), ArgOf(d, ip), T2[ip], T2[NextOf(d, ip)])
  <2>1. CASE ip = Len(c)
    BY <1>2, <1>4, <1>6, <2>1
  <2>2. CASE ip # Len(c)
    <3>1. ip \in S \ {Len(c)}
      BY <1>3, <2>2
    <3>2. Resumes(e, cs, ds, c, d, S, T, S2, T2)
      BY <1>1, <1>4 DEF Resumes
    <3> QED
      BY <3>1, <3>2, FlowKept
  <2> QED
    BY <2>1, <2>2
<1>8. ASSUME NEW at \in JumpsIn(d, S2) PROVE T2[TargetIn(d, at)] = T2[at + 2]
  <2>1. CASE at \in JumpsIn(c, S)
    <3>1. T[TargetIn(c, at)] = T[at + 2]
      BY <2>1 DEF Flow
    <3>2. TargetIn(c, at) \in S /\ at + 2 \in S
      BY <1>1, <1>2, <2>1, JumpPlaces DEF IsRow, JumpsStay
    <3> QED
      BY <1>4, <1>5, <2>1, <3>1, <3>2
  <2>2. CASE at \notin JumpsIn(c, S)
    <3>1. op \in ShortOps /\ at = Len(c) + 1
      BY <1>6, <2>2
    <3>2. at + 2 = Len(d)
      <4>1. Width(op) = 3
        BY <3>1, Widths
      <4> QED
        BY <1>1, <3>1, <4>1
    <3> QED
      BY <1>4, <3>1, <3>2
  <2> QED
    BY <2>1, <2>2
<1>9. T2[0] = e.entry
  BY <1>2, <1>4 DEF Flow
<1> QED
  BY <1>4, <1>7, <1>8, <1>9 DEF Flow, Onward

\* An instruction that is no jump.
LEMMA FlowPlain ==
  ASSUME NEW e, NEW cs, NEW ds, Longer(cs, ds), NEW c, NEW d, NEW op, Adds(c, d, op), op \notin ShortOps,
         NEW S, NEW T, Flow(e, cs, c, S, T),
         NEW t \in FrameTypes, Rule(e, ds, op, ArgOf(d, Len(c)), T[Len(c)], t)
  PROVE  \E S2, T2 : Flow(e, ds, d, S2, T2) /\ Onward(S, T, S2, T2) /\ T2[Len(d)] = t
<1> DEFINE S2 == S \cup {Len(d)}
<1>1. IsRow(c, S) /\ Laid(c, S)
  BY DEF Flow, IsRow
<1>2. Laid(d, S2) /\ JumpsIn(d, S2) = JumpsIn(c, S)
      /\ \A at \in JumpsIn(c, S) : TargetIn(d, at) = TargetIn(c, at)
  BY <1>1, RowAdded
<1>3. IsRow(d, S2)
  BY <1>1, <1>2 DEF IsRow, JumpsStay
<1>4. \E T2 : Flow(e, ds, d, S2, T2) /\ Onward(S, T, S2, T2) /\ T2[Len(d)] = t
  BY <1>3, FlowOne
<1> QED
  BY <1>4

\* A jump to behind itself, or to a place where the frame is like the one it leaves.
LEMMA FlowJump ==
  ASSUME NEW e, NEW cs, NEW c, NEW d, NEW op, Adds(c, d, op), op \in ShortOps,
         NEW S, NEW T, Flow(e, cs, c, S, T),
         NEW target, TargetIn(d, Len(c) + 1) = target, FitsJump(target - Len(d)),
         NEW t \in FrameTypes, Rule(e, cs, op, 0, T[Len(c)], t),
         target = Len(d) \/ (target \in S /\ T[target] = t)
  PROVE  \E S2, T2 : /\ Flow(e, cs, d, S2, T2) /\ Onward(S, T, S2, T2) /\ T2[Len(d)] = t
                     /\ Len(c) + 1 \in JumpsIn(d, S2) /\ (Len(c) + 1) + 2 = Len(d)
<1> DEFINE S2 == S \cup {Len(d)}
<1>1. IsRow(c, S) /\ Laid(c, S)
  BY DEF Flow, IsRow
<1>2. IsRow(d, S2) /\ Len(c) + 1 \in JumpsIn(d, S2)
  BY <1>1, JumpAdded
<1>3. Longer(cs, cs)
  BY DEF Longer
<1>4. Decode(d[Len(c) + 1]) = op /\ op \notin ByteOps
  BY <1>1, RowAdded DEF ShortOps, ByteOps
<1>5. ArgOf(d, Len(c)) = 0
  BY <1>4 DEF ArgOf
<1>6. \E T2 : Flow(e, cs, d, S2, T2) /\ Onward(S, T, S2, T2) /\ T2[Len(d)] = t
  BY <1>2, <1>3, <1>5, FlowOne
<1>7. (Len(c) + 1) + 2 = Len(d)
  BY LenProperties, Widths DEF Adds
<1> QED
  BY <1>2, <1>6, <1>7

\* Patching leaves the frames alone, where those of the patched jumps are like the one
\* at the end of the code.
Rejoin(gen, jumps, S, T) ==
    jumps \subseteq JumpsIn(gen.code, S) /\ \A at \in jumps : T[at + 2] = T[Len(gen.code)]

\* Patching jumps to the next instruction keeps the types, where the frame is the one
\* after the jumps.
LEMMA FlowPatched ==
  ASSUME NEW e, NEW n, NEW gen, IsGen(n, gen), NEW S, NEW T, Flow(e, gen.constants, gen.code, S, T),
         NEW jumps, Rejoin(gen, jumps, S, T), ~PatchToNext(gen, jumps).panicked
  PROVE  LET new == PatchToNext(gen, jumps)
         IN /\ Flow(e, new.constants, new.code, S, T) /\ new.constants = gen.constants
            /\ Len(new.code) = Len(gen.code)
<1> SUFFICES ASSUME NEW new, new = PatchToNext(gen, jumps)
             PROVE  /\ Flow(e, new.constants, new.code, S, T) /\ new.constants = gen.constants
                    /\ Len(new.code) = Len(gen.code)
  OBVIOUS
<1>1. ~new.panicked
  OBVIOUS
<1> USE DEF Rejoin
<1>2. /\ gen.code \in Seq(Byte) /\ Len(gen.code) \in Nat /\ DOMAIN gen.code = 1..Len(gen.code)
      /\ DOMAIN gen = GenFields
  BY LenProperties DEF IsGen
<1>3. IsRow(gen.code, S) /\ Laid(gen.code, S) /\ S \subseteq 0..Len(gen.code) /\ Len(gen.code) \in S
  BY DEF Flow, IsRow, Laid
<1>4. /\ Len(new.code) = Len(gen.code) /\ IsRow(new.code, S)
      /\ JumpsIn(new.code, S) = JumpsIn(gen.code, S)
      /\ \A at \in JumpsIn(gen.code, S) :
            TargetIn(new.code, at) = IF at \in jumps THEN Len(gen.code) ELSE TargetIn(gen.code, at)
  <2>1. IsRow(gen.code, S)
    BY <1>3
  <2> QED
    BY <2>1, PatchLays
<1>5. new.constants = gen.constants
  BY <1>2 DEF PatchToNext, GenFields
<1>6. ASSUME NEW q \in 1..Len(gen.code), q - 1 \notin jumps, q - 2 \notin jumps
      PROVE  new.code[q] = gen.code[q]
  BY <1>2, <1>6 DEF PatchToNext, GenFields
<1>7. ASSUME NEW at \in jumps
      PROVE  at \in Nat /\ at - 1 \in S /\ Decode(gen.code[at]) \in ShortOps
             /\ \A m \in S : m # at /\ m # at + 1
  BY <1>2, <1>3, JumpPlaces
<1>8. ASSUME NEW ip \in S \ {Len(gen.code)}
      PROVE  /\ new.code[ip + 1] = gen.code[ip + 1]
             /\ ArgOf(new.code, ip) = ArgOf(gen.code, ip)
             /\ NextOf(new.code, ip) = NextOf(gen.code, ip)
  <2>1. ip \in 0..(Len(gen.code) - 1) /\ NextOf(gen.code, ip) \in 0..Len(gen.code)
    BY <1>2, <1>3 DEF Laid
  <2>2. ip \notin jumps /\ ip - 1 \notin jumps
    <3>1. ip - 1 \in jumps => ip # (ip - 1) + 1
      BY <1>7
    <3> QED
      BY <1>7, <2>1, <3>1
  <2>3. new.code[ip + 1] = gen.code[ip + 1]
    <3>1. ip + 1 \in 1..Len(gen.code) /\ (ip + 1) - 1 = ip /\ (ip + 1) - 2 = ip - 1
      BY <1>2, <2>1
    <3> QED
      BY <1>6, <2>2, <3>1
  <2>4. ArgOf(new.code, ip) = ArgOf(gen.code, ip)
    <3>1. CASE Decode(gen.code[ip + 1]) \in ByteOps
      <4>1. Width(Decode(gen.code[ip + 1])) = 2
        BY <3>1, Widths
      <4>2. ip + 2 \in 1..Len(gen.code) /\ (ip + 2) - 1 = ip + 1 /\ (ip + 2) - 2 = ip
            /\ (ip + 1) - 1 = ip
        BY <1>2, <2>1, <4>1 DEF NextOf
      <4>3. ip + 1 \notin jumps
        <5>1. Decode(gen.code[ip + 1]) \notin ShortOps
          BY <3>1 DEF ByteOps, ShortOps
        <5> QED
          BY <1>7, <5>1
      <4>4. new.code[ip + 2] = gen.code[ip + 2]
        BY <1>6, <2>2, <4>2, <4>3
      <4> QED
        BY <2>3, <4>4 DEF ArgOf
    <3> QED
      BY <2>3, <3>1 DEF ArgOf
  <2> QED
    BY <2>3, <2>4 DEF NextOf
<1>9. \A ip \in S \ {Len(new.code)} :
         Rule(e, new.constants, Decode(new.code[ip + 1]), ArgOf(new.code, ip), T[ip], T[NextOf(new.code, ip)])
  BY <1>4, <1>5, <1>8 DEF Flow
<1>10. \A at \in JumpsIn(new.code, S) : T[TargetIn(new.code, at)] = T[at + 2]
  BY <1>4 DEF Flow
<1>11. T \in [S -> FrameTypes] /\ T[0] = e.entry
  BY DEF Flow
<1> QED
  BY <1>4, <1>5, <1>9, <1>10, <1>11 DEF Flow

(***************************************************************************)
(* First parts of frames.                                                  *)
(***************************************************************************)
Part(fr, n) == [q \in 1..n |-> fr[q]]

\* Frames with the same places are the same.
LEMMA SameFrame ==
  ASSUME NEW fr \in FrameTypes, NEW G \in FrameTypes, Len(fr) = Len(G), \A q \in 1..Len(fr) : fr[q] = G[q]
  PROVE  fr = G
<1>1. PICK n \in Nat : fr \in [1..n -> StaticType]
  BY SeqDef DEF FrameTypes
<1>2. PICK m \in Nat : G \in [1..m -> StaticType]
  BY SeqDef DEF FrameTypes
<1>3. Len(fr) = n /\ Len(G) = m
  BY <1>1, <1>2, LenProperties DEF FrameTypes
<1>4. fr = [q \in 1..n |-> fr[q]] /\ G = [q \in 1..n |-> G[q]] /\ \A q \in 1..n : fr[q] = G[q]
  BY <1>1, <1>2, <1>3
<1> QED
  BY <1>4

\* The places of a first part.
LEMMA PartFacts ==
  ASSUME NEW fr \in FrameTypes, NEW n \in 0..Len(fr)
  PROVE  /\ Part(fr, n) \in FrameTypes /\ Len(Part(fr, n)) = n
         /\ \A q \in 1..n : Part(fr, n)[q] = fr[q]
<1>1. Len(fr) \in Nat /\ \A q \in 1..Len(fr) : fr[q] \in StaticType
  BY LenProperties, ElementOfSeq DEF FrameTypes
<1>2. n \in Nat /\ Part(fr, n) \in [1..n -> StaticType]
  BY <1>1 DEF Part
<1>3. Part(fr, n) \in Seq(StaticType)
  BY <1>2, SeqDef
<1>4. Len(Part(fr, n)) = n
  BY <1>2, <1>3, LenProperties
<1> QED
  BY <1>3, <1>4 DEF FrameTypes, Part

\* All of a frame, a part of a part, and a part of a frame with one more value.
LEMMA PartsOfParts ==
  ASSUME NEW fr \in FrameTypes
  PROVE  /\ Part(fr, Len(fr)) = fr
         /\ \A n \in 0..Len(fr) : \A m \in 0..n : Part(Part(fr, n), m) = Part(fr, m)
         /\ \A x \in StaticType : \A n \in 0..Len(fr) : Part(Append(fr, x), n) = Part(fr, n)
         /\ \A n \in 1..Len(fr) : Part(fr, n) = Append(Part(fr, n - 1), fr[n])
<1>1. Len(fr) \in Nat /\ \A q \in 1..Len(fr) : fr[q] \in StaticType
  BY LenProperties, ElementOfSeq DEF FrameTypes
<1>2. Part(fr, Len(fr)) = fr
  BY <1>1, PartFacts, SameFrame
<1>3. ASSUME NEW n \in 0..Len(fr), NEW m \in 0..n PROVE Part(Part(fr, n), m) = Part(fr, m)
  BY <1>1 DEF Part
<1>4. ASSUME NEW x \in StaticType, NEW n \in 0..Len(fr) PROVE Part(Append(fr, x), n) = Part(fr, n)
  <2>1. \A q \in 1..Len(fr) : Append(fr, x)[q] = fr[q]
    BY AppendProperties DEF FrameTypes
  <2> QED
    BY <1>1, <2>1 DEF Part
<1>5. ASSUME NEW n \in 1..Len(fr) PROVE Part(fr, n) = Append(Part(fr, n - 1), fr[n])
  <2>1. n \in 0..Len(fr) /\ n - 1 \in 0..Len(fr) /\ fr[n] \in StaticType
    BY <1>1
  <2>2. Part(fr, n) \in FrameTypes /\ Len(Part(fr, n)) = n /\ \A q \in 1..n : Part(fr, n)[q] = fr[q]
    BY <2>1, PartFacts
  <2>3. Part(fr, n - 1) \in FrameTypes /\ Len(Part(fr, n - 1)) = n - 1
        /\ \A q \in 1..(n - 1) : Part(fr, n - 1)[q] = fr[q]
    BY <2>1, PartFacts
  <2> DEFINE A == Append(Part(fr, n - 1), fr[n])
  <2>4. /\ A \in FrameTypes /\ Len(A) = n /\ A[n] = fr[n]
        /\ \A q \in 1..(n - 1) : A[q] = fr[q]
    BY <2>1, <2>3, AppendProperties DEF FrameTypes
  <2> HIDE DEF A
  <2>5. \A q \in 1..n : Part(fr, n)[q] = A[q]
    BY <1>1, <2>1, <2>2, <2>4
  <2>6. Part(fr, n) = A
    BY <2>2, <2>4, <2>5, SameFrame
  <2> QED
    BY <2>6 DEF A
<1> QED
  BY <1>2, <1>3, <1>4, <1>5

\* Code with so many pops at its end.
Popping(c, d, k) ==
    /\ c \in Seq(Byte) /\ d \in Seq(Byte) /\ k \in Nat /\ Len(d) = Len(c) + k
    /\ \A q \in 1..Len(c) : d[q] = c[q]
    /\ \A q \in (Len(c) + 1)..Len(d) : d[q] = OpByte["Pop"]

\* The places of the pops.
LEMMA PopPlaces ==
  ASSUME NEW from \in Nat, NEW to \in Nat, from <= to, NEW S, S \subseteq 0..from,
         NEW ip \in (S \cup (from..to)) \ {to}, ip \notin S \ {from}
  PROVE  ip \in from..(to - 1)
OBVIOUS

\* Any number of pops: behind each of them there is one value less.
LEMMA FlowPops ==
  ASSUME NEW e, NEW cs, NEW c, NEW k, NEW d, Popping(c, d, k),
         NEW S, NEW T, Flow(e, cs, c, S, T), k <= Len(T[Len(c)])
  PROVE  \E S2, T2 : /\ Flow(e, cs, d, S2, T2) /\ Onward(S, T, S2, T2)
                     /\ T2[Len(d)] = Part(T[Len(c)], Len(T[Len(c)]) - k)
<1> DEFINE fr == T[Len(c)]
           S2 == S \cup (Len(c)..Len(d))
           T2 == [q \in S2 |-> IF q \in S THEN T[q] ELSE Part(fr, Len(fr) - (q - Len(c)))]
<1> USE DEF Popping
<1>1. /\ Len(c) \in Nat /\ Len(d) \in Nat /\ Len(c) <= Len(d)
      /\ IsRow(c, S) /\ Laid(c, S) /\ S \subseteq 0..Len(c) /\ 0 \in S /\ Len(c) \in S
      /\ T \in [S -> FrameTypes]
  BY LenProperties DEF Flow, IsRow, Laid
<1>2. fr \in FrameTypes /\ Len(fr) \in Nat /\ k <= Len(fr)
  BY <1>1, LenProperties DEF FrameTypes
<1>3. /\ IsRow(d, S2) /\ JumpsIn(d, S2) \subseteq JumpsIn(c, S)
      /\ \A at \in JumpsIn(c, S) : TargetIn(d, at) = TargetIn(c, at)
      /\ \A ip \in Len(c)..(Len(d) - 1) : Decode(d[ip + 1]) = "Pop" /\ NextOf(d, ip) = ip + 1
  BY <1>1, PopsRow
<1> HIDE DEF fr
<1>4. \A q \in Len(c)..Len(d) : T2[q] = Part(fr, Len(fr) - (q - Len(c)))
  <2>1. Part(fr, Len(fr)) = fr
    BY <1>2, PartsOfParts
  <2> SUFFICES ASSUME NEW q \in Len(c)..Len(d) PROVE T2[q] = Part(fr, Len(fr) - (q - Len(c)))
    OBVIOUS
  <2>2. CASE q = Len(c)
    <3>1. T2[q] = fr /\ Len(fr) - (q - Len(c)) = Len(fr)
      BY <1>1, <1>2, <2>2 DEF fr
    <3> QED
      BY <2>1, <3>1
  <2>3. CASE q # Len(c)
    <3>1. q \notin S
      BY <1>1, <2>3
    <3> QED
      BY <3>1
  <2> QED
    BY <2>2, <2>3
<1>5. \A q \in S : T2[q] = T[q]
  OBVIOUS
<1>6. T2 \in [S2 -> FrameTypes]
  <2> SUFFICES ASSUME NEW q \in S2 PROVE T2[q] \in FrameTypes
    OBVIOUS
  <2>1. CASE q \in S
    BY <1>1, <2>1
  <2>2. CASE q \in Len(c)..Len(d)
    <3>1. Len(fr) - (q - Len(c)) \in 0..Len(fr)
      BY <1>1, <1>2, <2>2
    <3>2. Part(fr, Len(fr) - (q - Len(c))) \in FrameTypes
      BY <1>2, <3>1, PartFacts
    <3> QED
      BY <1>4, <2>2, <3>2
  <2> QED
    BY <2>1, <2>2
<1>7. Resumes(e, cs, cs, c, d, S, T, S2, T2)
  BY <1>1, <1>3, <1>5, <1>6 DEF Resumes, Longer
<1> HIDE DEF T2
<1>8. ASSUME NEW ip \in S2 \ {Len(d)}
      PROVE  Rule(e, cs, Decode(d[ip + 1]), ArgOf(d, ip), T2[ip], T2[NextOf(d, ip)])
  <2>1. CASE ip \in S \ {Len(c)}
    BY <1>7, <2>1, FlowKept
  <2>2. CASE ip \notin S \ {Len(c)}
    <3>1. ip \in Len(c)..(Len(d) - 1)
      <4>1. PICK from, to : from = Len(c) /\ to = Len(d)
        OBVIOUS
      <4> QED
        BY <1>1, <2>2, <4>1, PopPlaces
    <3>2. Decode(d[ip + 1]) = "Pop" /\ NextOf(d, ip) = ip + 1
      BY <1>3, <3>1
    <3> DEFINE m == Len(fr) - (ip - Len(c))
    <3>3. m \in 1..Len(fr) /\ Len(fr) - ((ip + 1) - Len(c)) = m - 1
          /\ ip \in Len(c)..Len(d) /\ ip + 1 \in Len(c)..Len(d)
      BY <1>1, <1>2, <3>1
    <3>4. T2[ip] = Part(fr, m) /\ T2[ip + 1] = Part(fr, m - 1)
      BY <1>4, <3>3
    <3> HIDE DEF m
    <3>5. Part(fr, m) = Append(Part(fr, m - 1), fr[m])
      BY <1>2, <3>3, PartsOfParts
    <3>6. fr[m] \in StaticType
      BY <1>2, <3>3, ElementOfSeq DEF FrameTypes
    <3>7. T2[ip] = Append(T2[ip + 1], fr[m]) /\ Drops(e, "Pop", fr[m])
      BY <3>4, <3>5 DEF Drops
    <3> QED
      BY <3>2, <3>6, <3>7 DEF Rule
  <2> QED
    BY <2>1, <2>2
<1>9. ASSUME NEW at \in JumpsIn(d, S2) PROVE T2[TargetIn(d, at)] = T2[at + 2]
  <2>1. at \in JumpsIn(c, S)
    BY <1>3
  <2>2. T[TargetIn(c, at)] = T[at + 2]
    BY <2>1 DEF Flow
  <2>3. TargetIn(c, at) \in S /\ at + 2 \in S
    BY <1>1, <2>1, JumpPlaces DEF IsRow, JumpsStay
  <2> QED
    BY <1>3, <1>5, <2>1, <2>2, <2>3
<1>10. T2[0] = e.entry
  BY <1>1, <1>5 DEF Flow
<1>11. Flow(e, cs, d, S2, T2)
  BY <1>3, <1>6, <1>8, <1>9, <1>10 DEF Flow
<1>12. T2[Len(d)] = Part(fr, Len(fr) - k)
  <2>1. Len(d) \in Len(c)..Len(d) /\ Len(fr) - (Len(d) - Len(c)) = Len(fr) - k
    BY <1>1, <1>2
  <2> QED
    BY <1>4, <2>1
<1> QED
  BY <1>5, <1>11, <1>12 DEF Onward, fr

(***************************************************************************)
(* What a helper that writes finds in the frame, s, and what it leaves     *)
(* there, t: any flow of the old code is the beginning of one of the new.  *)
(***************************************************************************)
SameRecords(old, new) ==
    /\ new.heights = old.heights /\ new.leaky = old.leaky
    /\ ~new.misplaced => ~old.misplaced

Flows(e, old, new, s, t) ==
    \A S, T : Flow(e, old.constants, old.code, S, T) /\ T[Len(old.code)] = s
       => \E S2, T2 : /\ Flow(e, new.constants, new.code, S2, T2)
                      /\ Onward(S, T, S2, T2) /\ T2[Len(new.code)] = t

Leads(n, e, old, new, s, t) ==
    /\ LaysOut(n, old, new)
    /\ SameRecords(old, new)
    /\ ~new.panicked /\ ~new.misplaced => Flows(e, old, new, s, t)

\* One after the other.
LEMMA LeadsTwice ==
  ASSUME NEW n, NEW e, NEW a, IsGen(n, a), NEW b, NEW c, NEW s, NEW t, NEW u,
         Leads(n, e, a, b, s, t), Leads(n, e, b, c, t, u)
  PROVE  Leads(n, e, a, c, s, u)
<1>1. LaysOut(n, a, b) /\ LaysOut(n, b, c) /\ LaysOut(n, a, c)
  BY LaysOutTwice DEF Leads
<1>2. SameRecords(a, c)
  BY DEF Leads, SameRecords
<1>3. ASSUME ~c.panicked, ~c.misplaced PROVE Flows(e, a, c, s, u)
  <2>1. ~b.panicked /\ ~b.misplaced
    BY <1>1, <1>3 DEF LaysOut, Leads, SameRecords
  <2>2. Flows(e, a, b, s, t) /\ Flows(e, b, c, t, u)
    BY <1>3, <2>1 DEF Leads
  <2> SUFFICES ASSUME NEW S, NEW T, Flow(e, a.constants, a.code, S, T), T[Len(a.code)] = s
               PROVE  \E S2, T2 : /\ Flow(e, c.constants, c.code, S2, T2)
                                  /\ Onward(S, T, S2, T2) /\ T2[Len(c.code)] = u
    BY DEF Flows
  <2>3. PICK S2, T2 : /\ Flow(e, b.constants, b.code, S2, T2)
                      /\ Onward(S, T, S2, T2) /\ T2[Len(b.code)] = t
    BY <2>2 DEF Flows
  <2>4. PICK S3, T3 : /\ Flow(e, c.constants, c.code, S3, T3)
                      /\ Onward(S2, T2, S3, T3) /\ T3[Len(c.code)] = u
    BY <2>2, <2>3 DEF Flows
  <2>5. Onward(S, T, S3, T3)
    BY <2>3, <2>4 DEF Onward
  <2> QED
    BY <2>4, <2>5
<1> QED
  BY <1>1, <1>2, <1>3 DEF Leads

\* What is only recorded.
LEMMA NothingLeads ==
  ASSUME NEW n, NEW e, NEW old, IsGen(n, old), NEW new, Writes(n, old, new),
         new.code = old.code, new.constants = old.constants, new.exits = old.exits,
         new.panicked = old.panicked, SameRecords(old, new), NEW s
  PROVE  Leads(n, e, old, new, s, s)
<1>1. LaysOut(n, old, new)
  BY NothingLaid
<1>2. Flows(e, old, new, s, s)
  BY DEF Flows, Onward
<1> QED
  BY <1>1, <1>2 DEF Leads

\* Giving up leads anywhere.
LEMMA PanicLeads ==
  ASSUME NEW n, NEW e, NEW gen, IsGen(n, gen), NEW s, NEW t
  PROVE  Leads(n, e, gen, [gen EXCEPT !.panicked = TRUE], s, t)
<1>1. LaysOut(n, gen, [gen EXCEPT !.panicked = TRUE])
  BY GivingUp
<1>2. /\ SameRecords(gen, [gen EXCEPT !.panicked = TRUE])
      /\ [gen EXCEPT !.panicked = TRUE].panicked
  BY DEF SameRecords, IsGen, GenFields
<1> QED
  BY <1>1, <1>2 DEF Leads

\* One instruction that is no jump.
LEMMA WrittenLeads ==
  ASSUME NEW n, NEW e, NEW old, IsGen(n, old), NEW new, LaysOut(n, old, new), SameRecords(old, new),
         Longer(old.constants, new.constants),
         NEW op, Adds(old.code, new.code, op), op \notin ShortOps,
         NEW s, NEW t \in FrameTypes,
         Rule(e, new.constants, op, ArgOf(new.code, Len(old.code)), s, t)
  PROVE  Leads(n, e, old, new, s, t)
<1>1. ASSUME NEW S, NEW T, Flow(e, old.constants, old.code, S, T), T[Len(old.code)] = s
      PROVE  \E S2, T2 : /\ Flow(e, new.constants, new.code, S2, T2)
                         /\ Onward(S, T, S2, T2) /\ T2[Len(new.code)] = t
  BY <1>1, FlowPlain
<1> QED
  BY <1>1 DEF Leads, Flows

\* An instruction without an operand.
LEMMA InstrLeads ==
  ASSUME NEW n, NEW e, NEW gen, IsGen(n, gen), NEW op \in Range(OpNames),
         op \notin ShortOps, op \notin ByteOps,
         NEW s, NEW t \in FrameTypes, Rule(e, gen.constants, op, 0, s, t)
  PROVE  Leads(n, e, gen, WriteInstr(gen, op), s, t)
<1> DEFINE new == WriteInstr(gen, op)
<1>1. Adds(gen.code, new.code, op) /\ LaysOut(n, gen, new)
  BY InstrAdds
<1>2. new.constants = gen.constants /\ SameRecords(gen, new)
  BY DEF SameRecords, IsGen, GenFields, WriteInstr, WriteByte
<1>3. ArgOf(new.code, Len(gen.code)) = 0
  BY <1>1, OpRead DEF Adds, ArgOf
<1>4. Longer(gen.constants, new.constants)
  BY <1>2 DEF Longer
<1> HIDE DEF new
<1> QED
  BY <1>1, <1>2, <1>3, <1>4, WrittenLeads DEF new

\* One with an operand of one byte.
LEMMA ByteOpLeads ==
  ASSUME NEW n, NEW e, NEW gen, IsGen(n, gen), NEW op \in Range(OpNames), op \in ByteOps,
         NEW byte \in Byte, NEW s, NEW t \in FrameTypes, Rule(e, gen.constants, op, byte, s, t)
  PROVE  Leads(n, e, gen, WriteByte(WriteInstr(gen, op), byte), s, t)
<1> DEFINE new == WriteByte(WriteInstr(gen, op), byte)
<1>1. Adds(gen.code, new.code, op) /\ LaysOut(n, gen, new) /\ new.code[Len(gen.code) + 2] = byte
  BY ByteOpAdds
<1>2. new.constants = gen.constants /\ SameRecords(gen, new)
  BY DEF SameRecords, IsGen, GenFields, WriteInstr, WriteByte
<1> HIDE DEF new
<1>3. ArgOf(new.code, Len(gen.code)) = byte
  BY <1>1, OpRead DEF Adds, ArgOf
<1>4. Longer(gen.constants, new.constants) /\ op \notin ShortOps
  BY <1>2 DEF Longer, ByteOps, ShortOps
<1> QED
  BY <1>1, <1>2, <1>3, <1>4, WrittenLeads DEF new

\* An index below the width is written as it is.
LEMMA IndexFits ==
  ASSUME NEW index \in Nat, NEW width \in 1..256, index < width
  PROVE  index % width = index /\ index \in 0..255
<1>1. index \in 0..255
  OBVIOUS
<1>2. index = width * 0 + index /\ 0 <= index /\ index < width
  OBVIOUS
<1>3. index % width = index
  BY <1>2
<1> QED
  BY <1>1, <1>3

\* One with an index that fits a byte.
LEMMA IndexLeads ==
  ASSUME NEW n, NEW e, NEW gen, IsGen(n, gen), NEW op \in Range(OpNames), op \in ByteOps,
         NEW index \in Nat, index < IndexWidth,
         NEW s, NEW t \in FrameTypes, Rule(e, gen.constants, op, index, s, t)
  PROVE  Leads(n, e, gen, WriteIndexed(gen, op, index), s, t)
<1>1. index % IndexWidth = index /\ index \in Byte
  <2>1. PICK width \in 1..256 : width = IndexWidth
    BY EmitAssumption
  <2> QED
    BY <2>1, IndexFits DEF Byte
<1>2. WriteIndexed(gen, op, index) = WriteByte(WriteInstr(gen, op), index)
  BY <1>1 DEF WriteIndexed
<1> QED
  BY <1>1, <1>2, ByteOpLeads

\* A literal pushes its type.
LEMMA ConstantLeads ==
  ASSUME NEW n, NEW e, NEW gen, IsGen(n, gen), NEW value \in Constant(n), value.t # "Bool",
         NEW s \in FrameTypes
  PROVE  Leads(n, e, gen, NewConstant(gen, value), s, Append(s, TypeOfValue(value)))
<1> DEFINE x == TypeOfValue(value)
           t == Append(s, x)
<1>1. x \in StaticType /\ x.t = value.t /\ (value.t \in {"None", "Int"} => x = Of(value.t))
  <2>1. value.t \in Types /\ value.t # "NativeFunc" /\ (value.t = "Function" => value.v \in Nat)
    BY DEF Constant, Value
  <2> QED
    BY <2>1 DEF TypeOfValue, StaticType, Of
<1>2. t \in FrameTypes
  BY <1>1, AppendProperties DEF FrameTypes
<1> HIDE DEF x
<1>3. ASSUME NEW op, NEW cs, NEW arg, Pushes(e, cs, op, arg, s, x) PROVE Rule(e, cs, op, arg, s, t)
  BY <1>1, <1>3 DEF Rule
<1> HIDE DEF t
<1>4. CASE value.t = "None"
  <2>1. "None" \in Range(OpNames) /\ "None" \notin ShortOps /\ "None" \notin ByteOps
    BY Written DEF ShortOps, ByteOps
  <2>2. NewConstant(gen, value) = WriteInstr(gen, "None")
    BY <1>4 DEF NewConstant
  <2>3. Pushes(e, gen.constants, "None", 0, s, x)
    BY <1>1, <1>4 DEF Pushes
  <2> QED
    BY <1>2, <1>3, <2>1, <2>2, <2>3, InstrLeads DEF t, x
<1>5. CASE value.t = "Int" /\ value.v \in -128..127
  <2>1. "LoadByte" \in Range(OpNames) /\ "LoadByte" \in ByteOps /\ value.v % 256 \in Byte
    BY <1>5, Written DEF ByteOps, Byte
  <2>2. NewConstant(gen, value) = WriteByte(WriteInstr(gen, "LoadByte"), value.v % 256)
    BY <1>5 DEF NewConstant
  <2>3. Pushes(e, gen.constants, "LoadByte", value.v % 256, s, x)
    BY <1>1, <1>5 DEF Pushes
  <2> QED
    BY <1>2, <1>3, <2>1, <2>2, <2>3, ByteOpLeads DEF t, x
<1>6. CASE value.t # "None" /\ ~(value.t = "Int" /\ value.v \in -128..127)
  <2>1. CASE Len(gen.constants) > MaxConstant
    <3>1. NewConstant(gen, value) = [gen EXCEPT !.panicked = TRUE]
      BY <1>6, <2>1 DEF NewConstant
    <3> QED
      BY <3>1, PanicLeads DEF t, x
  <2>2. CASE ~(Len(gen.constants) > MaxConstant)
    <3> DEFINE count == Len(gen.constants)
               written == WriteByte(WriteInstr(gen, "Constant"), count)
               new == NewConstant(gen, value)
    <3>1. count \in Byte /\ count \in Nat /\ DOMAIN gen.constants = 1..count
      BY <2>2, LenProperties, SmallIsByte DEF IsGen
    <3>2. "Constant" \in Range(OpNames) /\ "Constant" \in ByteOps
      BY Written DEF ByteOps
    <3>3. Adds(gen.code, written.code, "Constant") /\ written.code[Len(gen.code) + 2] = count
      BY <3>1, <3>2, ByteOpAdds
    <3>4. new = [written EXCEPT !.constants = Append(@, value)]
      BY <1>6, <2>2 DEF NewConstant
    <3>5. /\ new.code = written.code /\ new.constants = Append(gen.constants, value)
          /\ SameRecords(gen, new)
      BY <3>4 DEF IsGen, GenFields, WriteByte, WriteInstr, SameRecords
    <3>6. /\ Longer(gen.constants, new.constants)
          /\ count + 1 \in DOMAIN new.constants /\ new.constants[count + 1] = value
      <4>1. gen.constants \in Seq(Constant(n))
        BY DEF IsGen
      <4> HIDE DEF new, count
      <4>2. /\ \A q \in 1..count : new.constants[q] = gen.constants[q]
            /\ new.constants[count + 1] = value /\ DOMAIN new.constants = 1..(count + 1)
        BY <3>1, <3>5, <4>1, AppendProperties DEF count
      <4> QED
        BY <3>1, <4>2 DEF Longer
    <3>7. LaysOut(n, gen, new)
      BY ConstantLays
    <3> HIDE DEF new, written, count
    <3>8. ArgOf(new.code, Len(gen.code)) = count
      BY <3>2, <3>3, <3>5, OpRead DEF Adds, ArgOf
    <3>9. Pushes(e, new.constants, "Constant", count, s, x)
      BY <3>6 DEF Pushes, x
    <3>10. Rule(e, new.constants, "Constant", ArgOf(new.code, Len(gen.code)), s, t)
      BY <1>3, <3>8, <3>9
    <3>11. "Constant" \notin ShortOps /\ Adds(gen.code, new.code, "Constant")
      BY <3>3, <3>5 DEF ShortOps
    <3>12. Leads(n, e, gen, new, s, t)
      BY <1>2, <3>5, <3>6, <3>7, <3>10, <3>11, WrittenLeads
    <3> QED
      BY <3>12 DEF new, t, x
  <2> QED
    BY <2>1, <2>2
<1> QED
  BY <1>4, <1>5, <1>6

\* Frames and their topmost values.
LEMMA FrameAppended ==
  ASSUME NEW s \in FrameTypes, NEW x \in StaticType
  PROVE  /\ Append(s, x) \in FrameTypes /\ Len(s) \in Nat /\ Len(Append(s, x)) = Len(s) + 1
         /\ DOMAIN s = 1..Len(s) /\ DOMAIN Append(s, x) = 1..(Len(s) + 1)
         /\ \A q \in 1..Len(s) : Append(s, x)[q] = s[q]
         /\ Append(s, x)[Len(s) + 1] = x
BY AppendProperties, LenProperties DEF FrameTypes

\* A type of the language is the static type of its values.
LEMMA OfIsType == ASSUME NEW t \in Types PROVE Of(t) \in StaticType
BY DEF Of, StaticType

\* The instruction of a conversion does what its name says.
LEMMA CastConverts ==
  ASSUME NEW old \in Types, NEW new \in Types, old # new, CastInstr(old, new) # ""
  PROVE  Converts(CastInstr(old, new), Of(old), Of(new))
<1> DEFINE op == CastInstr(old, new)
<1>1. CASE old = "Any" /\ new \in {"Int", "Float", "Bool", "Char", "String"}
  <2>1. \E u \in DOMAIN Unwraps : Unwraps[u] = new
    BY <1>1 DEF Unwraps
  <2>2. op \in DOMAIN Unwraps /\ Unwraps[op] = new
    BY <1>1, <2>1 DEF CastInstr
  <2> HIDE DEF op
  <2>3. Of(old).t = "Any"
    BY <1>1 DEF Of
  <2>4. Converts(op, Of(old), Of(new))
    BY <2>2, <2>3 DEF Converts
  <2> QED
    BY <2>4 DEF op
<1>2. CASE old = "Any" /\ new \notin {"Int", "Float", "Bool", "Char", "String"}
  BY <1>2 DEF CastInstr
<1>3. CASE old # "Any"
  BY <1>3 DEF CastInstr, Converts, Unwritten, Of
<1> QED
  BY <1>1, <1>2, <1>3

\* A conversion changes the topmost type.
LEMMA CoerceLeads ==
  ASSUME NEW n, NEW e, NEW gen, IsGen(n, gen), NEW old \in Types, NEW expected \in Types,
         NEW u \in FrameTypes
  PROVE  Leads(n, e, gen, Coerce(gen, old, expected), Append(u, Of(old)), Append(u, Of(expected)))
<1> DEFINE op == CastInstr(old, expected)
           s == Append(u, Of(old))
           t == Append(u, Of(expected))
<1>1. s \in FrameTypes /\ t \in FrameTypes /\ Of(old) \in StaticType /\ Of(expected) \in StaticType
  BY OfIsType, FrameAppended
<1>2. CASE old = expected
  <2>1. Writes(n, gen, gen)
    BY DEF Writes, SameBooks
  <2>2. Leads(n, e, gen, gen, s, s)
    BY <2>1, NothingLeads DEF SameRecords
  <2> QED
    BY <1>2, <2>2 DEF Coerce
<1>3. CASE old # expected /\ op = ""
  BY <1>3, PanicLeads DEF Coerce
<1>4. CASE old # expected /\ op # ""
  <2>1. op \in Range(OpNames)
    BY <1>4, CastIsInstr
  <2>2. Converts(op, Of(old), Of(expected))
    BY <1>4, CastConverts
  <2>3. Coerce(gen, old, expected) = WriteInstr(gen, op)
    BY <1>4 DEF Coerce
  <2> HIDE DEF op
  <2>4. op \notin ShortOps /\ op \notin ByteOps
    BY <2>2 DEF Converts, Unwraps, Unwritten, ShortOps, ByteOps
  <2>5. Rule(e, gen.constants, op, 0, s, t)
    BY <1>1, <2>2 DEF Rule
  <2> HIDE DEF s, t
  <2>6. Leads(n, e, gen, WriteInstr(gen, op), s, t)
    BY <1>1, <2>1, <2>4, <2>5, InstrLeads
  <2> QED
    BY <2>3, <2>6 DEF s, t
<1> QED
  BY <1>2, <1>3, <1>4

(***************************************************************************)
(* Variables.                                                              *)
(***************************************************************************)
\* A binding names a slot that has the type of its declaration.
SlotsOf(e, s, b) == IF b.space = "Stack" THEN s ELSE GlobalSlots(e, s)
Bound(e, s, b) ==
    /\ b.slot \in Nat /\ b.slot < IndexWidth
    /\ b.slot + 1 \in DOMAIN SlotsOf(e, s, b)
    /\ SlotsOf(e, s, b)[b.slot + 1] = b.data.type

\* It still does when there is more in the frame.
LEMMA BoundAbove ==
  ASSUME NEW e, NEW s \in FrameTypes, NEW x \in StaticType, NEW b, Bound(e, s, b)
  PROVE  Bound(e, Append(s, x), b)
BY FrameAppended DEF Bound, SlotsOf, GlobalSlots

\* A load pushes the type of the declaration.
LEMMA LoadLeads ==
  ASSUME NEW n, NEW e, NEW gen, IsGen(n, gen), NEW s \in FrameTypes, NEW b, Bound(e, s, b),
         b.data.type \in StaticType
  PROVE  Leads(n, e, gen, CodeLoad(gen, b), s, Append(s, b.data.type))
<1> DEFINE op == IF b.space = "Stack" THEN "GetLocal" ELSE "GetGlobal"
           t == Append(s, b.data.type)
<1>1. op \in Range(OpNames) /\ op \in ByteOps
  BY Written DEF ByteOps
<1>2. Pushes(e, gen.constants, op, b.slot, s, b.data.type)
  BY DEF Bound, SlotsOf, Pushes
<1>3. Rule(e, gen.constants, op, b.slot, s, t)
  BY <1>2 DEF Rule
<1>4. t \in FrameTypes /\ b.slot \in Nat /\ b.slot < IndexWidth
  BY FrameAppended DEF Bound
<1>5. CodeLoad(gen, b) = WriteIndexed(gen, op, b.slot)
  BY DEF CodeLoad
<1> HIDE DEF op, t
<1>6. Leads(n, e, gen, WriteIndexed(gen, op, b.slot), s, t)
  BY <1>1, <1>3, <1>4, IndexLeads
<1> QED
  BY <1>5, <1>6 DEF t

\* A store leaves the frame as it is.
LEMMA StoreLeads ==
  ASSUME NEW n, NEW e, NEW gen, IsGen(n, gen), NEW s \in FrameTypes, NEW b, Bound(e, s, b),
         b.data.type \in StaticType
  PROVE  Leads(n, e, gen, CodeStore(gen, b), Append(s, b.data.type), Append(s, b.data.type))
<1> DEFINE op == IF b.space = "Stack" THEN "SetLocal" ELSE "SetGlobal"
           t == Append(s, b.data.type)
<1>1. op \in Range(OpNames) /\ op \in ByteOps
  BY Written DEF ByteOps
<1>2. Bound(e, t, b)
  BY BoundAbove
<1>3. Stores(e, op, b.slot, t, b.data.type)
  BY <1>2 DEF Bound, SlotsOf, Stores
<1>4. Rule(e, gen.constants, op, b.slot, t, t)
  BY <1>3 DEF Rule
<1>5. t \in FrameTypes /\ b.slot \in Nat /\ b.slot < IndexWidth
  BY FrameAppended DEF Bound
<1>6. CodeStore(gen, b) = WriteIndexed(gen, op, b.slot)
  BY DEF CodeStore
<1> HIDE DEF op, t
<1>7. Leads(n, e, gen, WriteIndexed(gen, op, b.slot), t, t)
  BY <1>1, <1>4, <1>5, IndexLeads
<1> QED
  BY <1>6, <1>7 DEF t

\* An integer literal.
LEMMA LiteralLeads ==
  ASSUME NEW n, NEW e, NEW gen, IsGen(n, gen), NEW s \in FrameTypes, NEW tag \in Int
  PROVE  Leads(n, e, gen, CodeLiteral(gen, tag), s, Append(s, Of("Int")))
<1> DEFINE value == [t |-> "Int", within |-> "None", v |-> tag]
<1>1. value \in Constant(n) /\ value.t # "Bool" /\ TypeOfValue(value) = Of("Int")
  BY IntIsConstant DEF TypeOfValue, Of
<1>2. CodeLiteral(gen, tag) = NewConstant(gen, value)
  BY DEF CodeLiteral
<1> HIDE DEF value
<1> QED
  BY <1>1, <1>2, ConstantLeads

\* The value of an expression is dropped, and that of a condition is a bool.
LEMMA ExpressionsLead ==
  ASSUME NEW n, NEW e, NEW gen, IsGen(n, gen), NEW s \in FrameTypes, NEW x \in StaticType
  PROVE  /\ Leads(n, e, gen, ExpressionStmt(gen), Append(s, x), s)
         /\ Leads(n, e, gen, Condition(gen), s, Append(s, Of("Bool")))
         /\ Leads(n, e, gen, WriteInstr(gen, "None"), s, Append(s, Of("None")))
         /\ Leads(n, e, gen, WriteInstr(gen, "WrapAny"), Append(s, x), Append(s, Of("Any")))
         /\ Leads(n, e, gen, WriteInstr(gen, "TESTYield"), Append(s, x), Append(s, Of("None")))
         /\ e.main \/ x = Of(e.ret) => Leads(n, e, gen, WriteInstr(gen, "Return"), Append(s, x), s)
<1>1. \A op \in {"Pop", "TESTTakeInput", "None", "WrapAny", "TESTYield", "Return"} :
         op \in Range(OpNames) /\ op \notin ShortOps /\ op \notin ByteOps
  BY Written DEF ShortOps, ByteOps
<1>2. Of("Bool") \in StaticType /\ Of("None") \in StaticType /\ Of("Any") \in StaticType
  BY OfIsType DEF Types
<1>3. /\ Append(s, x) \in FrameTypes /\ Append(s, Of("Bool")) \in FrameTypes
      /\ Append(s, Of("None")) \in FrameTypes /\ Append(s, Of("Any")) \in FrameTypes
  BY <1>2, FrameAppended
<1>4. Rule(e, gen.constants, "Pop", 0, Append(s, x), s)
  BY DEF Rule, Drops
<1>5. Rule(e, gen.constants, "TESTTakeInput", 0, s, Append(s, Of("Bool")))
  BY <1>2 DEF Rule, Pushes
<1>6. Rule(e, gen.constants, "None", 0, s, Append(s, Of("None")))
  BY <1>2 DEF Rule, Pushes
<1>7. Rule(e, gen.constants, "WrapAny", 0, Append(s, x), Append(s, Of("Any")))
  BY <1>2 DEF Rule, Converts
<1>8. Rule(e, gen.constants, "TESTYield", 0, Append(s, x), Append(s, Of("None")))
  BY <1>2 DEF Rule, Converts
<1>9. e.main \/ x = Of(e.ret) => Rule(e, gen.constants, "Return", 0, Append(s, x), s)
  BY DEF Rule, Drops
<1>10. Leads(n, e, gen, ExpressionStmt(gen), Append(s, x), s)
  BY <1>1, <1>3, <1>4, InstrLeads DEF ExpressionStmt
<1>11. Leads(n, e, gen, Condition(gen), s, Append(s, Of("Bool")))
  BY <1>1, <1>3, <1>5, InstrLeads DEF Condition
<1>12. Leads(n, e, gen, WriteInstr(gen, "None"), s, Append(s, Of("None")))
  BY <1>1, <1>3, <1>6, InstrLeads
<1>13. Leads(n, e, gen, WriteInstr(gen, "WrapAny"), Append(s, x), Append(s, Of("Any")))
  BY <1>1, <1>3, <1>7, InstrLeads
<1>14. Leads(n, e, gen, WriteInstr(gen, "TESTYield"), Append(s, x), Append(s, Of("None")))
  BY <1>1, <1>3, <1>8, InstrLeads
<1>15. e.main \/ x = Of(e.ret) => Leads(n, e, gen, WriteInstr(gen, "Return"), Append(s, x), s)
  BY <1>1, <1>3, <1>9, InstrLeads
<1> QED
  BY <1>10, <1>11, <1>12, <1>13, <1>14, <1>15

(***************************************************************************)
(* Calls.                                                                  *)
(***************************************************************************)
\* What is known of a declaration: of a callable, its signature.
DataOK(sigs, d) ==
    /\ d.type \in StaticType /\ d.params \in Seq(Types) /\ d.ret_type \in Types
    /\ d.type.t = "Function" =>
         /\ d.type.f \in DOMAIN sigs
         /\ sigs[d.type.f].params = d.params /\ sigs[d.type.f].ret_type = d.ret_type
    /\ d.type.t = "NativeFunc" =>
         /\ d.type.f \in DOMAIN Natives
         /\ Natives[d.type.f].builds \/ Natives[d.type.f].takes = d.params
         /\ Natives[d.type.f].gives = d.ret_type
    /\ d.type.t \notin {"Function", "NativeFunc"} => d.type = Of(d.type.t)

\* The globals that a function was compiled with are there when the main script calls it.
Ready(e, s, d) ==
    e.main /\ d.type.t = "Function" =>
        \A g \in 1..e.sigs[d.type.f].reach : g <= Len(s) /\ s[g] = e.globals[g]

\* What a callee needs below stays there under one more value.
LEMMA ReadyAbove ==
  ASSUME NEW e, NEW s \in FrameTypes, NEW x \in StaticType, NEW d, Ready(e, s, d),
         d.type.t = "Function" => e.sigs[d.type.f].reach \in Nat
  PROVE  Ready(e, Append(s, x), d)
<1>1. /\ Len(Append(s, x)) = Len(s) + 1 /\ Len(s) \in Nat
      /\ \A q \in 1..Len(s) : Append(s, x)[q] = s[q]
  BY FrameAppended
<1> SUFFICES ASSUME e.main, d.type.t = "Function", NEW g \in 1..e.sigs[d.type.f].reach
             PROVE  g <= Len(Append(s, x)) /\ Append(s, x)[g] = e.globals[g]
  BY DEF Ready
<1>2. g <= Len(s) /\ s[g] = e.globals[g] /\ g \in 1..Len(s)
  BY <1>1 DEF Ready
<1> QED
  BY <1>1, <1>2

\* The callee, unless its slot is one that does not count the globals.
LEMMA CalleeLeads ==
  ASSUME NEW n, NEW e, NEW gen, IsGen(n, gen), NEW s \in FrameTypes, NEW b, IsBinding(b),
         ~Misplaced(b) => Bound(e, s, b), b.data.type \in StaticType
  PROVE  Leads(n, e, gen, LoadCallee(gen, b), s, Append(s, b.data.type))
<1> DEFINE marked == [gen EXCEPT !.misplaced = @ \/ Misplaced(b)]
<1>1. Writes(n, gen, marked) /\ IsGen(n, marked)
  BY RecordsWrite DEF Writes
<1>2. /\ marked.code = gen.code /\ marked.constants = gen.constants /\ marked.exits = gen.exits
      /\ marked.panicked = gen.panicked /\ SameRecords(gen, marked)
      /\ marked.misplaced = (gen.misplaced \/ Misplaced(b))
  BY DEF IsGen, GenFields, SameRecords
<1>3. LoadCallee(gen, b) = CodeLoad(marked, b)
  BY DEF LoadCallee
<1> HIDE DEF marked
<1>4. Leads(n, e, gen, marked, s, s)
  BY <1>1, <1>2, NothingLeads
<1>5. CASE Bound(e, s, b)
  BY <1>1, <1>3, <1>4, <1>5, LoadLeads, LeadsTwice
<1>6. CASE ~Bound(e, s, b)
  <2> DEFINE loaded == CodeLoad(marked, b)
  <2>1. marked.misplaced
    BY <1>2, <1>6
  <2>2. LaysOut(n, gen, loaded)
    BY <1>3, CalleeLays
  <2>3. SameRecords(gen, loaded) /\ loaded.misplaced
    BY <1>1, <1>2, <2>1
       DEF IsGen, GenFields, SameRecords, CodeLoad, WriteIndexed, WriteByte, WriteInstr
  <2> HIDE DEF loaded
  <2>4. Leads(n, e, gen, loaded, s, Append(s, b.data.type))
    BY <2>2, <2>3 DEF Leads
  <2> QED
    BY <1>3, <2>4 DEF loaded
<1> QED
  BY <1>5, <1>6

\* An argument has the type of its parameter.
LEMMA ArgumentLeads ==
  ASSUME NEW n, NEW e, NEW gen, IsGen(n, gen), NEW s \in FrameTypes, NEW b, IsBinding(b),
         NEW i \in Int, b.data.params[i] \in Types
  PROVE  Leads(n, e, gen, Argument(gen, b, i), s, Append(s, Of(b.data.params[i])))
<1> DEFINE literal == CodeLiteral(gen, Literal(b, i))
<1>1. Literal(b, i) \in Int
  BY DEF Literal, ParamTag, IsBinding, IsDeclaration
<1>2. Leads(n, e, gen, literal, s, Append(s, Of("Int")))
  BY <1>1, LiteralLeads
<1> HIDE DEF literal
<1>3. IsGen(n, literal) /\ "Int" \in Types
  BY <1>2 DEF Leads, LaysOut, Writes, Types
<1>4. Leads(n, e, literal, Coerce(literal, "Int", b.data.params[i]),
            Append(s, Of("Int")), Append(s, Of(b.data.params[i])))
  BY <1>3, CoerceLeads
<1> QED
  BY <1>2, <1>4, LeadsTwice DEF Argument, literal

\* The types of the arguments of a call.
ArgTypes(params) == [i \in DOMAIN params |-> Of(params[i])]

\* The arguments of a call are values of its parameters' types.
LEMMA ArgTypesFacts ==
  ASSUME NEW params \in Seq(Types)
  PROVE  /\ ArgTypes(params) \in FrameTypes /\ Len(ArgTypes(params)) = Len(params)
         /\ Len(params) \in Nat /\ DOMAIN params = 1..Len(params)
         /\ Variants(ArgTypes(params)) = params
         /\ \A i \in 1..Len(params) : ArgTypes(params)[i] = Of(params[i]) /\ params[i] \in Types
<1>1. Len(params) \in Nat /\ DOMAIN params = 1..Len(params) /\ \A i \in 1..Len(params) : params[i] \in Types
  BY LenProperties, ElementOfSeq
<1>2. ArgTypes(params) \in [1..Len(params) -> StaticType]
  BY <1>1, OfIsType DEF ArgTypes
<1>3. ArgTypes(params) \in Seq(StaticType)
  BY <1>1, <1>2, SeqDef
<1>4. Len(ArgTypes(params)) = Len(params)
  BY <1>1, <1>2, <1>3, LenProperties
<1>5. params = [i \in 1..Len(params) |-> params[i]]
  BY <1>1, SeqDef
<1>6. Variants(ArgTypes(params)) = params
  BY <1>1, <1>2, <1>5 DEF Variants, ArgTypes, Of
<1> QED
  BY <1>1, <1>3, <1>4, <1>6 DEF FrameTypes, ArgTypes

\* A frame with no, one and two arguments on top.
LEMMA FramesWithArguments ==
  ASSUME NEW s \in FrameTypes, NEW params \in Seq(Types), Len(params) <= 2
  PROVE  /\ Len(params) = 0 => s \o ArgTypes(params) = s
         /\ Len(params) = 1 => s \o ArgTypes(params) = Append(s, Of(params[1]))
         /\ Len(params) = 2 => s \o ArgTypes(params) = Append(Append(s, Of(params[1])), Of(params[2]))
         /\ s \o ArgTypes(params) \in FrameTypes
<1> DEFINE args == ArgTypes(params)
           joined == s \o args
<1>1. /\ args \in FrameTypes /\ Len(args) = Len(params) /\ Len(params) \in Nat
      /\ \A i \in 1..Len(params) : args[i] = Of(params[i]) /\ Of(params[i]) \in StaticType
  BY ArgTypesFacts, OfIsType
<1>2. s \in Seq(StaticType) /\ args \in Seq(StaticType) /\ Len(s) \in Nat
  BY <1>1, LenProperties DEF FrameTypes
<1> HIDE DEF args
<1>3. /\ joined \in FrameTypes /\ Len(joined) = Len(s) + Len(params)
      /\ \A q \in 1..Len(s) : joined[q] = s[q]
      /\ \A i \in 1..Len(params) : joined[Len(s) + i] = Of(params[i])
  <2>1. joined \in Seq(StaticType) /\ Len(joined) = Len(s) + Len(args)
    BY <1>2, ConcatProperties
  <2>2. /\ \A q \in 1..Len(s) : joined[q] = s[q]
        /\ \A i \in 1..Len(args) : joined[Len(s) + i] = args[i]
    <3>1. IsSequence(s) /\ IsSequence(args)
      BY <1>2, SeqIsSequence
    <3> QED
      BY <3>1, Joined
  <2> QED
    BY <1>1, <2>1, <2>2 DEF FrameTypes
<1> HIDE DEF joined
<1>4. CASE Len(params) = 0
  <2>1. joined = s
    BY <1>2, <1>3, <1>4, SameFrame
  <2> QED
    BY <1>3, <1>4, <2>1 DEF joined, args
<1>5. CASE Len(params) = 1
  <2>1. 1 \in 1..Len(params)
    BY <1>5
  <2>2. /\ Append(s, Of(params[1])) \in FrameTypes /\ Len(Append(s, Of(params[1]))) = Len(s) + 1
        /\ \A q \in 1..Len(s) : Append(s, Of(params[1]))[q] = s[q]
        /\ Append(s, Of(params[1]))[Len(s) + 1] = Of(params[1])
    BY <1>1, <2>1, FrameAppended
  <2>3. joined = Append(s, Of(params[1]))
    <3>1. \A q \in 1..Len(joined) : joined[q] = Append(s, Of(params[1]))[q]
      BY <1>2, <1>3, <1>5, <2>1, <2>2
    <3> QED
      BY <1>3, <1>5, <2>2, <3>1, SameFrame
  <2> QED
    BY <1>3, <1>5, <2>3 DEF joined, args
<1>6. CASE Len(params) = 2
  <2> DEFINE a == Append(s, Of(params[1]))
             b == Append(a, Of(params[2]))
  <2>1. 1 \in 1..Len(params) /\ 2 \in 1..Len(params)
    BY <1>6
  <2>2. /\ a \in FrameTypes /\ Len(a) = Len(s) + 1
        /\ \A q \in 1..Len(s) : a[q] = s[q]
        /\ a[Len(s) + 1] = Of(params[1])
    BY <1>1, <2>1, FrameAppended
  <2> HIDE DEF a
  <2>3. /\ b \in FrameTypes /\ Len(b) = Len(a) + 1
        /\ \A q \in 1..Len(a) : b[q] = a[q]
        /\ b[Len(a) + 1] = Of(params[2])
    BY <1>1, <2>1, <2>2, FrameAppended
  <2> HIDE DEF b
  <2>4. Len(b) = Len(s) + 2 /\ b[Len(s) + 1] = Of(params[1]) /\ b[Len(s) + 2] = Of(params[2])
        /\ \A q \in 1..Len(s) : b[q] = s[q]
    BY <1>2, <2>2, <2>3
  <2>5. \A q \in 1..Len(joined) : joined[q] = b[q]
    <3>1. joined[Len(s) + 1] = Of(params[1]) /\ joined[Len(s) + 2] = Of(params[2])
      BY <1>3, <2>1
    <3>2. \A q \in 1..(Len(s) + 2) : q \in 1..Len(s) \/ q = Len(s) + 1 \/ q = Len(s) + 2
      BY <1>2
    <3> QED
      BY <1>2, <1>3, <1>6, <2>4, <3>1, <3>2
  <2>6. joined = b
    BY <1>2, <1>3, <1>6, <2>3, <2>4, <2>5, SameFrame
  <2> QED
    BY <1>3, <1>6, <2>6 DEF joined, args, a, b
<1> QED
  BY <1>1, <1>4, <1>5, <1>6

CallOp(d) == IF d.type.t = "NativeFunc" THEN "CallNative" ELSE "CallUser"

\* The call itself takes the callee and its arguments, and leaves what it returns.
LEMMA CallOpLeads ==
  ASSUME NEW n, NEW e, NEW gen, IsGen(n, gen), NEW u \in FrameTypes, NEW d, DataOK(e.sigs, d),
         d.type.t \in {"Function", "NativeFunc"}, Ready(e, u, d), Len(d.params) < IndexWidth
  PROVE  Leads(n, e, gen, WriteIndexed(gen, CallOp(d), Len(d.params)),
               Append(u, d.type) \o ArgTypes(d.params), Append(u, Of(d.ret_type)))
<1> DEFINE x == d.type
           y == Of(d.ret_type)
           args == ArgTypes(d.params)
           count == Len(d.params)
           s == Append(u, x) \o args
           t == Append(u, y)
<1>1. x \in StaticType /\ y \in StaticType /\ t \in FrameTypes
  BY OfIsType, FrameAppended DEF DataOK
<1>2. args \in FrameTypes /\ Len(args) = count /\ count \in Nat /\ Variants(args) = d.params
  BY ArgTypesFacts DEF DataOK
<1>3. Answers(e, CallOp(d), u, x, args, y)
  <2> HIDE DEF args
  <2>1. CASE d.type.t = "Function"
    BY <1>2, <2>1 DEF CallOp, Answers, DataOK, Ready
  <2>2. CASE d.type.t = "NativeFunc"
    BY <1>2, <2>2 DEF CallOp, Answers, DataOK
  <2> QED
    BY <2>1, <2>2
<1>4. CallOp(d) \in Range(OpNames) /\ CallOp(d) \in ByteOps
  BY Written DEF ByteOps, CallOp
<1> HIDE DEF x, y, args, count
<1>5. Rule(e, gen.constants, CallOp(d), count, s, t)
  BY <1>1, <1>2, <1>3 DEF Rule
<1> HIDE DEF s, t
<1>6. Leads(n, e, gen, WriteIndexed(gen, CallOp(d), count), s, t)
  BY <1>1, <1>2, <1>4, <1>5, IndexLeads DEF count
<1> QED
  BY <1>6 DEF s, t, x, y, args, count

\* A call by its declaration, with the literals for its arguments.
Callable(e, s, b) ==
    /\ IsBinding(b) /\ DataOK(e.sigs, b.data)
    /\ b.data.type.t \in {"Function", "NativeFunc"} /\ Len(b.data.params) <= 2
    /\ ~Misplaced(b) => Bound(e, s, b)
    /\ Ready(e, s, b.data)

\* A call with constants for its arguments leaves its result on the frame.
LEMMA CallLeads ==
  ASSUME NEW n, NEW e, NEW gen, IsGen(n, gen), NEW s \in FrameTypes, NEW b, Callable(e, s, b)
  PROVE  Leads(n, e, gen, CallWith(gen, b), s, Append(s, Of(b.data.ret_type)))
<1> DEFINE params == b.data.params
           count == Len(params)
           x == b.data.type
           p == Append(s, x)
           loaded == LoadCallee(gen, b)
           first == IF count >= 1 THEN Argument(loaded, b, 1) ELSE loaded
           called == IF count >= 2 THEN Argument(first, b, 2) ELSE first
           one == IF count >= 1 THEN Append(p, Of(params[1])) ELSE p
           two == IF count >= 2 THEN Append(one, Of(params[2])) ELSE one
<1>1. /\ params \in Seq(Types) /\ count \in 0..2 /\ x \in StaticType /\ IsBinding(b)
      /\ \A i \in 1..count : params[i] \in Types
  <2>1. params \in Seq(Types) /\ x \in StaticType /\ IsBinding(b) /\ Len(b.data.params) <= 2
    BY DEF Callable, DataOK
  <2>2. Len(params) \in Nat /\ \A i \in 1..Len(params) : params[i] \in Types
    BY <2>1, ArgTypesFacts
  <2>3. count \in 0..2
    <3>1. count \in Nat /\ count <= 2
      BY <2>1, <2>2
    <3> HIDE DEF count
    <3> QED
      BY <3>1
  <2> QED
    BY <2>1, <2>2, <2>3
<1>2. p \in FrameTypes
  BY <1>1, FrameAppended
<1>3. Leads(n, e, gen, loaded, s, p)
  BY <1>1, CalleeLeads DEF Callable
<1>4. IsGen(n, loaded)
  BY <1>3 DEF Leads, LaysOut, Writes
<1> HIDE DEF loaded, p
<1>5. Leads(n, e, loaded, first, p, one) /\ one \in FrameTypes
  <2>1. CASE count >= 1
    <3>1. params[1] \in Types
      BY <1>1, <2>1
    <3>2. Leads(n, e, loaded, Argument(loaded, b, 1), p, Append(p, Of(params[1])))
      <4>1. IsGen(n, loaded) /\ p \in FrameTypes /\ IsBinding(b) /\ 1 \in Int /\ b.data.params[1] \in Types
        BY <1>1, <1>2, <1>4, <3>1
      <4> HIDE DEF params
      <4> QED
        BY <4>1, ArgumentLeads DEF params
    <3> QED
      BY <1>2, <2>1, <3>1, <3>2, OfIsType, FrameAppended
  <2>2. CASE ~(count >= 1)
    <3>1. Writes(n, loaded, loaded)
      BY <1>4 DEF Writes, SameBooks
    <3>2. Leads(n, e, loaded, loaded, p, p)
      BY <1>4, <3>1, NothingLeads DEF SameRecords
    <3> QED
      BY <1>2, <2>2, <3>2
  <2> QED
    BY <2>1, <2>2
<1>6. IsGen(n, first)
  BY <1>5 DEF Leads, LaysOut, Writes
<1>7. two = p \o ArgTypes(params)
  <2>1. count = 0 \/ count = 1 \/ count = 2
    BY <1>1
  <2>2. /\ count = 0 => p \o ArgTypes(params) = p
        /\ count = 1 => p \o ArgTypes(params) = Append(p, Of(params[1]))
        /\ count = 2 => p \o ArgTypes(params) = Append(Append(p, Of(params[1])), Of(params[2]))
    <3>1. params \in Seq(Types) /\ Len(params) <= 2
      BY <1>1
    <3> HIDE DEF params
    <3> QED
      BY <1>2, <3>1, FramesWithArguments
  <2> HIDE DEF params
  <2>3. CASE count = 0
    BY <2>2, <2>3
  <2>4. CASE count = 1
    BY <2>2, <2>4
  <2>5. CASE count = 2
    BY <2>2, <2>5
  <2> QED
    BY <2>1, <2>3, <2>4, <2>5
<1> HIDE DEF first, one
<1>8. Leads(n, e, first, called, one, two)
  <2>1. CASE count >= 2
    <3>1. params[2] \in Types
      BY <1>1, <2>1
    <3>2. Leads(n, e, first, Argument(first, b, 2), one, Append(one, Of(params[2])))
      <4>1. IsGen(n, first) /\ one \in FrameTypes /\ IsBinding(b) /\ 2 \in Int /\ b.data.params[2] \in Types
        BY <1>1, <1>5, <1>6, <3>1
      <4> HIDE DEF params
      <4> QED
        BY <4>1, ArgumentLeads DEF params
    <3> QED
      BY <2>1, <3>2
  <2>2. CASE ~(count >= 2)
    <3>1. Writes(n, first, first)
      BY <1>6 DEF Writes, SameBooks
    <3>2. Leads(n, e, first, first, one, one)
      BY <1>6, <3>1, NothingLeads DEF SameRecords
    <3> QED
      BY <2>2, <3>2
  <2> QED
    BY <2>1, <2>2
<1>9. IsGen(n, called)
  BY <1>8 DEF Leads, LaysOut, Writes
<1> HIDE DEF called, two
<1>10. Leads(n, e, called, WriteIndexed(called, CallOp(b.data), count), two, Append(s, Of(b.data.ret_type)))
  <2>1. count < IndexWidth
    BY <1>1, ArgumentsAssumption, EmitAssumption DEF MaxArgs
  <2> QED
    BY <1>7, <1>9, <2>1, CallOpLeads DEF Callable, p
<1>11. CallWith(gen, b) = WriteIndexed(called, CallOp(b.data), count)
  BY DEF CallWith, called, first, loaded, CallOp
<1>12. Leads(n, e, gen, first, s, one)
  BY <1>3, <1>5, LeadsTwice
<1>13. Leads(n, e, gen, called, s, two)
  BY <1>8, <1>12, LeadsTwice
<1> QED
  BY <1>10, <1>11, <1>13, LeadsTwice
==============================================================================
