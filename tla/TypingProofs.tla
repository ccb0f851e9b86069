----------------------------- MODULE TypingProofs -----------------------------
(***************************************************************************)
(* The types of the values.  In the code that the compiler writes for a    *)
(* sound program, every place has frame types: which types the slots of    *)
(* the frame have when the instruction there runs.  The compiler's own     *)
(* records (declarations, jumps to patch, loops and their breaks) agree    *)
(* with them from statement to statement, so that the finished program     *)
(* passes the verifier, and its run never reads a slot that is not there   *)
(* or a value as one of another type.                                      *)
(***************************************************************************)
EXTENDS CompilerProofs

(***************************************************************************)
(* The types of a function under compilation: base values lie below the    *)
(* first local that it counts, and frame are the types of all values at    *)
(* the end of its code.                                                    *)
(***************************************************************************)
HeightsHold(base, heights, S, T) ==
    \A h \in heights : h[1] \in S /\ Len(T[h[1]]) = base + h[2]

\* A break leaves a frame like the one that its loop begins with.
BreaksTyped(gen, T) ==
    \A b \in gen.break_backlog : T[b.jump + 2] = T[gen.loop_starts[b.loop + 1]]

\* An open statement began with a first part of the frame, to which its jump, and
\* the jumps back of a loop, lead.
VisitsTyped(base, frame, T, visits) ==
    /\ \A j \in DOMAIN visits : base + visits[j].old_count <= Len(frame)
    /\ \A j, k \in DOMAIN visits : j <= k => visits[j].old_count <= visits[k].old_count
    /\ \A j \in DOMAIN visits :
          /\ visits[j].kind # "block" =>
                T[visits[j].jump + 2] = Part(frame, base + visits[j].old_count)
          /\ visits[j].kind = "while" =>
                T[visits[j].start] = Part(frame, base + visits[j].old_count)

TypedAt(e, base, frame, gen, visits, S, T) ==
    /\ Flow(e, gen.constants, gen.code, S, T)
    /\ T[Len(gen.code)] = frame
    /\ base \in Nat /\ Len(frame) = base + gen.stack_size
    /\ HeightsHold(base, gen.heights, S, T)
    /\ BreaksTyped(gen, T)
    /\ VisitsTyped(base, frame, T, visits)

TypedGen(e, base, frame, gen, visits) == \E S, T : TypedAt(e, base, frame, gen, visits, S, T)

(***************************************************************************)
(* The places of a flow are those that the generator keeps.                *)
(***************************************************************************)
PlacesOf(gen, visits, S) ==
    /\ IsRow(gen.code, S) /\ gen.code \in Seq(Byte) /\ Len(gen.code) \in Nat /\ Len(gen.code) \in S
    /\ Len(gen.loop_starts) \in Nat
    /\ \A k \in 1..Len(gen.loop_starts) : gen.loop_starts[k] \in S
    /\ \A b \in gen.break_backlog :
          /\ b.loop \in 0..(Len(gen.loop_starts) - 1) /\ b.loop + 1 \in 1..Len(gen.loop_starts)
          /\ b.jump \in JumpsIn(gen.code, S) /\ b.jump + 2 \in S
    /\ \A j \in DOMAIN visits :
          /\ visits[j].kind # "block" =>
                visits[j].jump \in JumpsIn(gen.code, S) /\ visits[j].jump + 2 \in S
          /\ visits[j].kind = "while" => visits[j].start \in S

\* The compiler's records name places where instructions of this code start.
LEMMA PlacesHere ==
  ASSUME NEW n, NEW gen, IsGen(n, gen), NEW visits \in Seq(OpenVisits), KeepsPlaces(gen, visits),
         NEW S, IsRow(gen.code, S)
  PROVE  PlacesOf(gen, visits, S) /\ Holds(gen, JumpsOpen(visits), S)
<1>1. PICK R : Holds(gen, JumpsOpen(visits), R)
  BY DEF KeepsPlaces
<1>2. gen.code \in Seq(Byte) /\ gen.loop_starts \in Seq(Nat) /\ Len(gen.loop_starts) \in Nat
      /\ Len(gen.code) \in Nat
  BY LenProperties DEF IsGen
<1>3. R = S
  BY <1>1, <1>2, OneRow DEF Holds, IsRow
<1>4. Holds(gen, JumpsOpen(visits), S)
  BY <1>1, <1>3
<1>5. Laid(gen.code, S)
  BY <1>4 DEF Holds, IsRow
<1>6. \A at \in JumpsIn(gen.code, S) : at + 2 \in S
  BY <1>2, <1>5, JumpPlaces
<1>7. \A k \in 1..Len(gen.loop_starts) : gen.loop_starts[k] \in S
  BY <1>4 DEF Holds, StartsHold
<1>8. ASSUME NEW b \in gen.break_backlog
      PROVE  /\ b.loop \in 0..(Len(gen.loop_starts) - 1) /\ b.loop + 1 \in 1..Len(gen.loop_starts)
             /\ b.jump \in JumpsIn(gen.code, S) /\ b.jump + 2 \in S
  <2>1. b.loop \in 0..(Len(gen.loop_starts) - 1) /\ b.jump \in JumpsIn(gen.code, S)
    BY <1>4 DEF Holds, BreaksHold
  <2> QED
    BY <1>2, <1>6, <2>1
<1>9. ASSUME NEW j \in DOMAIN visits
      PROVE  /\ visits[j].kind # "block" =>
                   visits[j].jump \in JumpsIn(gen.code, S) /\ visits[j].jump + 2 \in S
             /\ visits[j].kind = "while" => visits[j].start \in S
  <2>1. visits[j].kind # "block" => visits[j].jump \in JumpsOpen(visits)
    BY DEF JumpsOpen
  <2>2. JumpsOpen(visits) \subseteq JumpsIn(gen.code, S)
    BY <1>4 DEF Holds, BreaksHold
  <2>3. ASSUME visits[j].kind = "while" PROVE visits[j].start \in S
    <3>1. j \in Whiles(visits) /\ StartsMatch(gen.loop_starts, visits)
      BY <2>3 DEF Whiles, KeepsPlaces
    <3> DEFINE c == Cardinality(Inside(visits, j))
    <3>2. c + 1 \in 1..Len(gen.loop_starts) /\ visits[j].start = gen.loop_starts[Len(gen.loop_starts) - c]
      BY <3>1 DEF StartsMatch
    <3>3. c \in Int
      BY <3>1, InsideFinite
    <3> HIDE DEF c
    <3>4. Len(gen.loop_starts) - c \in 1..Len(gen.loop_starts)
      BY <1>2, <3>2, <3>3
    <3> QED
      BY <1>7, <3>2, <3>4
  <2> QED
    BY <1>6, <2>1, <2>2, <2>3
<1>10. Len(gen.code) \in S /\ IsRow(gen.code, S)
  BY <1>5 DEF Laid
<1> QED
  BY <1>2, <1>4, <1>7, <1>8, <1>9, <1>10 DEF PlacesOf

\* The flow goes on, to a frame that has the parts with which the open statements began;
\* the loops and the records are as they were.
Moves(e, base, frame, gen, visits, S, T, new, t, S2, T2) ==
    /\ Flow(e, new.constants, new.code, S2, T2) /\ Onward(S, T, S2, T2)
    /\ new.loop_starts = gen.loop_starts /\ new.break_backlog = gen.break_backlog
    /\ new.heights = gen.heights
    /\ T2[Len(new.code)] = t /\ Len(t) = base + new.stack_size
    /\ \A j \in DOMAIN visits :
          /\ base + visits[j].old_count <= Len(t)
          /\ Part(t, base + visits[j].old_count) = Part(frame, base + visits[j].old_count)

\* The types of a generator stay those of its records when the generator moves on as
\* Moves says.
LEMMA TypedMoved ==
  ASSUME NEW e, NEW base, NEW frame, NEW gen, NEW visits, NEW S, NEW T,
         TypedAt(e, base, frame, gen, visits, S, T), PlacesOf(gen, visits, S),
         NEW new, NEW t, NEW S2, NEW T2, Moves(e, base, frame, gen, visits, S, T, new, t, S2, T2)
  PROVE  TypedAt(e, base, t, new, visits, S2, T2)
<1> USE DEF Moves
<1>1. \A q \in S : q \in S2 /\ T2[q] = T[q]
  BY DEF Onward
<1>2. HeightsHold(base, new.heights, S2, T2)
  BY <1>1 DEF TypedAt, HeightsHold
<1>3. BreaksTyped(new, T2)
  BY <1>1 DEF TypedAt, BreaksTyped, PlacesOf
<1>4. VisitsTyped(base, t, T2, visits)
  BY <1>1 DEF TypedAt, VisitsTyped, PlacesOf
<1> QED
  BY <1>2, <1>3, <1>4 DEF TypedAt

\* A boundary is recorded where the frame has the height that is counted.
LEMMA TypedBoundary ==
  ASSUME NEW n, NEW e, NEW base, NEW frame, NEW gen, IsGen(n, gen), NEW visits, NEW sealed,
         TypedGen(e, base, frame, gen, visits)
  PROVE  /\ TypedGen(e, base, frame, Boundary(Seal(gen, sealed)), visits)
         /\ TypedGen(e, base, frame, Boundary(gen), visits)
<1> SUFFICES ASSUME NEW new, new \in {Boundary(Seal(gen, sealed)), Boundary(gen)}
             PROVE  TypedGen(e, base, frame, new, visits)
  OBVIOUS
<1>1. PICK S, T : TypedAt(e, base, frame, gen, visits, S, T)
  BY DEF TypedGen
<1>2. /\ new.code = gen.code /\ new.constants = gen.constants /\ new.stack_size = gen.stack_size
      /\ new.loop_starts = gen.loop_starts /\ new.break_backlog = gen.break_backlog
      /\ new.heights = gen.heights \cup {<<Len(gen.code), gen.stack_size>>}
  BY DEF IsGen, GenFields, Boundary, Seal, Here
<1>3. Len(gen.code) \in S
  BY <1>1 DEF TypedAt, Flow, IsRow, Laid
<1>4. HeightsHold(base, new.heights, S, T)
  <2> SUFFICES ASSUME NEW h \in new.heights PROVE h[1] \in S /\ Len(T[h[1]]) = base + h[2]
    BY DEF HeightsHold
  <2>1. CASE h \in gen.heights
    BY <1>1, <2>1 DEF TypedAt, HeightsHold
  <2>2. CASE h = <<Len(gen.code), gen.stack_size>>
    <3>1. h[1] = Len(gen.code) /\ h[2] = gen.stack_size
      BY <2>2
    <3> QED
      BY <1>1, <1>3, <3>1 DEF TypedAt
  <2> QED
    BY <1>2, <2>1, <2>2
<1>5. TypedAt(e, base, frame, new, visits, S, T)
  BY <1>1, <1>2, <1>4 DEF TypedAt, BreaksTyped
<1> QED
  BY <1>5 DEF TypedGen

\* Types of frames are frames.
LEMMA FlowFrames ==
  ASSUME NEW e, NEW cs, NEW code, NEW S, NEW T, Flow(e, cs, code, S, T)
  PROVE  IsRow(code, S) /\ Len(code) \in S /\ 0 \in S /\ T[Len(code)] \in FrameTypes
BY DEF Flow, IsRow, Laid

\* The frame of a typed generator is as long as the generator counts.
LEMMA TypedFrame ==
  ASSUME NEW e, NEW base, NEW frame, NEW gen, NEW visits, TypedGen(e, base, frame, gen, visits)
  PROVE  frame \in FrameTypes /\ Len(frame) \in Nat /\ base \in Nat /\ Len(frame) = base + gen.stack_size
<1>1. PICK S, T : TypedAt(e, base, frame, gen, visits, S, T)
  BY DEF TypedGen
<1>2. frame \in FrameTypes
  BY <1>1, FlowFrames DEF TypedAt
<1> QED
  BY <1>1, <1>2, LenProperties DEF TypedAt, FrameTypes

\* A helper that writes and leaves the open statements their parts of the frame.
LEMMA LeadTyped ==
  ASSUME NEW n, NEW e, NEW base, NEW frame, NEW gen, IsGen(n, gen), NEW visits \in Seq(OpenVisits),
         KeepsPlaces(gen, visits), TypedGen(e, base, frame, gen, visits),
         NEW new, NEW t, Leads(n, e, gen, new, frame, t), ~new.panicked, ~new.misplaced,
         NEW more, more.code = new.code, more.constants = new.constants,
         more.loop_starts = new.loop_starts, more.break_backlog = new.break_backlog,
         more.heights = new.heights, Len(t) = base + more.stack_size,
         \A j \in DOMAIN visits :
            /\ base + visits[j].old_count <= Len(t)
            /\ Part(t, base + visits[j].old_count) = Part(frame, base + visits[j].old_count)
  PROVE  TypedGen(e, base, t, more, visits)
<1>1. PICK S, T : TypedAt(e, base, frame, gen, visits, S, T)
  BY DEF TypedGen
<1>2. Flow(e, gen.constants, gen.code, S, T) /\ T[Len(gen.code)] = frame
  BY <1>1 DEF TypedAt
<1>3. Flows(e, gen, new, frame, t)
  BY DEF Leads
<1>4. PICK S2, T2 : /\ Flow(e, new.constants, new.code, S2, T2)
                    /\ Onward(S, T, S2, T2) /\ T2[Len(new.code)] = t
  BY <1>2, <1>3 DEF Flows
<1>5. PlacesOf(gen, visits, S)
  BY <1>2, FlowFrames, PlacesHere
<1>6. /\ more.loop_starts = gen.loop_starts /\ more.break_backlog = gen.break_backlog
      /\ more.heights = gen.heights
  BY DEF Leads, LaysOut, Writes, SameBooks, SameRecords
<1>7. Flow(e, more.constants, more.code, S2, T2) /\ T2[Len(more.code)] = t
  BY <1>4
<1>8. Moves(e, base, frame, gen, visits, S, T, more, t, S2, T2)
  BY <1>4, <1>6, <1>7 DEF Moves
<1>9. TypedAt(e, base, t, more, visits, S2, T2)
  BY <1>1, <1>5, <1>8, TypedMoved
<1> QED
  BY <1>9 DEF TypedGen

\* One that leaves the frame as it was,
LEMMA WriteTyped ==
  ASSUME NEW n, NEW e, NEW base, NEW frame, NEW gen, IsGen(n, gen), NEW visits \in Seq(OpenVisits),
         KeepsPlaces(gen, visits), TypedGen(e, base, frame, gen, visits),
         NEW new, Leads(n, e, gen, new, frame, frame), ~new.panicked, ~new.misplaced
  PROVE  TypedGen(e, base, frame, new, visits)
<1>1. Len(frame) = base + new.stack_size
  BY TypedFrame DEF Leads, LaysOut, Writes, SameBooks
<1>2. \A j \in DOMAIN visits : base + visits[j].old_count <= Len(frame)
  BY DEF TypedGen, TypedAt, VisitsTyped
<1> QED
  BY <1>1, <1>2, LeadTyped

\* and one that pushes the value of a variable.
LEMMA DeclareTyped ==
  ASSUME NEW n, NEW e, NEW base, NEW frame, NEW gen, IsGen(n, gen), NEW visits \in Seq(OpenVisits),
         KeepsPlaces(gen, visits), TypedGen(e, base, frame, gen, visits), NEW x \in StaticType,
         NEW new, Leads(n, e, gen, new, frame, Append(frame, x)), ~new.panicked, ~new.misplaced
  PROVE  TypedGen(e, base, Append(frame, x), NewVar(new), visits)
<1> DEFINE t == Append(frame, x)
           more == NewVar(new)
<1>1. frame \in FrameTypes /\ Len(frame) \in Nat /\ base \in Nat /\ Len(frame) = base + gen.stack_size
  BY TypedFrame
<1>2. t \in FrameTypes /\ Len(t) = Len(frame) + 1
  BY <1>1, FrameAppended
<1>3. IsGen(n, new) /\ new.stack_size = gen.stack_size
  BY DEF Leads, LaysOut, Writes, SameBooks
<1>4. /\ more.code = new.code /\ more.constants = new.constants
      /\ more.loop_starts = new.loop_starts /\ more.break_backlog = new.break_backlog
      /\ more.heights = new.heights /\ more.stack_size = new.stack_size + 1
  BY <1>3 DEF NewVar, IsGen, GenFields
<1>5. Len(t) = base + more.stack_size
  <2>1. gen.stack_size \in Nat
    BY DEF IsGen
  <2> QED
    BY <1>1, <1>2, <1>3, <1>4, <2>1
<1>6. ASSUME NEW j \in DOMAIN visits
      PROVE  /\ base + visits[j].old_count <= Len(t)
             /\ Part(t, base + visits[j].old_count) = Part(frame, base + visits[j].old_count)
  <2>1. base + visits[j].old_count <= Len(frame)
    BY DEF TypedGen, TypedAt, VisitsTyped
  <2>2. visits[j].old_count \in Nat
    <3>1. visits[j] \in OpenVisits
      BY ElementOfSeq, LenProperties
    <3> QED
      BY <3>1 DEF OpenVisits
  <2>3. base + visits[j].old_count \in 0..Len(frame)
    BY <1>1, <2>1, <2>2
  <2>4. Part(t, base + visits[j].old_count) = Part(frame, base + visits[j].old_count)
    BY <1>1, <2>3, PartsOfParts
  <2> QED
    BY <1>1, <1>2, <2>2, <2>3, <2>4
<1>7. Leads(n, e, gen, new, frame, t)
  OBVIOUS
<1> HIDE DEF t, more
<1>8. TypedGen(e, base, t, more, visits)
  BY <1>4, <1>5, <1>6, <1>7, LeadTyped
<1> QED
  BY <1>8 DEF t, more

(***************************************************************************)
(* Jumps.                                                                  *)
(***************************************************************************)
\* Fields that a jump leaves alone.
SameButCode(old, new) ==
    /\ new.constants = old.constants /\ new.stack_size = old.stack_size
    /\ new.loop_starts = old.loop_starts /\ new.break_backlog = old.break_backlog
    /\ new.heights = old.heights /\ new.leaky = old.leaky /\ new.untyped = old.untyped
    /\ new.misplaced = old.misplaced /\ new.params = old.params /\ new.ret_type = old.ret_type

\* Code that another code begins with.
Begins(c, d) == Len(c) <= Len(d) /\ \A q \in 1..Len(c) : d[q] = c[q]

\* A jump that is added, and the frame that it leaves.
Jumping(n, e, gen, op, S, T, t) ==
    /\ IsGen(n, gen) /\ op \in {"Jump", "JumpIfNot"}
    /\ Flow(e, gen.constants, gen.code, S, T)
    /\ t \in FrameTypes /\ Rule(e, gen.constants, op, 0, T[Len(gen.code)], t)

Jumped(n, e, gen, new, S, T, t) ==
    /\ SameButCode(gen, new) /\ IsGen(n, new) /\ Begins(gen.code, new.code)
    /\ JumpArg(new) + 2 = Len(new.code)
    /\ \E S2, T2 : /\ Flow(e, new.constants, new.code, S2, T2)
                   /\ Onward(S, T, S2, T2) /\ T2[Len(new.code)] = t
                   /\ JumpArg(new) \in JumpsIn(new.code, S2)

\* A forward jump, until it is patched,
LEMMA JumpFlows ==
  ASSUME NEW n, NEW e, NEW gen, NEW op, NEW S, NEW T, NEW t, Jumping(n, e, gen, op, S, T, t)
  PROVE  Jumped(n, e, gen, WriteJump(gen, op), S, T, t)
<1> USE DEF Jumping
<1> DEFINE new == WriteJump(gen, op)
<1>1. 0 \in Int /\ FitsJump(0)
  BY EmitAssumption DEF FitsJump
<1>2. new = WriteShort(WriteInstr(gen, op), 0)
  BY DEF WriteJump
<1>3. /\ Adds(gen.code, new.code, op) /\ TargetIn(new.code, Len(gen.code) + 1) = Len(new.code) + 0
      /\ Len(gen.code) \in Nat /\ Len(new.code) = Len(gen.code) + 3
  BY <1>1, <1>2, ShortOpAdds
<1>4. SameButCode(gen, new)
  BY DEF WriteJump, WriteShort, WriteInstr, WriteByte, IsGen, GenFields, SameButCode
<1>5. IsGen(n, new) /\ JumpArg(new) + 2 = Len(new.code) /\ JumpArg(new) = Len(gen.code) + 1
  <2>1. Writes(n, gen, new)
    BY WriteJumpWrites
  <2>2. JumpArg(new) = Len(new.code) - 2
    BY DEF JumpArg, Here
  <2> HIDE DEF new
  <2> QED
    BY <1>3, <2>1, <2>2 DEF Writes
<1> HIDE DEF new
<1>6. Begins(gen.code, new.code)
  BY <1>3 DEF Adds, Begins
<1>7. op \in ShortOps /\ TargetIn(new.code, Len(gen.code) + 1) = Len(new.code)
      /\ FitsJump(Len(new.code) - Len(new.code))
  BY <1>1, <1>3 DEF ShortOps
<1>8. \E S2, T2 : /\ Flow(e, gen.constants, new.code, S2, T2)
                  /\ Onward(S, T, S2, T2) /\ T2[Len(new.code)] = t
                  /\ Len(gen.code) + 1 \in JumpsIn(new.code, S2)
  BY <1>3, <1>7, FlowJump
<1> QED
  BY <1>4, <1>5, <1>8, <1>6 DEF new, SameButCode, Jumped

\* and a jump back, to where the frame was the same.
JumpingBack(n, e, gen, target, S, T) ==
    /\ IsGen(n, gen) /\ Flow(e, gen.constants, gen.code, S, T)
    /\ target \in S /\ T[target] = T[Len(gen.code)] /\ ~WriteJumpBack(gen, target).panicked

\* A jump back to a place with the frame of this one keeps the types.
LEMMA JumpBackFlows ==
  ASSUME NEW n, NEW e, NEW gen, NEW target, NEW S, NEW T, JumpingBack(n, e, gen, target, S, T)
  PROVE  Jumped(n, e, gen, WriteJumpBack(gen, target), S, T, T[Len(gen.code)])
<1> USE DEF JumpingBack
<1> DEFINE new == WriteJumpBack(gen, target)
           offset == target - (Len(gen.code) + 3)
<1>1. Len(gen.code) \in Nat /\ S \subseteq 0..Len(gen.code)
  BY LenProperties DEF IsGen, Flow, IsRow, Laid
<1>2. offset \in Int /\ target \in Nat
  BY <1>1
<1>3. FitsJump(offset) /\ new = WriteShort(WriteInstr(gen, "Jump"), offset)
  BY DEF WriteJumpBack, Here, IsGen, GenFields
<1>4. /\ Adds(gen.code, new.code, "Jump") /\ TargetIn(new.code, Len(gen.code) + 1) = Len(new.code) + offset
      /\ Len(new.code) = Len(gen.code) + 3
  <2> HIDE DEF new, offset
  <2>1. offset \in Int /\ FitsJump(offset) /\ "Jump" \in {"Jump", "JumpIfNot"}
    BY <1>2, <1>3
  <2> QED
    BY <1>3, <2>1, ShortOpAdds
<1>5. SameButCode(gen, new)
  BY <1>3 DEF WriteShort, WriteInstr, WriteByte, IsGen, GenFields, SameButCode
<1>6. IsGen(n, new)
  <2>1. Writes(n, gen, new)
    BY <1>2, WriteJumpBackWrites
  <2> QED
    BY <2>1 DEF Writes
<1>7. JumpArg(new) + 2 = Len(new.code) /\ JumpArg(new) = Len(gen.code) + 1
  BY <1>1, <1>4 DEF JumpArg, Here
<1>8. TargetIn(new.code, Len(gen.code) + 1) = target /\ target - Len(new.code) = offset
  BY <1>1, <1>2, <1>4
<1>9. T[Len(gen.code)] \in FrameTypes /\ "Jump" \in ShortOps
  BY FlowFrames DEF ShortOps
<1>10. Rule(e, gen.constants, "Jump", 0, T[Len(gen.code)], T[Len(gen.code)])
  BY DEF Rule
<1> HIDE DEF new, offset
<1>11. FitsJump(target - Len(new.code))
  BY <1>3, <1>8
<1>12. Begins(gen.code, new.code)
  BY <1>1, <1>4 DEF Adds, Begins
<1>13. \E S2, T2 : /\ Flow(e, gen.constants, new.code, S2, T2)
                   /\ Onward(S, T, S2, T2) /\ T2[Len(new.code)] = T[Len(gen.code)]
                   /\ Len(gen.code) + 1 \in JumpsIn(new.code, S2)
  BY <1>4, <1>8, <1>9, <1>10, <1>11, FlowJump
<1> QED
  BY <1>5, <1>6, <1>13, <1>12, <1>7 DEF new, SameButCode, Jumped

(***************************************************************************)
(* Open statements.  Kept says all that is known of a generator, its open  *)
(* statements, the places of its code and the types there.                 *)
(***************************************************************************)
Kept(n, e, base, frame, gen, visits, S, T) ==
    /\ IsGen(n, gen) /\ visits \in Seq(OpenVisits)
    /\ TypedAt(e, base, frame, gen, visits, S, T)
    /\ PlacesOf(gen, visits, S)

\* A typed generator with records of places has them at the places of its types.
LEMMA KeptHere ==
  ASSUME NEW n, NEW e, NEW base, NEW frame, NEW gen, IsGen(n, gen), NEW visits \in Seq(OpenVisits),
         KeepsPlaces(gen, visits), TypedGen(e, base, frame, gen, visits)
  PROVE  \E S, T : Kept(n, e, base, frame, gen, visits, S, T)
<1>1. PICK S, T : TypedAt(e, base, frame, gen, visits, S, T)
  BY DEF TypedGen
<1>2. PlacesOf(gen, visits, S)
  BY <1>1, FlowFrames, PlacesHere DEF TypedAt
<1> QED
  BY <1>1, <1>2 DEF Kept

\* What is known of every frame and every open statement.
LEMMA KeptFacts ==
  ASSUME NEW n, NEW e, NEW base, NEW frame, NEW gen, NEW visits, NEW S, NEW T,
         Kept(n, e, base, frame, gen, visits, S, T)
  PROVE  /\ frame \in FrameTypes /\ Len(frame) \in Nat /\ base \in Nat /\ gen.stack_size \in Nat
         /\ Len(frame) = base + gen.stack_size
         /\ gen.code \in Seq(Byte) /\ Len(gen.code) \in Nat /\ Len(gen.code) \in S /\ 0 \in S
         /\ Flow(e, gen.constants, gen.code, S, T) /\ T[Len(gen.code)] = frame
         /\ IsRow(gen.code, S) /\ Laid(gen.code, S)
         /\ Len(visits) \in Nat /\ DOMAIN visits = 1..Len(visits)
         /\ \A j \in 1..Len(visits) :
               /\ visits[j] \in OpenVisits /\ visits[j].old_count \in Nat
               /\ base + visits[j].old_count \in 0..Len(frame)
<1>1. /\ Flow(e, gen.constants, gen.code, S, T) /\ T[Len(gen.code)] = frame
      /\ base \in Nat /\ Len(frame) = base + gen.stack_size /\ gen.stack_size \in Nat
      /\ gen.code \in Seq(Byte) /\ visits \in Seq(OpenVisits)
  BY DEF Kept, TypedAt, IsGen
<1>2. frame \in FrameTypes /\ IsRow(gen.code, S) /\ Len(gen.code) \in S /\ 0 \in S /\ Laid(gen.code, S)
  BY <1>1, FlowFrames DEF IsRow
<1>3. Len(frame) \in Nat /\ Len(gen.code) \in Nat /\ Len(visits) \in Nat /\ DOMAIN visits = 1..Len(visits)
  BY <1>1, <1>2, LenProperties DEF FrameTypes
<1>4. ASSUME NEW j \in 1..Len(visits)
      PROVE  /\ visits[j] \in OpenVisits /\ visits[j].old_count \in Nat
             /\ base + visits[j].old_count \in 0..Len(frame)
  <2>1. visits[j] \in OpenVisits
    BY <1>1, ElementOfSeq
  <2>2. visits[j].old_count \in Nat
    BY <2>1 DEF OpenVisits
  <2>3. base + visits[j].old_count <= Len(frame)
    BY <1>3 DEF Kept, TypedAt, VisitsTyped
  <2> QED
    BY <1>1, <1>3, <2>1, <2>2, <2>3
<1> QED
  BY <1>1, <1>2, <1>3, <1>4

\* The places are still places where the code goes on.
LEMMA PlacesMoved ==
  ASSUME NEW gen, NEW visits, NEW S, PlacesOf(gen, visits, S), NEW new, new.code \in Seq(Byte),
         new.loop_starts = gen.loop_starts, new.break_backlog = gen.break_backlog,
         NEW S2, IsRow(new.code, S2), S \subseteq S2,
         Len(gen.code) <= Len(new.code), \A q \in 1..Len(gen.code) : new.code[q] = gen.code[q]
  PROVE  PlacesOf(new, visits, S2)
<1>1. Extends(gen.code, new.code, S, S2)
  BY DEF Extends, PlacesOf
<1>2. JumpsIn(gen.code, S) \subseteq JumpsIn(new.code, S2)
  BY <1>1, JumpsExtended DEF PlacesOf
<1>3. Len(new.code) \in Nat /\ Len(new.code) \in S2
  BY LenProperties DEF IsRow, Laid
<1> QED
  BY <1>2, <1>3 DEF PlacesOf

\* Code that goes on from what is kept keeps it.
LEMMA KeptMoved ==
  ASSUME NEW n, NEW e, NEW base, NEW frame, NEW gen, NEW visits, NEW S, NEW T,
         Kept(n, e, base, frame, gen, visits, S, T),
         NEW new, IsGen(n, new), NEW t, NEW S2, NEW T2,
         Moves(e, base, frame, gen, visits, S, T, new, t, S2, T2),
         Len(gen.code) <= Len(new.code), \A q \in 1..Len(gen.code) : new.code[q] = gen.code[q]
  PROVE  Kept(n, e, base, t, new, visits, S2, T2)
<1>1. TypedAt(e, base, frame, gen, visits, S, T) /\ PlacesOf(gen, visits, S) /\ visits \in Seq(OpenVisits)
  BY DEF Kept
<1>2. /\ IsRow(new.code, S2) /\ S \subseteq S2 /\ new.code \in Seq(Byte)
      /\ new.loop_starts = gen.loop_starts /\ new.break_backlog = gen.break_backlog
  BY DEF Flow, Onward, IsGen, Moves
<1>3. PlacesOf(new, visits, S2)
  BY <1>1, <1>2, PlacesMoved
<1>4. TypedAt(e, base, t, new, visits, S2, T2)
  BY <1>1, TypedMoved
<1> QED
  BY <1>1, <1>3, <1>4 DEF Kept

\* The locals of a block are popped where it ends: what is left is the frame in which
\* it began.
LEMMA DoneTyped ==
  ASSUME NEW n, NEW e, NEW base, NEW frame, NEW gen, NEW visits, NEW S, NEW T,
         Kept(n, e, base, frame, gen, visits, S, T), visits # <<>>
  PROVE  \E S2, T2 : /\ Kept(n, e, base, Part(frame, base + Last(visits).old_count),
                             PopLocals(gen, Last(visits).old_count), visits, S2, T2)
                     /\ Onward(S, T, S2, T2)
<1> DEFINE m == Len(visits)
           count == Last(visits).old_count
           k == gen.stack_size - count
           popped == PopLocals(gen, count)
           t == Part(frame, base + count)
<1>1. /\ frame \in FrameTypes /\ Len(frame) \in Nat /\ base \in Nat /\ gen.stack_size \in Nat
      /\ Len(frame) = base + gen.stack_size
      /\ gen.code \in Seq(Byte) /\ Len(gen.code) \in Nat
      /\ Flow(e, gen.constants, gen.code, S, T) /\ T[Len(gen.code)] = frame
      /\ m \in Nat /\ DOMAIN visits = 1..m
      /\ \A j \in 1..m : visits[j].old_count \in Nat /\ base + visits[j].old_count \in 0..Len(frame)
  BY KeptFacts
<1>2. m \in 1..m /\ Last(visits) = visits[m]
  BY VisitClosed DEF Kept
<1>3. count \in Nat /\ base + count \in 0..Len(frame)
  BY <1>1, <1>2
<1>4. \A j \in 1..m : visits[j].old_count <= count
  <2>1. \A i, j \in 1..m : i <= j => visits[i].old_count <= visits[j].old_count
    BY <1>1 DEF Kept, TypedAt, VisitsTyped
  <2> QED
    BY <1>1, <1>2, <2>1
<1> HIDE DEF count
<1>5. k \in Nat /\ k <= Len(frame) /\ Len(frame) - k = base + count
  BY <1>1, <1>3
<1>6. /\ IsGen(n, popped) /\ popped.stack_size = count
      /\ popped.break_backlog = gen.break_backlog /\ popped.loop_starts = gen.loop_starts
  BY <1>3, PopLocalsEffect DEF Kept
<1>7. /\ popped.code = gen.code \o [i \in 1..k |-> OpByte["Pop"]]
      /\ popped.constants = gen.constants /\ popped.heights = gen.heights
  BY DEF PopLocals, IsGen, GenFields, Kept
<1> HIDE DEF popped, k
<1>8. /\ popped.code \in Seq(Byte) /\ Len(popped.code) = Len(gen.code) + k
      /\ \A q \in 1..Len(gen.code) : popped.code[q] = gen.code[q]
      /\ \A q \in (Len(gen.code) + 1)..Len(popped.code) : popped.code[q] = OpByte["Pop"]
  <2> DEFINE pops == [i \in 1..k |-> OpByte["Pop"]]
  <2>1. pops \in Seq(Byte) /\ Len(pops) = k
    BY <1>5, OpByteIsByte, Written, PopsAreCode, FunctionIsSequence
  <2>2. \A i \in 1..k : pops[i] = OpByte["Pop"]
    OBVIOUS
  <2> HIDE DEF pops
  <2>3. popped.code \in Seq(Byte) /\ Len(popped.code) = Len(gen.code) + k
    BY <1>1, <1>7, <2>1, JoinedBytes DEF pops
  <2>4. popped.code = gen.code \o pops
    BY <1>7 DEF pops
  <2>5. ASSUME NEW q \in 1..Len(gen.code) PROVE popped.code[q] = gen.code[q]
    BY <1>1, <2>1, <2>4, JoinedPlaces
  <2>6. ASSUME NEW q \in (Len(gen.code) + 1)..Len(popped.code) PROVE popped.code[q] = OpByte["Pop"]
    <3>1. q - Len(gen.code) \in 1..k /\ q = Len(gen.code) + (q - Len(gen.code))
      BY <1>1, <1>5, <2>3
    <3>2. popped.code[Len(gen.code) + (q - Len(gen.code))] = pops[q - Len(gen.code)]
      BY <1>1, <2>1, <2>4, <3>1, JoinedPlaces
    <3> QED
      BY <2>2, <3>1, <3>2
  <2> QED
    BY <2>3, <2>5, <2>6
<1>9. PICK S2, T2 : /\ Flow(e, gen.constants, popped.code, S2, T2) /\ Onward(S, T, S2, T2)
                    /\ T2[Len(popped.code)] = Part(frame, Len(frame) - k)
  <2> HIDE DEF m
  <2>1. k <= Len(T[Len(gen.code)]) /\ Popping(gen.code, popped.code, k)
    BY <1>1, <1>5, <1>8 DEF Popping
  <2>2. Flow(e, gen.constants, gen.code, S, T)
    BY <1>1
  <2>3. \E S2, T2 : /\ Flow(e, gen.constants, popped.code, S2, T2) /\ Onward(S, T, S2, T2)
                    /\ T2[Len(popped.code)] = Part(T[Len(gen.code)], Len(T[Len(gen.code)]) - k)
    BY <2>1, <2>2, FlowPops
  <2> QED
    BY <1>1, <2>3
<1>10. /\ T2[Len(popped.code)] = t /\ Len(t) = base + popped.stack_size
  BY <1>1, <1>3, <1>5, <1>6, <1>9, PartFacts
<1>11. ASSUME NEW j \in DOMAIN visits
       PROVE  /\ base + visits[j].old_count <= Len(t)
              /\ Part(t, base + visits[j].old_count) = Part(frame, base + visits[j].old_count)
  <2>1. /\ visits[j].old_count \in Nat /\ visits[j].old_count <= count
    BY <1>1, <1>4
  <2>2. base + visits[j].old_count \in 0..(base + count)
    BY <1>1, <1>3, <2>1
  <2>3. Part(t, base + visits[j].old_count) = Part(frame, base + visits[j].old_count)
    BY <1>1, <1>3, <2>2, PartsOfParts
  <2>4. Len(t) = base + count
    BY <1>1, <1>3, PartFacts
  <2> QED
    BY <2>2, <2>3, <2>4
<1> HIDE DEF t
<1>12. Len(gen.code) <= Len(popped.code)
  BY <1>1, <1>5, <1>8
<1>13. Moves(e, base, frame, gen, visits, S, T, popped, t, S2, T2)
  BY <1>6, <1>7, <1>9, <1>10, <1>11 DEF Moves
<1>14. Kept(n, e, base, t, popped, visits, S2, T2)
  BY <1>6, <1>8, <1>12, <1>13, KeptMoved
<1> QED
  BY <1>9, <1>14 DEF t, popped, count

\* The records do not matter, and the books of a statement that ends are closed.
LEMMA KeptSame ==
  ASSUME NEW n, NEW e, NEW base, NEW frame, NEW gen, NEW visits, NEW S, NEW T,
         Kept(n, e, base, frame, gen, visits, S, T),
         NEW new, IsGen(n, new), new.code = gen.code, new.constants = gen.constants,
         new.stack_size = gen.stack_size, new.loop_starts = gen.loop_starts,
         new.break_backlog = gen.break_backlog, new.heights = gen.heights
  PROVE  Kept(n, e, base, frame, new, visits, S, T)
BY DEF Kept, TypedAt, HeightsHold, BreaksTyped, PlacesOf

\* Closing the innermost statement keeps the records of the others.
LEMMA KeptClosed ==
  ASSUME NEW n, NEW e, NEW base, NEW frame, NEW gen, NEW visits, NEW S, NEW T,
         Kept(n, e, base, frame, gen, visits, S, T), visits # <<>>
  PROVE  Kept(n, e, base, frame, gen, Front(visits), S, T)
<1> DEFINE m == Len(visits)
           front == Front(visits)
<1>1. /\ m \in Nat \ {0} /\ DOMAIN visits = 1..m /\ DOMAIN front = 1..(m - 1)
      /\ \A j \in 1..(m - 1) : front[j] = visits[j]
      /\ front \in Seq(OpenVisits)
  BY VisitClosed DEF Kept
<1>2. DOMAIN front \subseteq DOMAIN visits /\ \A j \in DOMAIN front : front[j] = visits[j]
  BY <1>1
<1> HIDE DEF front, m
<1>3. VisitsTyped(base, frame, T, front)
  BY <1>2 DEF Kept, TypedAt, VisitsTyped
<1>4. PlacesOf(gen, front, S)
  BY <1>2 DEF Kept, PlacesOf
<1> QED
  BY <1>1, <1>3, <1>4 DEF Kept, TypedAt, front

\* A statement is opened with the frame as it is.
LEMMA KeptOpened ==
  ASSUME NEW n, NEW e, NEW base, NEW frame, NEW gen, NEW visits, NEW S, NEW T,
         Kept(n, e, base, frame, gen, visits, S, T),
         NEW v \in OpenVisits, v.old_count = gen.stack_size,
         v.kind # "block" => v.jump \in JumpsIn(gen.code, S) /\ v.jump + 2 \in S /\ T[v.jump + 2] = frame,
         v.kind = "while" => v.start \in S /\ T[v.start] = frame
  PROVE  Kept(n, e, base, frame, gen, Append(visits, v), S, T)
<1> DEFINE m == Len(visits)
           more == Append(visits, v)
<1>1. /\ m \in Nat /\ DOMAIN visits = 1..m /\ base \in Nat /\ frame \in FrameTypes /\ Len(frame) \in Nat
      /\ Len(frame) = base + gen.stack_size /\ gen.stack_size \in Nat
      /\ \A j \in 1..m : visits[j].old_count \in Nat /\ base + visits[j].old_count \in 0..Len(frame)
  BY KeptFacts
<1>2. /\ more \in Seq(OpenVisits) /\ DOMAIN more = 1..(m + 1) /\ more[m + 1] = v
      /\ \A j \in 1..m : more[j] = visits[j]
  BY VisitOpened, AppendProperties DEF Kept
<1> HIDE DEF m, more
<1>3. \A j \in DOMAIN more : j \in 1..m \/ j = m + 1
  BY <1>1, <1>2
<1>4. Part(frame, base + v.old_count) = frame
  BY <1>1, PartsOfParts
<1>5. VisitsTyped(base, frame, T, more)
  <2>1. \A j \in DOMAIN more : base + more[j].old_count <= Len(frame)
    BY <1>1, <1>2, <1>3
  <2>2. ASSUME NEW i \in DOMAIN more, NEW j \in DOMAIN more, i <= j
        PROVE  more[i].old_count <= more[j].old_count
    <3>1. CASE j = m + 1
      <4>1. more[i].old_count \in Nat /\ base + more[i].old_count <= base + gen.stack_size
        BY <1>1, <1>2, <1>3, <2>1
      <4> QED
        BY <1>1, <1>2, <3>1, <4>1
    <3>2. CASE j \in 1..m
      <4>1. i \in 1..m
        BY <1>1, <1>2, <1>3, <2>2, <3>2
      <4> QED
        BY <1>1, <1>2, <2>2, <3>2, <4>1 DEF Kept, TypedAt, VisitsTyped
    <3> QED
      BY <1>3, <3>1, <3>2
  <2>3. ASSUME NEW j \in DOMAIN more
        PROVE  /\ more[j].kind # "block" =>
                     T[more[j].jump + 2] = Part(frame, base + more[j].old_count)
               /\ more[j].kind = "while" =>
                     T[more[j].start] = Part(frame, base + more[j].old_count)
    <3>1. CASE j = m + 1
      BY <1>2, <1>4, <3>1
    <3>2. CASE j \in 1..m
      BY <1>1, <1>2, <3>2 DEF Kept, TypedAt, VisitsTyped
    <3> QED
      BY <1>3, <3>1, <3>2
  <2> QED
    BY <2>1, <2>2, <2>3 DEF VisitsTyped
<1>6. PlacesOf(gen, more, S)
  <2>1. ASSUME NEW j \in DOMAIN more
        PROVE  /\ more[j].kind # "block" => more[j].jump \in JumpsIn(gen.code, S) /\ more[j].jump + 2 \in S
               /\ more[j].kind = "while" => more[j].start \in S
    <3>1. CASE j = m + 1
      BY <1>2, <3>1
    <3>2. CASE j \in 1..m
      BY <1>1, <1>2, <3>2 DEF Kept, PlacesOf
    <3> QED
      BY <1>3, <3>1, <3>2
  <2> QED
    BY <2>1 DEF Kept, PlacesOf
<1> QED
  BY <1>2, <1>5, <1>6 DEF Kept, TypedAt, more

\* Jumps that are patched leave frames like the one at the end.
LEMMA KeptPatched ==
  ASSUME NEW n, NEW e, NEW base, NEW frame, NEW gen, NEW visits, NEW S, NEW T,
         Kept(n, e, base, frame, gen, visits, S, T),
         NEW jumps, jumps \subseteq JumpsIn(gen.code, S), \A at \in jumps : T[at + 2] = frame,
         ~PatchToNext(gen, jumps).panicked
  PROVE  Kept(n, e, base, frame, PatchToNext(gen, jumps), visits, S, T) /\ ~gen.panicked
<1> DEFINE new == PatchToNext(gen, jumps)
<1>1. Flow(e, gen.constants, gen.code, S, T) /\ T[Len(gen.code)] = frame /\ IsGen(n, gen)
      /\ IsRow(gen.code, S)
  BY KeptFacts DEF Kept
<1>2. new.heights = gen.heights
  BY <1>1 DEF PatchToNext, IsGen, GenFields
<1>3. PICK g : g = new
  OBVIOUS
<1>4. g = PatchToNext(gen, jumps) /\ ~g.panicked
  BY <1>3
<1> HIDE DEF new
<1>5. Rejoin(gen, jumps, S, T)
  BY <1>1 DEF Rejoin
<1>6. /\ Flow(e, g.constants, g.code, S, T) /\ Len(g.code) = Len(gen.code)
  <2>1. IsGen(n, gen) /\ Flow(e, gen.constants, gen.code, S, T) /\ ~PatchToNext(gen, jumps).panicked
    BY <1>1
  <2>2. /\ Flow(e, PatchToNext(gen, jumps).constants, PatchToNext(gen, jumps).code, S, T)
        /\ Len(PatchToNext(gen, jumps).code) = Len(gen.code)
    BY <1>5, <2>1, FlowPatched
  <2> QED
    BY <1>4, <2>2
<1>7. /\ Writes(n, gen, g) /\ IsRow(g.code, S) /\ JumpsIn(g.code, S) = JumpsIn(gen.code, S)
      /\ ~gen.panicked
  BY <1>1, <1>4, PatchLays
<1>8. /\ IsGen(n, g) /\ g.stack_size = gen.stack_size /\ g.loop_starts = gen.loop_starts
      /\ g.break_backlog = gen.break_backlog /\ g.code \in Seq(Byte)
  BY <1>7 DEF Writes, SameBooks, IsGen
<1>9. g.heights = gen.heights
  BY <1>2, <1>3
<1>10. PlacesOf(g, visits, S)
  BY <1>6, <1>7, <1>8 DEF Kept, PlacesOf
<1>11. TypedAt(e, base, frame, g, visits, S, T)
  BY <1>1, <1>6, <1>8, <1>9 DEF Kept, TypedAt, HeightsHold, BreaksTyped
<1> QED
  BY <1>4, <1>7, <1>8, <1>10, <1>11 DEF Kept

\* A loop begins.
LEMMA KeptBegun ==
  ASSUME NEW n, NEW e, NEW base, NEW frame, NEW gen, NEW visits, NEW S, NEW T,
         Kept(n, e, base, frame, gen, visits, S, T)
  PROVE  Kept(n, e, base, frame, BeginLoop(gen), visits, S, T)
<1> DEFINE new == BeginLoop(gen)
           m == Len(gen.loop_starts)
<1>1. IsGen(n, gen) /\ Len(gen.code) \in S /\ Len(gen.code) \in Nat /\ gen.loop_starts \in Seq(Nat)
      /\ m \in Nat
  BY KeptFacts, LenProperties DEF Kept, IsGen
<1>2. /\ IsGen(n, new) /\ new.stack_size = gen.stack_size /\ new.break_backlog = gen.break_backlog
  BY <1>1, BeginLoopEffect
<1>3. /\ new.code = gen.code /\ new.constants = gen.constants /\ new.heights = gen.heights
      /\ new.loop_starts = Append(gen.loop_starts, Len(gen.code))
  BY <1>1 DEF BeginLoop, Here, IsGen, GenFields
<1>4. /\ Len(new.loop_starts) = m + 1 /\ new.loop_starts[m + 1] = Len(gen.code)
      /\ \A k \in 1..m : new.loop_starts[k] = gen.loop_starts[k]
  BY <1>1, <1>3, AppendProperties
<1> HIDE DEF new
<1>5. \A b \in gen.break_backlog : b.loop + 1 \in 1..m /\ b.loop \in 0..(m - 1)
  BY DEF Kept, PlacesOf
<1>6. BreaksTyped(new, T)
  BY <1>2, <1>4, <1>5 DEF Kept, TypedAt, BreaksTyped
<1>7. PlacesOf(new, visits, S)
  <2>1. \A k \in 1..Len(new.loop_starts) : new.loop_starts[k] \in S
    <3>1. \A k \in 1..m : gen.loop_starts[k] \in S
      BY DEF Kept, PlacesOf
    <3>2. \A k \in 1..(m + 1) : k \in 1..m \/ k = m + 1
      BY <1>1
    <3> QED
      BY <1>1, <1>4, <3>1, <3>2
  <2>2. \A b \in new.break_backlog :
          /\ b.loop \in 0..(Len(new.loop_starts) - 1) /\ b.loop + 1 \in 1..Len(new.loop_starts)
          /\ b.jump \in JumpsIn(new.code, S) /\ b.jump + 2 \in S
    BY <1>1, <1>2, <1>3, <1>4, <1>5 DEF Kept, PlacesOf
  <2>3. Len(new.loop_starts) \in Nat
    BY <1>1, <1>4
  <2> QED
    BY <1>3, <2>1, <2>2, <2>3 DEF Kept, PlacesOf
<1> QED
  BY <1>2, <1>3, <1>6, <1>7 DEF Kept, TypedAt, HeightsHold, new

\* Going on and on.
LEMMA OnwardTwice ==
  ASSUME NEW S, NEW T, NEW S2, NEW T2, NEW S3, NEW T3, Onward(S, T, S2, T2), Onward(S2, T2, S3, T3)
  PROVE  Onward(S, T, S3, T3)
BY DEF Onward

\* Code that only a jump is added to, with the frame as it was.
LEMMA KeptJumped ==
  ASSUME NEW n, NEW e, NEW base, NEW frame, NEW gen, NEW visits, NEW S, NEW T,
         Kept(n, e, base, frame, gen, visits, S, T),
         NEW new, IsGen(n, new), SameButCode(gen, new), Begins(gen.code, new.code),
         NEW S2, NEW T2, Flow(e, new.constants, new.code, S2, T2), Onward(S, T, S2, T2),
         T2[Len(new.code)] = frame
  PROVE  Kept(n, e, base, frame, new, visits, S2, T2)
<1>1. Len(frame) = base + new.stack_size
  BY KeptFacts DEF SameButCode
<1>2. \A j \in DOMAIN visits : base + visits[j].old_count <= Len(frame)
  BY DEF Kept, TypedAt, VisitsTyped
<1>3. Moves(e, base, frame, gen, visits, S, T, new, frame, S2, T2)
  BY <1>1, <1>2 DEF Moves, SameButCode
<1> QED
  BY <1>3, KeptMoved DEF Begins

\* The jump over a branch, or out of a loop.
LEMMA JumpKept ==
  ASSUME NEW n, NEW e, NEW base, NEW frame, NEW gen, NEW visits, NEW S, NEW T,
         Kept(n, e, base, frame, gen, visits, S, T)
  PROVE  LET new == WriteJump(gen, "Jump")
         IN \E S2, T2 : /\ Kept(n, e, base, frame, new, visits, S2, T2) /\ Onward(S, T, S2, T2)
                        /\ JumpArg(new) \in JumpsIn(new.code, S2) /\ JumpArg(new) + 2 \in S2
                        /\ T2[JumpArg(new) + 2] = frame
<1> DEFINE new == WriteJump(gen, "Jump")
<1>1. IsGen(n, gen) /\ Flow(e, gen.constants, gen.code, S, T) /\ T[Len(gen.code)] = frame
      /\ frame \in FrameTypes
  BY KeptFacts DEF Kept
<1>2. Rule(e, gen.constants, "Jump", 0, T[Len(gen.code)], frame)
  BY <1>1 DEF Rule
<1>3. Jumped(n, e, gen, new, S, T, frame)
  <2>1. Jumping(n, e, gen, "Jump", S, T, frame)
    BY <1>1, <1>2 DEF Jumping
  <2> QED
    BY <2>1, JumpFlows
<1> HIDE DEF new
<1>4. PICK S2, T2 : /\ Flow(e, new.constants, new.code, S2, T2)
                    /\ Onward(S, T, S2, T2) /\ T2[Len(new.code)] = frame
                    /\ JumpArg(new) \in JumpsIn(new.code, S2)
  BY <1>3 DEF Jumped
<1>5. Kept(n, e, base, frame, new, visits, S2, T2)
  BY <1>3, <1>4, KeptJumped DEF Jumped
<1>6. Len(new.code) \in S2
  BY <1>4, FlowFrames
<1> QED
  BY <1>3, <1>4, <1>5, <1>6 DEF new, Jumped

\* A condition and the jump that it takes when it is false.
LEMMA TestKept ==
  ASSUME NEW n, NEW e, NEW base, NEW frame, NEW gen, NEW visits, NEW S, NEW T,
         Kept(n, e, base, frame, gen, visits, S, T), ~gen.panicked, ~gen.misplaced
  PROVE  LET new == WriteJump(Condition(gen), "JumpIfNot")
         IN \E S2, T2 : /\ Kept(n, e, base, frame, new, visits, S2, T2) /\ Onward(S, T, S2, T2)
                        /\ JumpArg(new) \in JumpsIn(new.code, S2) /\ JumpArg(new) + 2 \in S2
                        /\ T2[JumpArg(new) + 2] = frame
                        /\ SameButCode(gen, new)
<1> DEFINE tested == Condition(gen)
           new == WriteJump(tested, "JumpIfNot")
           t == Append(frame, Of("Bool"))
<1>1. IsGen(n, gen) /\ Flow(e, gen.constants, gen.code, S, T) /\ T[Len(gen.code)] = frame
      /\ frame \in FrameTypes /\ Len(gen.code) \in Nat /\ gen.code \in Seq(Byte)
  BY KeptFacts DEF Kept
<1>2. Of("Bool") \in StaticType
  BY OfIsType DEF Types
<1>3. Leads(n, e, gen, tested, frame, t)
  BY <1>1, <1>2, ExpressionsLead
<1>4. SameButCode(gen, tested) /\ tested.panicked = gen.panicked
  BY <1>1 DEF Condition, WriteInstr, WriteByte, IsGen, GenFields, SameButCode
<1>5. IsGen(n, tested) /\ Begins(gen.code, tested.code)
  BY <1>3 DEF Leads, LaysOut, Writes, Grown, Begins, Condition, WriteInstr, WriteByte
<1>6. PICK S2, T2 : /\ Flow(e, tested.constants, tested.code, S2, T2)
                    /\ Onward(S, T, S2, T2) /\ T2[Len(tested.code)] = t
  BY <1>1, <1>3, <1>4 DEF Leads, Flows, SameButCode
<1>7. Rule(e, tested.constants, "JumpIfNot", 0, T2[Len(tested.code)], frame)
  <2>1. t = Append(frame, Of("Bool")) /\ Drops(e, "JumpIfNot", Of("Bool"))
    BY DEF Drops
  <2> QED
    BY <1>2, <1>6, <2>1 DEF Rule
<1> HIDE DEF tested, t
<1>8. Jumped(n, e, tested, new, S2, T2, frame)
  <2>1. Jumping(n, e, tested, "JumpIfNot", S2, T2, frame)
    BY <1>1, <1>5, <1>6, <1>7 DEF Jumping
  <2> QED
    BY <2>1, JumpFlows
<1> HIDE DEF new
<1>9. PICK S3, T3 : /\ Flow(e, new.constants, new.code, S3, T3)
                    /\ Onward(S2, T2, S3, T3) /\ T3[Len(new.code)] = frame
                    /\ JumpArg(new) \in JumpsIn(new.code, S3)
  BY <1>8 DEF Jumped
<1>10. SameButCode(gen, new)
  BY <1>4, <1>8 DEF SameButCode, Jumped
<1>11. Begins(gen.code, new.code)
  <2>1. Len(tested.code) \in Nat /\ Len(new.code) \in Nat
    BY <1>5, <1>8, LenProperties DEF IsGen, Jumped
  <2> QED
    BY <1>1, <1>5, <1>8, <2>1 DEF Begins, Jumped
<1>12. Onward(S, T, S3, T3)
  BY <1>6, <1>9, OnwardTwice
<1>13. Kept(n, e, base, frame, new, visits, S3, T3)
  BY <1>8, <1>9, <1>10, <1>11, <1>12, KeptJumped DEF Jumped
<1>14. Len(new.code) \in S3
  BY <1>9, FlowFrames
<1> QED
  BY <1>8, <1>9, <1>10, <1>12, <1>13, <1>14 DEF new, tested, Jumped

\* A jump back to where the frame was the same.
LEMMA BackKept ==
  ASSUME NEW n, NEW e, NEW base, NEW frame, NEW gen, NEW visits, NEW S, NEW T,
         Kept(n, e, base, frame, gen, visits, S, T),
         NEW target \in S, T[target] = frame, ~WriteJumpBack(gen, target).panicked
  PROVE  LET new == WriteJumpBack(gen, target)
         IN /\ SameButCode(gen, new)
            /\ \E S2, T2 : Kept(n, e, base, frame, new, visits, S2, T2) /\ Onward(S, T, S2, T2)
<1> DEFINE new == WriteJumpBack(gen, target)
<1>1. IsGen(n, gen) /\ Flow(e, gen.constants, gen.code, S, T) /\ T[Len(gen.code)] = frame
  BY KeptFacts DEF Kept
<1>2. Jumped(n, e, gen, new, S, T, frame)
  <2>1. JumpingBack(n, e, gen, target, S, T)
    BY <1>1 DEF JumpingBack
  <2> QED
    BY <1>1, <2>1, JumpBackFlows
<1> HIDE DEF new
<1>3. PICK S2, T2 : /\ Flow(e, new.constants, new.code, S2, T2)
                    /\ Onward(S, T, S2, T2) /\ T2[Len(new.code)] = frame
  BY <1>2 DEF Jumped
<1>4. Kept(n, e, base, frame, new, visits, S2, T2)
  BY <1>2, <1>3, KeptJumped DEF Jumped
<1> QED
  BY <1>2, <1>3, <1>4 DEF new, Jumped

\* One more break waits, with a frame like the one with which its loop begins.
LEMMA BreakKept ==
  ASSUME NEW n, NEW e, NEW base, NEW frame, NEW gen, NEW visits, NEW S, NEW T,
         Kept(n, e, base, frame, gen, visits, S, T),
         NEW jump \in JumpsIn(gen.code, S), jump + 2 \in S,
         NEW loop \in 0..(Len(gen.loop_starts) - 1), T[jump + 2] = T[gen.loop_starts[loop + 1]],
         NEW new, IsGen(n, new), new.code = gen.code, new.constants = gen.constants,
         new.stack_size = gen.stack_size, new.loop_starts = gen.loop_starts, new.heights = gen.heights,
         new.break_backlog = gen.break_backlog \cup {[jump |-> jump, loop |-> loop]}
  PROVE  Kept(n, e, base, frame, new, visits, S, T)
<1>1. Len(gen.loop_starts) \in Nat
  BY DEF Kept, PlacesOf
<1>2. loop + 1 \in 1..Len(gen.loop_starts)
  BY <1>1
<1>3. \A b \in new.break_backlog : b \in gen.break_backlog \/ (b.jump = jump /\ b.loop = loop)
  OBVIOUS
<1>4. BreaksTyped(new, T)
  BY <1>3 DEF Kept, TypedAt, BreaksTyped
<1>5. PlacesOf(new, visits, S)
  BY <1>1, <1>2, <1>3 DEF Kept, PlacesOf
<1> QED
  BY <1>4, <1>5 DEF Kept, TypedAt, HeightsHold

\* A loop ends where the frame is like the one with which it begins.
LEMMA EndLoopKept ==
  ASSUME NEW n, NEW e, NEW base, NEW frame, NEW gen, NEW visits, NEW S, NEW T,
         Kept(n, e, base, frame, gen, visits, S, T),
         gen.loop_starts # <<>>, T[gen.loop_starts[Len(gen.loop_starts)]] = frame,
         NEW loop, ~Landed(EndLoop(gen), loop).panicked
  PROVE  Kept(n, e, base, frame, Landed(EndLoop(gen), loop), visits, S, T)
<1> DEFINE ended == Len(gen.loop_starts) - 1
           landing == {b.jump : b \in {c \in gen.break_backlog : c.loop = ended}}
           patched == PatchToNext(gen, landing)
           new == Landed(EndLoop(gen), loop)
<1>1. /\ IsGen(n, gen) /\ gen.loop_starts \in Seq(Nat) /\ Len(gen.loop_starts) \in Nat
      /\ ended \in Nat /\ ended + 1 = Len(gen.loop_starts)
      /\ DOMAIN gen = GenFields
  <2>1. IsGen(n, gen) /\ gen.loop_starts \in Seq(Nat)
    BY DEF Kept, IsGen
  <2>2. Len(gen.loop_starts) \in Nat /\ Len(gen.loop_starts) # 0
    BY <2>1, LenProperties, EmptySeq
  <2> QED
    BY <2>1, <2>2 DEF IsGen
<1>2. \A b \in gen.break_backlog :
         /\ b.loop \in 0..ended /\ b.jump \in JumpsIn(gen.code, S) /\ b.jump + 2 \in S
         /\ T[b.jump + 2] = T[gen.loop_starts[b.loop + 1]]
  BY <1>1 DEF Kept, PlacesOf, TypedAt, BreaksTyped
<1>3. /\ landing \subseteq JumpsIn(gen.code, S)
      /\ \A at \in landing : T[at + 2] = frame
  BY <1>1, <1>2
<1>4. DOMAIN patched = GenFields
  BY <1>1 DEF PatchToNext
<1>5. /\ new.code = patched.code /\ new.constants = patched.constants
      /\ new.stack_size = patched.stack_size /\ new.heights = patched.heights
      /\ new.panicked = patched.panicked
      /\ new.loop_starts = SubSeq(patched.loop_starts, 1, ended)
      /\ new.break_backlog = {b \in patched.break_backlog : b.loop # ended}
  BY <1>4 DEF Landed, EndLoop, GenFields
<1>6. IsGen(n, new)
  <2>1. IsGen(n, EndLoop(gen))
    BY <1>1, EndLoopEffect
  <2> QED
    BY <2>1, RecordsWrite DEF Writes
<1>7. patched.loop_starts = gen.loop_starts /\ patched.break_backlog = gen.break_backlog
  BY <1>1 DEF PatchToNext, GenFields
<1> HIDE DEF patched, new, landing
<1>8. Kept(n, e, base, frame, patched, visits, S, T)
  <2>1. ~patched.panicked
    BY <1>5 DEF new
  <2> QED
    BY <1>3, <2>1, KeptPatched DEF patched
<1>9. /\ Len(new.loop_starts) = ended
      /\ \A k \in 1..ended : new.loop_starts[k] = gen.loop_starts[k]
  BY <1>1, <1>5, <1>7, SubSeqProperties
<1>10. \A b \in new.break_backlog :
          b \in gen.break_backlog /\ b.loop + 1 \in 1..ended /\ b.loop \in 0..(ended - 1)
  BY <1>1, <1>2, <1>5, <1>7
<1>11. BreaksTyped(new, T)
  BY <1>2, <1>9, <1>10 DEF BreaksTyped
<1>12. PlacesOf(new, visits, S)
  <2>1. \A k \in 1..ended : k \in 1..Len(gen.loop_starts)
    BY <1>1
  <2>2. \A k \in 1..Len(gen.loop_starts) : gen.loop_starts[k] \in S
    BY DEF Kept, PlacesOf
  <2>3. \A b \in new.break_backlog :
          /\ b.loop \in 0..(Len(new.loop_starts) - 1) /\ b.loop + 1 \in 1..Len(new.loop_starts)
          /\ b.jump \in JumpsIn(new.code, S) /\ b.jump + 2 \in S
    BY <1>5, <1>7, <1>8, <1>9, <1>10 DEF Kept, PlacesOf
  <2>4. Len(new.loop_starts) \in Nat
    BY <1>1, <1>9
  <2> QED
    BY <1>5, <1>8, <1>9, <2>1, <2>2, <2>3, <2>4 DEF Kept, PlacesOf
<1> QED
  BY <1>5, <1>6, <1>8, <1>11, <1>12 DEF Kept, TypedAt, HeightsHold, new

\* What is kept is typed.
LEMMA KeptIsTyped ==
  ASSUME NEW n, NEW e, NEW base, NEW frame, NEW gen, NEW visits, NEW S, NEW T,
         Kept(n, e, base, frame, gen, visits, S, T)
  PROVE  TypedGen(e, base, frame, gen, visits)
BY DEF Kept, TypedGen

(***************************************************************************)
(* Frames and declarations.  The slots of the main script are its globals, *)
(* then its locals, those of another function its locals.                  *)
(***************************************************************************)
SlotType(i, globals, locals, q) ==
    IF i # 1 THEN locals[q].type
    ELSE IF q <= Len(globals) THEN globals[q].type ELSE locals[q - Len(globals)].type

FrameOf(i, globals, locals, len) == [q \in 1..len |-> SlotType(i, globals, locals, q)]

Kinds(table) == [q \in DOMAIN table |-> table[q].type]

\* A table whose declarations have types.
HasTypes(table) == IsSequence(table) /\ \A q \in DOMAIN table : table[q].type \in StaticType

\* A frame has the type of a declaration in each of its slots.
SlotCount(i, globals, locals) == (IF i = 1 THEN Len(globals) ELSE 0) + Len(locals)

FrameIs(i, globals, locals, len) ==
    LET frame == FrameOf(i, globals, locals, len)
    IN /\ frame \in FrameTypes /\ Len(frame) = len /\ DOMAIN frame = 1..len
       /\ \A q \in 1..len : frame[q] = SlotType(i, globals, locals, q)

\* A frame is a sequence of static types, one per slot.
LEMMA FrameFacts ==
  ASSUME NEW i, NEW globals, HasTypes(globals), NEW locals, HasTypes(locals),
         NEW len \in Nat, len <= SlotCount(i, globals, locals)
  PROVE  FrameIs(i, globals, locals, len)
<1> DEFINE frame == FrameOf(i, globals, locals, len)
<1>1. /\ Len(globals) \in Nat /\ DOMAIN globals = 1..Len(globals)
      /\ Len(locals) \in Nat /\ DOMAIN locals = 1..Len(locals)
  BY Places DEF HasTypes
<1>2. ASSUME NEW q \in 1..len PROVE SlotType(i, globals, locals, q) \in StaticType
  <2>1. CASE i # 1
    BY <1>1, <2>1 DEF SlotType, HasTypes, SlotCount
  <2>2. CASE i = 1 /\ q <= Len(globals)
    BY <1>1, <2>2 DEF SlotType, HasTypes
  <2>3. CASE i = 1 /\ ~(q <= Len(globals))
    <3>1. q - Len(globals) \in DOMAIN locals
      BY <1>1, <2>3 DEF SlotCount
    <3> QED
      BY <2>3, <3>1 DEF SlotType, HasTypes
  <2> QED
    BY <2>1, <2>2, <2>3
<1>3. frame \in [1..len -> StaticType]
  BY <1>2 DEF FrameOf
<1>4. frame \in FrameTypes
  BY <1>3, SeqDef DEF FrameTypes
<1>5. Len(frame) = len
  BY <1>3, <1>4, LenProperties DEF FrameTypes
<1> QED
  BY <1>3, <1>4, <1>5 DEF FrameOf, FrameIs

\* Its first parts are frames.
LEMMA FrameParts ==
  ASSUME NEW i, NEW globals, NEW locals, NEW len \in Nat, NEW m \in 0..len
  PROVE  Part(FrameOf(i, globals, locals, len), m) = FrameOf(i, globals, locals, m)
<1>1. \A q \in 1..m : q \in 1..len
  OBVIOUS
<1> QED
  BY <1>1 DEF Part, FrameOf

\* With one more value, a frame has one more slot.
LEMMA FrameMore ==
  ASSUME NEW i, NEW globals, HasTypes(globals), NEW locals, HasTypes(locals),
         NEW len \in Nat, len + 1 <= SlotCount(i, globals, locals)
  PROVE  FrameOf(i, globals, locals, len + 1)
           = Append(FrameOf(i, globals, locals, len), SlotType(i, globals, locals, len + 1))
<1> DEFINE longer == FrameOf(i, globals, locals, len + 1)
<1>1. /\ longer \in FrameTypes /\ Len(longer) = len + 1
      /\ longer[len + 1] = SlotType(i, globals, locals, len + 1)
  BY FrameFacts DEF FrameIs
<1>2. Part(longer, len) = FrameOf(i, globals, locals, len)
  BY FrameParts
<1> HIDE DEF longer
<1>3. longer = Append(Part(longer, (len + 1) - 1), longer[len + 1])
  <2>1. Part(longer, Len(longer)) = longer
    BY <1>1, PartsOfParts
  <2>2. len + 1 \in 1..Len(longer)
    BY <1>1
  <2> QED
    BY <1>1, <2>1, <2>2, PartsOfParts
<1> QED
  BY <1>1, <1>2, <1>3 DEF longer

\* A declaration adds its type to the slots, and leaves the others alone: a local
LEMMA LocalSlots ==
  ASSUME NEW i, NEW globals, IsSequence(globals), NEW locals, IsSequence(locals), NEW d
  PROVE  /\ \A q \in 1..SlotCount(i, globals, locals) :
               SlotType(i, globals, Append(locals, d), q) = SlotType(i, globals, locals, q)
         /\ SlotType(i, globals, Append(locals, d), SlotCount(i, globals, locals) + 1) = d.type
<1>1. /\ Len(globals) \in Nat /\ DOMAIN globals = 1..Len(globals)
      /\ Len(locals) \in Nat /\ DOMAIN locals = 1..Len(locals)
  BY Places
<1>2. /\ Append(locals, d)[Len(locals) + 1] = d
      /\ \A p \in 1..Len(locals) : Append(locals, d)[p] = locals[p]
  BY Appended
<1>3. ASSUME NEW q \in 1..SlotCount(i, globals, locals)
      PROVE  SlotType(i, globals, Append(locals, d), q) = SlotType(i, globals, locals, q)
  <2>1. CASE i # 1
    BY <1>1, <1>2, <2>1 DEF SlotType, SlotCount
  <2>2. CASE i = 1 /\ q <= Len(globals)
    BY <2>2 DEF SlotType
  <2>3. CASE i = 1 /\ ~(q <= Len(globals))
    <3>1. q - Len(globals) \in 1..Len(locals)
      BY <1>1, <2>3 DEF SlotCount
    <3> QED
      BY <1>2, <2>3, <3>1 DEF SlotType
  <2> QED
    BY <2>1, <2>2, <2>3
<1>4. SlotType(i, globals, Append(locals, d), SlotCount(i, globals, locals) + 1) = d.type
  <2>1. CASE i # 1
    BY <1>1, <1>2, <2>1 DEF SlotType, SlotCount
  <2>2. CASE i = 1
    <3>1. (Len(globals) + Len(locals) + 1) - Len(globals) = Len(locals) + 1
          /\ ~(Len(globals) + Len(locals) + 1 <= Len(globals))
      BY <1>1
    <3> QED
      BY <1>2, <2>2, <3>1 DEF SlotType, SlotCount
  <2> QED
    BY <2>1, <2>2
<1> QED
  BY <1>3, <1>4

\* or a global.
LEMMA GlobalSlotsKept ==
  ASSUME NEW globals, IsSequence(globals), NEW locals, NEW d
  PROVE  /\ \A q \in 1..Len(globals) :
               SlotType(1, Append(globals, d), locals, q) = SlotType(1, globals, locals, q)
         /\ SlotType(1, Append(globals, d), locals, Len(globals) + 1) = d.type
<1>1. /\ Len(globals) \in Nat /\ Len(Append(globals, d)) = Len(globals) + 1
      /\ Append(globals, d)[Len(globals) + 1] = d
      /\ \A p \in 1..Len(globals) : Append(globals, d)[p] = globals[p]
  BY Places, Appended
<1> QED
  BY <1>1 DEF SlotType

(***************************************************************************)
(* What is known of a program under compilation.  sigs has a signature for *)
(* every function that is declared; a function reads no global that was    *)
(* declared after it.                                                      *)
(***************************************************************************)
NativeTypes == [i \in DOMAIN Natives |-> [t |-> "NativeFunc", f |-> i]]

MainEnv(sigs, globals) ==
    [main |-> TRUE, ret |-> "None", entry |-> NativeTypes, globals |-> Kinds(globals), sigs |-> sigs]

FuncEnv(k, sigs, globals) ==
    [main |-> FALSE, ret |-> sigs[k].ret_type,
     entry |-> <<[t |-> "Function", f |-> k]>> \o ArgTypes(sigs[k].params),
     globals |-> Part(Kinds(globals), sigs[k].reach), sigs |-> Part(sigs, k)]

EnvOf(i, sigs, globals) ==
    IF i = 1 THEN MainEnv(sigs, globals) ELSE FuncEnv(Len(sigs), sigs, globals)

SigsOK(sigs, globals) ==
    /\ sigs \in Seq(Signature)
    /\ \A k \in DOMAIN sigs : sigs[k].reach <= Len(globals)
    /\ \A j, k \in DOMAIN sigs : j <= k => sigs[j].reach <= sigs[k].reach

GlobalsOK(sigs, globals) ==
    /\ \A g \in DOMAIN globals : DataOK(sigs, globals[g])
    /\ Len(Natives) <= Len(globals)
    /\ \A i \in DOMAIN Natives : globals[i].type = NativeTypes[i]

FrameAt(i, globals, gen, res) ==
    FrameOf(i, globals, res.local_bindings, Base(i = 1, gen.params) + gen.stack_size)

\* A function under compilation: the main script, or the function declared last.
TypedNow(i, sigs, globals, gen, res, visits) ==
    /\ TypedGen(EnvOf(i, sigs, globals), Base(i = 1, gen.params), FrameAt(i, globals, gen, res),
                gen, visits)
    /\ \A q \in DOMAIN res.local_bindings : DataOK(sigs, res.local_bindings[q])
    /\ i = 1 => /\ gen.ret_type = "None"
                /\ \A q \in DOMAIN res.local_bindings : res.local_bindings[q].depth # 0
    /\ i # 1 => /\ sigs # <<>> /\ gen.params = sigs[Len(sigs)].params
                /\ gen.ret_type = sigs[Len(sigs)].ret_type

TypedContext(i, sigs, globals, gen, res, visits) ==
    TypedNow(i, sigs, globals, gen, res, visits) /\ <<Len(gen.code), gen.stack_size>> \in gen.heights

\* A finished function.
TypedCode(e, f) ==
    \E S, T : Flow(e, f.constants, f.code, S, T) /\ HeightsHold(Base(e.main, f.params), f.heights, S, T)

TypedFunction(k, sigs, globals, f) ==
    /\ TypedCode(FuncEnv(k, sigs, globals), f)
    /\ f.params = sigs[k].params /\ f.ret_type = sigs[k].ret_type

\* The slot that waits for the function that is being compiled.
Pending(sigs) ==
    SlotType(1, global_bindings, contexts[1].res.local_bindings, Len(Natives) + contexts[1].gen.stack_size + 1)
        = [t |-> "Function", f |-> Len(sigs)]

TypingHolds(sigs) ==
    /\ SigsOK(sigs, global_bindings) /\ GlobalsOK(sigs, global_bindings)
    /\ Len(sigs) = Len(program) + Level - 1
    /\ \A k \in DOMAIN program : TypedFunction(k, sigs, global_bindings, program[k])
    /\ \A i \in DOMAIN contexts :
          TypedContext(i, sigs, global_bindings, contexts[i].gen, contexts[i].res, contexts[i].visits)
    /\ Level = 2 => sigs[Len(sigs)].reach = Len(global_bindings) /\ Pending(sigs)

(***************************************************************************)
(* Environments.                                                           *)
(***************************************************************************)
\* More globals, and more signatures, do not change the environment of a function.
Further(sigs, globals, sigs2, globals2) ==
    /\ sigs \in Seq(Signature) /\ sigs2 \in Seq(Signature) /\ Len(sigs) <= Len(sigs2)
    /\ \A k \in DOMAIN sigs : sigs2[k] = sigs[k]
    /\ IsSequence(globals) /\ IsSequence(globals2) /\ Len(globals) <= Len(globals2)
    /\ \A g \in DOMAIN globals : globals2[g] = globals[g]
    /\ \A k \in DOMAIN sigs : sigs[k].reach <= Len(globals)

\* A function that was compiled earlier knows what it knew.
LEMMA SameEnv ==
  ASSUME NEW sigs, NEW globals, NEW sigs2, NEW globals2, Further(sigs, globals, sigs2, globals2),
         NEW k \in DOMAIN sigs
  PROVE  FuncEnv(k, sigs2, globals2) = FuncEnv(k, sigs, globals)
<1> USE DEF Further
<1>1. /\ DOMAIN sigs = 1..Len(sigs) /\ Len(sigs) \in Nat /\ k \in 1..Len(sigs) /\ sigs[k] \in Signature
      /\ Len(globals) \in Nat /\ DOMAIN globals = 1..Len(globals)
      /\ Len(globals2) \in Nat /\ DOMAIN globals2 = 1..Len(globals2)
  BY LenProperties, ElementOfSeq, Places
<1>2. sigs[k].reach \in Nat /\ sigs[k].reach <= Len(globals) /\ sigs2[k] = sigs[k]
  BY <1>1 DEF Signature
<1>3. Part(sigs2, k) = Part(sigs, k)
  <2>1. \A j \in 1..k : sigs2[j] = sigs[j]
    BY <1>1
  <2> QED
    BY <2>1 DEF Part
<1>4. Part(Kinds(globals2), sigs[k].reach) = Part(Kinds(globals), sigs[k].reach)
  <2>1. \A g \in 1..sigs[k].reach : Kinds(globals2)[g] = Kinds(globals)[g]
    <3>1. \A g \in 1..sigs[k].reach :
             g \in DOMAIN globals /\ g \in DOMAIN globals2 /\ globals2[g] = globals[g]
      BY <1>1, <1>2
    <3> QED
      BY <3>1 DEF Kinds
  <2> QED
    BY <2>1 DEF Part
<1> QED
  BY <1>2, <1>3, <1>4 DEF FuncEnv

\* In the main script what was called can still be called.
LEMMA MoreEnv ==
  ASSUME NEW sigs, NEW globals, NEW sigs2, NEW globals2, Further(sigs, globals, sigs2, globals2),
         NEW cs, NEW op, NEW arg, NEW s, NEW t, Rule(MainEnv(sigs, globals), cs, op, arg, s, t)
  PROVE  Rule(MainEnv(sigs2, globals2), cs, op, arg, s, t)
<1> DEFINE e == MainEnv(sigs, globals)
           d == MainEnv(sigs2, globals2)
<1>1. /\ e.main /\ d.main /\ e.ret = d.ret /\ e.sigs = sigs /\ d.sigs = sigs2
      /\ e.globals = Kinds(globals) /\ d.globals = Kinds(globals2)
  BY DEF MainEnv
<1>2. \A f \in DOMAIN sigs : f \in DOMAIN sigs2 /\ sigs2[f] = sigs[f]
  <2>1. DOMAIN sigs = 1..Len(sigs) /\ DOMAIN sigs2 = 1..Len(sigs2) /\ Len(sigs) \in Nat /\ Len(sigs2) \in Nat
    BY LenProperties DEF Further
  <2> QED
    BY <2>1 DEF Further
<1>3. \A f \in DOMAIN sigs : \A g \in 1..sigs[f].reach : Kinds(globals2)[g] = Kinds(globals)[g]
  <2> SUFFICES ASSUME NEW f \in DOMAIN sigs, NEW g \in 1..sigs[f].reach
               PROVE  Kinds(globals2)[g] = Kinds(globals)[g]
    OBVIOUS
  <2>1. /\ Len(globals) \in Nat /\ DOMAIN globals = 1..Len(globals)
        /\ Len(globals2) \in Nat /\ DOMAIN globals2 = 1..Len(globals2)
    BY Places DEF Further
  <2>2. sigs[f] \in Signature
    BY ElementOfSeq, LenProperties DEF Further
  <2>3. sigs[f].reach \in Nat /\ sigs[f].reach <= Len(globals)
    BY <2>2 DEF Signature, Further
  <2>4. g \in DOMAIN globals /\ g \in DOMAIN globals2 /\ globals2[g] = globals[g]
    BY <2>1, <2>3 DEF Further
  <2> QED
    BY <2>4 DEF Kinds
<1> HIDE DEF e, d
<1>4. Rule(e, cs, op, arg, s, t)
  BY DEF e
<1>5. ASSUME NEW x, Pushes(e, cs, op, arg, s, x) PROVE Pushes(d, cs, op, arg, s, x)
  BY <1>1, <1>5 DEF Pushes, GlobalSlots
<1>6. ASSUME NEW x, Drops(e, op, x) PROVE Drops(d, op, x)
  BY <1>1, <1>6 DEF Drops
<1>7. ASSUME NEW x, Stores(e, op, arg, s, x) PROVE Stores(d, op, arg, s, x)
  BY <1>1, <1>7 DEF Stores, GlobalSlots
<1>8. ASSUME NEW u, NEW x, NEW args, NEW y, Answers(e, op, u, x, args, y) PROVE Answers(d, op, u, x, args, y)
  <2>1. CASE op = "CallUser"
    <3>1. /\ x.t = "Function" /\ x.f \in DOMAIN sigs
          /\ sigs[x.f].params = Variants(args)
          /\ y = Of(sigs[x.f].ret_type)
          /\ \A g \in 1..sigs[x.f].reach : g <= Len(u) /\ u[g] = Kinds(globals)[g]
      BY <1>1, <1>8, <2>1 DEF Answers
    <3>2. sigs2[x.f] = sigs[x.f] /\ x.f \in DOMAIN sigs2
      BY <1>2, <3>1
    <3>3. \A g \in 1..sigs2[x.f].reach : g <= Len(u) /\ u[g] = Kinds(globals2)[g]
      BY <1>3, <3>1, <3>2
    <3> QED
      BY <1>1, <2>1, <3>1, <3>2, <3>3 DEF Answers
  <2>2. CASE op # "CallUser"
    BY <1>8, <2>2 DEF Answers
  <2> QED
    BY <2>1, <2>2
<1>9. Rule(d, cs, op, arg, s, t)
  BY <1>4, <1>5, <1>6, <1>7, <1>8 DEF Rule
<1> QED
  BY <1>9 DEF d

\* So its flow is one in an environment with more.
LEMMA MoreFlow ==
  ASSUME NEW sigs, NEW globals, NEW sigs2, NEW globals2, Further(sigs, globals, sigs2, globals2),
         NEW cs, NEW code, NEW S, NEW T, Flow(MainEnv(sigs, globals), cs, code, S, T)
  PROVE  Flow(MainEnv(sigs2, globals2), cs, code, S, T)
<1>1. MainEnv(sigs2, globals2).entry = MainEnv(sigs, globals).entry
  BY DEF MainEnv
<1>2. \A ip \in S \ {Len(code)} :
         Rule(MainEnv(sigs2, globals2), cs, Decode(code[ip + 1]), ArgOf(code, ip), T[ip], T[NextOf(code, ip)])
  BY MoreEnv DEF Flow
<1> QED
  BY <1>1, <1>2 DEF Flow

\* What is typed stays so when functions and globals are added.
LEMMA MoreTyped ==
  ASSUME NEW sigs, NEW globals, NEW sigs2, NEW globals2, Further(sigs, globals, sigs2, globals2),
         NEW base, NEW frame, NEW gen, NEW visits, TypedGen(MainEnv(sigs, globals), base, frame, gen, visits)
  PROVE  TypedGen(MainEnv(sigs2, globals2), base, frame, gen, visits)
<1>1. PICK S, T : TypedAt(MainEnv(sigs, globals), base, frame, gen, visits, S, T)
  BY DEF TypedGen
<1>2. Flow(MainEnv(sigs2, globals2), gen.constants, gen.code, S, T)
  BY <1>1, MoreFlow DEF TypedAt
<1>3. TypedAt(MainEnv(sigs2, globals2), base, frame, gen, visits, S, T)
  BY <1>1, <1>2 DEF TypedAt
<1> QED
  BY <1>3 DEF TypedGen

\* Declarations stay as they are known.
LEMMA MoreData ==
  ASSUME NEW sigs, NEW globals, NEW sigs2, NEW globals2, Further(sigs, globals, sigs2, globals2),
         NEW d, DataOK(sigs, d)
  PROVE  DataOK(sigs2, d)
<1>1. DOMAIN sigs = 1..Len(sigs) /\ DOMAIN sigs2 = 1..Len(sigs2) /\ Len(sigs) \in Nat /\ Len(sigs2) \in Nat
  BY LenProperties DEF Further
<1>2. \A f \in DOMAIN sigs : f \in DOMAIN sigs2 /\ sigs2[f] = sigs[f]
  BY <1>1 DEF Further
<1> QED
  BY <1>2 DEF DataOK

(***************************************************************************)
(* What has gone wrong in a compilation stays recorded.                    *)
(***************************************************************************)
CleanGen(isMain, gen) ==
    ~gen.panicked /\ ~gen.leaky /\ ~gen.untyped /\ ~gen.misplaced /\ FitsIndex(isMain, gen)

\* So far nothing has; the slot of the function that is being compiled fits, too.
Clean ==
    /\ \A i \in DOMAIN contexts : CleanGen(i = 1, contexts[i].gen)
    /\ \A k \in DOMAIN program : Sound(program[k]) /\ FitsIndex(FALSE, program[k])
    /\ Level = 2 => Len(Natives) + contexts[1].gen.stack_size + 1 <= IndexWidth

\* What is recorded of the old generator is recorded of the new one.
Older(old, new) ==
    /\ ~new.panicked => ~old.panicked
    /\ ~new.leaky => ~old.leaky
    /\ ~new.untyped => ~old.untyped
    /\ ~new.misplaced => ~old.misplaced
    /\ old.heights \subseteq new.heights /\ new.params = old.params

\* What is clean now was clean before.
LEMMA OlderClean ==
  ASSUME NEW old, NEW new, Older(old, new), NEW isMain, CleanGen(isMain, new)
  PROVE  CleanGen(isMain, old)
BY DEF Older, CleanGen, FitsIndex

\* Of what the helpers leave.
Goes(old, new) == DOMAIN old = GenFields => DOMAIN new = GenFields /\ Older(old, new)

\* Two helpers one after the other.
LEMMA GoesTwice ==
  ASSUME NEW a, NEW b, NEW c, Goes(a, b), Goes(b, c)
  PROVE  Goes(a, c)
BY DEF Goes, Older

\* The helpers that write no operand of their own, and the marks of the model.
LEMMA HelpersGo ==
  ASSUME NEW gen, NEW x, NEW y, NEW z
  PROVE  /\ Goes(gen, gen)
         /\ Goes(gen, WriteByte(gen, x)) /\ Goes(gen, WriteInstr(gen, x)) /\ Goes(gen, WriteShort(gen, x))
         /\ Goes(gen, NewVar(gen)) /\ Goes(gen, PatchToNext(gen, x)) /\ Goes(gen, PatchJumpToNext(gen, x))
         /\ Goes(gen, BeginLoop(gen)) /\ Goes(gen, PopLocals(gen, x))
         /\ Goes(gen, Reads(gen, x)) /\ Goes(gen, Exits(gen, x, y, z)) /\ Goes(gen, Landed(gen, x))
         /\ Goes(gen, [gen EXCEPT !.leaky = @ \/ x]) /\ Goes(gen, [gen EXCEPT !.untyped = @ \/ x])
         /\ Goes(gen, [gen EXCEPT !.misplaced = @ \/ x]) /\ Goes(gen, [gen EXCEPT !.panicked = TRUE])
         /\ Goes(gen, [gen EXCEPT !.break_backlog = x]) /\ Goes(gen, [gen EXCEPT !.constants = x])
         /\ Goes(gen, [gen EXCEPT !.loop_starts = x, !.break_backlog = y])
BY DEF Goes, Older, GenFields, WriteByte, WriteInstr, WriteShort, NewVar, PatchToNext, PatchJumpToNext,
       BeginLoop, PopLocals, Reads, Exits, Landed

\* The helpers that write an instruction with its operand.
LEMMA WritersGo ==
  ASSUME NEW gen, NEW x, NEW y
  PROVE  /\ Goes(gen, WriteIndexed(gen, x, y)) /\ Goes(gen, WriteJump(gen, x))
         /\ Goes(gen, WriteJumpBack(gen, x)) /\ Goes(gen, NewConstant(gen, x))
         /\ Goes(gen, Coerce(gen, x, y)) /\ Goes(gen, EndLoop(gen))
<1>1. Goes(gen, WriteIndexed(gen, x, y))
  BY HelpersGo, GoesTwice DEF WriteIndexed
<1>2. Goes(gen, WriteJump(gen, x))
  BY HelpersGo, GoesTwice DEF WriteJump
<1>3. Goes(gen, WriteJumpBack(gen, x))
  <2>1. Goes(gen, WriteShort(WriteInstr(gen, "Jump"), x - (Here(gen) + 3)))
    BY HelpersGo, GoesTwice
  <2> QED
    BY <2>1, HelpersGo DEF WriteJumpBack
<1>4. Goes(gen, NewConstant(gen, x))
  <2>1. Goes(gen, [WriteByte(WriteInstr(gen, "Constant"), Len(gen.constants))
                     EXCEPT !.constants = Append(@, x)])
    BY HelpersGo, GoesTwice
  <2>2. Goes(gen, WriteByte(WriteInstr(gen, "LoadByte"), x.v % 256))
    BY HelpersGo, GoesTwice
  <2>3. Goes(gen, WriteInstr(gen, "True")) /\ Goes(gen, WriteInstr(gen, "False"))
        /\ Goes(gen, WriteInstr(gen, "None")) /\ Goes(gen, [gen EXCEPT !.panicked = TRUE])
    BY HelpersGo
  <2> QED
    BY <2>1, <2>2, <2>3 DEF NewConstant
<1>5. Goes(gen, Coerce(gen, x, y))
  BY HelpersGo DEF Coerce
<1>6. Goes(gen, EndLoop(gen))
  BY HelpersGo, GoesTwice DEF EndLoop
<1> QED
  BY <1>1, <1>2, <1>3, <1>4, <1>5, <1>6

\* The record of a boundary.
LEMMA BoundaryRecords ==
  ASSUME NEW gen, DOMAIN gen = GenFields, NEW sealed
  PROVE  LET new == Boundary(Seal(gen, sealed))
         IN /\ Older(gen, new) /\ new.params = gen.params /\ new.ret_type = gen.ret_type
            /\ new.stack_size = gen.stack_size /\ new.code = gen.code
            /\ <<Len(new.code), new.stack_size>> \in new.heights
BY DEF GenFields, Boundary, Seal, Older, Here

\* So what is clean has been clean.
LEMMA CleanBefore ==
  ASSUME IInv, LayoutInv, Compiling, UNCHANGED program, NEW gen, Goes(Gen, gen), NEW sealed,
         NEW res, NEW visits, Replaced(Seal(gen, sealed), res, visits), Clean'
  PROVE  Clean /\ CleanGen(Level = 1, Gen) /\ CleanGen(Level = 1, gen)
<1> DEFINE new == Boundary(Seal(gen, sealed))
           c == [gen |-> new, res |-> res, visits |-> visits]
<1>1. Level \in 1..2 /\ DOMAIN contexts = 1..Level /\ IsSequence(contexts) /\ Level \in DOMAIN contexts
  BY CurrentHeld
<1>2. contexts' = [contexts EXCEPT ![Level] = c] /\ c.gen = new
  BY DEF Replaced, Context
<1>3. DOMAIN gen = GenFields /\ Older(Gen, gen)
  BY CurrentHeld DEF IsGen, Goes
<1>4. Older(gen, new)
  BY <1>3, BoundaryRecords
<1> HIDE DEF c, new
<1>5. /\ contexts'[Level] = c /\ \A i \in DOMAIN contexts : i # Level => contexts'[i] = contexts[i]
      /\ DOMAIN contexts' = DOMAIN contexts /\ Len(contexts') = Len(contexts)
  BY <1>1, <1>2, ReplacedAt DEF Level
<1>6. CleanGen(Level = 1, new)
  BY <1>1, <1>2, <1>5 DEF Clean
<1>7. CleanGen(Level = 1, gen)
  BY <1>4, <1>6, OlderClean
<1>8. CleanGen(Level = 1, Gen)
  BY <1>3, <1>7, OlderClean
<1>9. \A i \in DOMAIN contexts : CleanGen(i = 1, contexts[i].gen)
  <2> SUFFICES ASSUME NEW i \in DOMAIN contexts PROVE CleanGen(i = 1, contexts[i].gen)
    OBVIOUS
  <2>1. CASE i = Level
    BY <1>8, <2>1 DEF Gen
  <2>2. CASE i # Level
    BY <1>5, <2>2 DEF Clean
  <2> QED
    BY <2>1, <2>2
<1>10. Level = 2 => Len(Natives) + contexts[1].gen.stack_size + 1 <= IndexWidth
  <2> SUFFICES ASSUME Level = 2 PROVE Len(Natives) + contexts[1].gen.stack_size + 1 <= IndexWidth
    OBVIOUS
  <2>1. contexts'[1] = contexts[1] /\ Level' = 2
    BY <1>1, <1>5 DEF Level
  <2> QED
    BY <2>1 DEF Clean
<1>11. \A k \in DOMAIN program : Sound(program[k]) /\ FitsIndex(FALSE, program[k])
  BY DEF Clean
<1> QED
  BY <1>7, <1>8, <1>9, <1>10, <1>11 DEF Clean

(***************************************************************************)
(* The function that is being compiled.                                    *)
(***************************************************************************)
\* The invariants with the types, sigs, of what has been clean so far.
Typable(sigs) == IInv /\ LayoutInv /\ (Clean => TypingHolds(sigs))

Env(sigs) == EnvOf(Level, sigs, global_bindings)
Below0 == Base(Level = 1, Gen.params)
TheFrame == FrameAt(Level, global_bindings, Gen, Res)
Declared == SlotCount(Level, global_bindings, Res.local_bindings)

\* Declarations whose data is well-formed have types.
LEMMA HasTypesOf ==
  ASSUME NEW sigs, NEW table, IsSequence(table), \A q \in DOMAIN table : DataOK(sigs, table[q])
  PROVE  HasTypes(table)
BY DEF HasTypes, DataOK

\* What is known of its environment.
LEMMA EnvFacts ==
  ASSUME NEW sigs, Typable(sigs), Compiling, Clean
  PROVE  /\ TypingHolds(sigs) /\ SigsOK(sigs, global_bindings) /\ GlobalsOK(sigs, global_bindings)
         /\ TypedContext(Level, sigs, global_bindings, Gen, Res, Visits)
         /\ Level \in 1..2 /\ Level \in DOMAIN contexts /\ Len(sigs) \in Nat /\ DOMAIN sigs = 1..Len(sigs)
         /\ Env(sigs).main <=> Level = 1
         /\ Env(sigs).sigs = sigs /\ Env(sigs).ret = Gen.ret_type
         /\ Level = 1 => Env(sigs).globals = Kinds(global_bindings)
         /\ Level = 2 => Env(sigs).globals = Part(Kinds(global_bindings), Len(global_bindings))
<1>1. TypingHolds(sigs) /\ SigsOK(sigs, global_bindings) /\ GlobalsOK(sigs, global_bindings)
  BY DEF Typable, TypingHolds
<1>2. Level \in 1..2 /\ Level \in DOMAIN contexts
  BY CurrentHeld DEF Typable
<1>3. TypedContext(Level, sigs, global_bindings, Gen, Res, Visits)
  BY <1>1, <1>2 DEF TypingHolds, Gen, Res, Visits
<1>4. Len(sigs) \in Nat /\ DOMAIN sigs = 1..Len(sigs)
  BY <1>1, LenProperties DEF SigsOK
<1>5. CASE Level = 1
  BY <1>1, <1>2, <1>3, <1>4, <1>5 DEF Env, EnvOf, MainEnv, TypedContext, TypedNow
<1>6. CASE Level = 2
  <2>1. Env(sigs) = FuncEnv(Len(sigs), sigs, global_bindings) /\ Level # 1
    BY <1>6 DEF Env, EnvOf
  <2>2. Part(sigs, Len(sigs)) = sigs
    BY <1>1, <1>4 DEF Part, SigsOK
  <2>3. sigs[Len(sigs)].reach = Len(global_bindings)
    BY <1>1, <1>6 DEF TypingHolds
  <2>4. sigs[Len(sigs)].ret_type = Gen.ret_type
    BY <1>3, <2>1 DEF TypedContext, TypedNow
  <2> QED
    BY <1>1, <1>2, <1>3, <1>4, <1>6, <2>1, <2>2, <2>3, <2>4 DEF FuncEnv
<1> QED
  BY <1>2, <1>5, <1>6

\* Its frame has a slot for everything that is declared.
LEMMA FrameOfCurrent ==
  ASSUME NEW sigs, Typable(sigs), Compiling, Clean
  PROVE  /\ TypedGen(Env(sigs), Below0, TheFrame, Gen, Visits)
         /\ TheFrame \in FrameTypes /\ Len(TheFrame) \in Nat /\ Below0 \in Nat /\ Gen.stack_size \in Nat
         /\ Len(TheFrame) = Below0 + Gen.stack_size /\ Len(TheFrame) = Declared
         /\ DOMAIN TheFrame = 1..Declared
         /\ \A q \in 1..Declared : TheFrame[q] = SlotType(Level, global_bindings, Res.local_bindings, q)
         /\ HasTypes(global_bindings) /\ HasTypes(Res.local_bindings)
         /\ Len(global_bindings) \in Nat /\ DOMAIN global_bindings = 1..Len(global_bindings)
         /\ Len(Res.local_bindings) \in Nat /\ DOMAIN Res.local_bindings = 1..Len(Res.local_bindings)
         /\ \A q \in DOMAIN Res.local_bindings : DataOK(sigs, Res.local_bindings[q])
         /\ \A q \in DOMAIN global_bindings : DataOK(sigs, global_bindings[q])
         /\ Res.is_global <=> Level = 1
         /\ Len(TheFrame) <= IndexWidth
<1>1. /\ TypedContext(Level, sigs, global_bindings, Gen, Res, Visits) /\ Level \in DOMAIN contexts
      /\ GlobalsOK(sigs, global_bindings)
  BY EnvFacts
<1>2. TypedGen(Env(sigs), Below0, TheFrame, Gen, Visits)
  BY <1>1 DEF TypedContext, TypedNow, Env, Below0, TheFrame
<1>3. /\ TheFrame \in FrameTypes /\ Len(TheFrame) \in Nat /\ Below0 \in Nat
      /\ Len(TheFrame) = Below0 + Gen.stack_size
  BY <1>2, TypedFrame
<1>4. Coherent(Len(program), Level, 0, Len(global_bindings), Gen, Res, Visits)
  BY CurrentCoherent DEF Typable, Compiling
<1>5. /\ IsTable(global_bindings) /\ IsTable(Res.local_bindings) /\ Gen.stack_size \in Nat
      /\ Res.is_global <=> Level = 1
  BY <1>4 DEF Coherent, IsContext, IsGen, IsResolver, Typable, IInv
<1>6. /\ Len(global_bindings) \in Nat /\ DOMAIN global_bindings = 1..Len(global_bindings)
      /\ Len(Res.local_bindings) \in Nat /\ DOMAIN Res.local_bindings = 1..Len(Res.local_bindings)
  BY <1>5, Places DEF IsTable
<1>7. /\ \A q \in DOMAIN Res.local_bindings : DataOK(sigs, Res.local_bindings[q])
      /\ \A q \in DOMAIN global_bindings : DataOK(sigs, global_bindings[q])
  BY <1>1 DEF TypedContext, TypedNow, GlobalsOK
<1>8. HasTypes(global_bindings) /\ HasTypes(Res.local_bindings)
  BY <1>5, <1>7, HasTypesOf DEF IsTable
<1>9. Len(TheFrame) = Declared /\ Declared \in Nat
  <2>1. Len(Res.local_bindings) = Below(Level, Gen, Len(global_bindings)) + 0 + Gen.stack_size
    BY <1>4 DEF Coherent, SlotsMatch
  <2>2. Below(Level, Gen, Len(global_bindings)) = Below0 - (IF Level = 1 THEN Len(global_bindings) ELSE 0)
    BY DEF Below, Below0
  <2>3. CASE Level = 1
    BY <1>3, <1>5, <1>6, <2>1, <2>2, <2>3 DEF Declared, SlotCount
  <2>4. CASE Level # 1
    BY <1>3, <1>5, <1>6, <2>1, <2>2, <2>4 DEF Declared, SlotCount
  <2> QED
    BY <2>3, <2>4
<1>10. /\ DOMAIN TheFrame = 1..Declared
       /\ \A q \in 1..Declared : TheFrame[q] = SlotType(Level, global_bindings, Res.local_bindings, q)
  <2>1. TheFrame = FrameOf(Level, global_bindings, Res.local_bindings, Declared)
    BY <1>3, <1>9 DEF TheFrame, FrameAt, Below0
  <2>2. Declared <= SlotCount(Level, global_bindings, Res.local_bindings)
    BY <1>9 DEF Declared
  <2>3. FrameIs(Level, global_bindings, Res.local_bindings, Declared)
    BY <1>8, <1>9, <2>2, FrameFacts
  <2> QED
    BY <2>1, <2>3 DEF FrameIs
<1>11. Len(TheFrame) <= IndexWidth
  <2>1. FitsIndex(Level = 1, Gen)
    BY <1>1 DEF Clean, CleanGen, Gen
  <2>2. \A h \in Gen.heights : Below0 + h[2] <= IndexWidth
    BY <2>1 DEF FitsIndex, Below0
  <2>3. <<Len(Gen.code), Gen.stack_size>> \in Gen.heights
    BY <1>1 DEF TypedContext
  <2>4. Below0 + <<Len(Gen.code), Gen.stack_size>>[2] <= IndexWidth
    BY <2>2, <2>3
  <2> QED
    BY <1>3, <2>4
<1> QED
  BY <1>2, <1>3, <1>5, <1>6, <1>7, <1>8, <1>9, <1>10, <1>11

(***************************************************************************)
(* What a statement leaves.                                                *)
(***************************************************************************)
\* The globals stay as they are, or there is one more.
Grows(sigs, globals, globals2) ==
    globals2 = globals \/ \E d : DataOK(sigs, d) /\ globals2 = Append(globals, d)

\* One more global is more of the same.
LEMMA GrowsFurther ==
  ASSUME NEW sigs, NEW globals, IsSequence(globals), SigsOK(sigs, globals), GlobalsOK(sigs, globals),
         NEW globals2, Grows(sigs, globals, globals2)
  PROVE  /\ Further(sigs, globals, sigs, globals2)
         /\ SigsOK(sigs, globals2) /\ GlobalsOK(sigs, globals2) /\ Len(globals) <= Len(globals2)
<1>1. Len(globals) \in Nat /\ DOMAIN globals = 1..Len(globals) /\ Len(sigs) \in Nat
      /\ DOMAIN sigs = 1..Len(sigs)
  BY Places, LenProperties DEF SigsOK
<1>2. \A k \in DOMAIN sigs : sigs[k].reach \in Nat /\ sigs[k].reach <= Len(globals)
  <2>1. \A k \in DOMAIN sigs : sigs[k] \in Signature
    BY <1>1, ElementOfSeq DEF SigsOK
  <2> QED
    BY <2>1 DEF Signature, SigsOK
<1>3. CASE globals2 = globals
  BY <1>1, <1>3 DEF Further, SigsOK
<1>4. CASE \E d : DataOK(sigs, d) /\ globals2 = Append(globals, d)
  <2>1. PICK d : DataOK(sigs, d) /\ globals2 = Append(globals, d)
    BY <1>4
  <2>2. /\ IsSequence(globals2) /\ Len(globals2) = Len(globals) + 1 /\ DOMAIN globals2 = 1..(Len(globals) + 1)
        /\ \A g \in 1..Len(globals) : globals2[g] = globals[g]
        /\ globals2[Len(globals) + 1] = d
    BY <2>1, Appended
  <2>3. Len(globals) <= Len(globals2)
    BY <1>1, <2>2
  <2>4. SigsOK(sigs, globals2)
    BY <1>1, <1>2, <2>2 DEF SigsOK
  <2>5. \A g \in DOMAIN globals2 : DataOK(sigs, globals2[g])
    <3> SUFFICES ASSUME NEW g \in DOMAIN globals2 PROVE DataOK(sigs, globals2[g])
      OBVIOUS
    <3>1. g \in 1..Len(globals) \/ g = Len(globals) + 1
      BY <1>1, <2>2
    <3> QED
      BY <1>1, <2>1, <2>2, <3>1 DEF GlobalsOK
  <2>6. \A i \in DOMAIN Natives : globals2[i].type = NativeTypes[i]
    <3>1. DOMAIN Natives = 1..Len(Natives) /\ Len(Natives) \in Nat
      BY RegistryAssumption, LenProperties
    <3>2. \A i \in DOMAIN Natives : i \in 1..Len(globals)
      BY <1>1, <3>1 DEF GlobalsOK
    <3> QED
      BY <2>2, <3>2 DEF GlobalsOK
  <2>7. Len(Natives) <= Len(globals2)
    <3>1. Len(Natives) \in Nat /\ Len(Natives) <= Len(globals)
      BY RegistryAssumption, LenProperties DEF GlobalsOK
    <3> QED
      BY <1>1, <2>2, <3>1
  <2>8. Further(sigs, globals, sigs, globals2)
    BY <1>1, <1>2, <2>2, <2>3 DEF Further, SigsOK
  <2> QED
    BY <2>3, <2>4, <2>5, <2>6, <2>7, <2>8 DEF GlobalsOK
<1> QED
  BY <1>3, <1>4 DEF Grows

\* Finished functions stay as they are known.
LEMMA MoreFunction ==
  ASSUME NEW sigs, NEW globals, NEW sigs2, NEW globals2, Further(sigs, globals, sigs2, globals2),
         NEW k \in DOMAIN sigs, NEW f, TypedFunction(k, sigs, globals, f)
  PROVE  TypedFunction(k, sigs2, globals2, f)
<1>1. FuncEnv(k, sigs2, globals2) = FuncEnv(k, sigs, globals)
  BY SameEnv
<1>2. sigs2[k] = sigs[k]
  BY DEF Further
<1> QED
  BY <1>1, <1>2 DEF TypedFunction

\* The records of a boundary are those of the frame that is there.
LEMMA ContextRecorded ==
  ASSUME NEW i, NEW sigs, NEW globals, NEW n, NEW gen, IsGen(n, gen), NEW sealed, NEW res, NEW visits,
         TypedNow(i, sigs, globals, gen, res, visits)
  PROVE  TypedContext(i, sigs, globals, Boundary(Seal(gen, sealed)), res, visits)
<1> DEFINE new == Boundary(Seal(gen, sealed))
<1>1. /\ new.params = gen.params /\ new.ret_type = gen.ret_type /\ new.stack_size = gen.stack_size
      /\ <<Len(new.code), new.stack_size>> \in new.heights
  BY BoundaryRecords DEF IsGen
<1>2. TypedGen(EnvOf(i, sigs, globals), Base(i = 1, gen.params), FrameAt(i, globals, gen, res), new, visits)
  BY TypedBoundary DEF TypedNow
<1> HIDE DEF new
<1>3. FrameAt(i, globals, new, res) = FrameAt(i, globals, gen, res)
  BY <1>1 DEF FrameAt
<1>4. TypedNow(i, sigs, globals, new, res, visits)
  BY <1>1, <1>2, <1>3 DEF TypedNow
<1> QED
  BY <1>1, <1>4 DEF TypedContext, new

\* A statement keeps what is known when what it leaves is typed.
LEMMA TypedReplaced ==
  ASSUME NEW sigs, Typable(sigs), Compiling, Clean, UNCHANGED program,
         NEW gen, IsGen(Len(program), gen), NEW sealed, NEW res, NEW visits,
         Replaced(Seal(gen, sealed), res, visits),
         Grows(sigs, global_bindings, global_bindings'),
         Level = 2 => global_bindings' = global_bindings,
         TypedNow(Level, sigs, global_bindings', gen, res, visits)
  PROVE  TypingHolds(sigs)'
<1> DEFINE c == [gen |-> Boundary(Seal(gen, sealed)), res |-> res, visits |-> visits]
<1>1. /\ Level \in 1..2 /\ DOMAIN contexts = 1..Level /\ IsSequence(contexts) /\ Level \in DOMAIN contexts
  BY CurrentHeld DEF Typable
<1>2. contexts' = [contexts EXCEPT ![Level] = c]
  BY DEF Replaced, Context
<1>3. TypedContext(Level, sigs, global_bindings', c.gen, c.res, c.visits)
  BY ContextRecorded
<1> HIDE DEF c
<1>4. /\ contexts'[Level] = c /\ \A i \in DOMAIN contexts : i # Level => contexts'[i] = contexts[i]
      /\ DOMAIN contexts' = DOMAIN contexts /\ Level' = Level
  BY <1>1, <1>2, ReplacedAt DEF Level
<1>5. /\ SigsOK(sigs, global_bindings) /\ GlobalsOK(sigs, global_bindings) /\ TypingHolds(sigs)
      /\ DOMAIN sigs = 1..Len(sigs) /\ Len(sigs) \in Nat
  BY EnvFacts
<1>6. IsSequence(global_bindings) /\ IsSequence(program)
  BY DEF Typable, IInv, IsTable
<1>7. /\ Further(sigs, global_bindings, sigs, global_bindings')
      /\ SigsOK(sigs, global_bindings') /\ GlobalsOK(sigs, global_bindings')
  BY <1>5, <1>6, GrowsFurther
<1>8. \A k \in DOMAIN program : TypedFunction(k, sigs, global_bindings', program[k])
  <2> SUFFICES ASSUME NEW k \in DOMAIN program PROVE TypedFunction(k, sigs, global_bindings', program[k])
    OBVIOUS
  <2>1. DOMAIN program = 1..Len(program) /\ Len(program) \in Nat
    BY <1>6, Places
  <2>2. k \in DOMAIN sigs
    BY <1>1, <1>5, <2>1 DEF TypingHolds
  <2>3. TypedFunction(k, sigs, global_bindings, program[k])
    BY <1>5 DEF TypingHolds
  <2> QED
    BY <1>7, <2>2, <2>3, MoreFunction
<1>9. ASSUME NEW i \in DOMAIN contexts'
      PROVE  TypedContext(i, sigs, global_bindings', contexts'[i].gen, contexts'[i].res, contexts'[i].visits)
  <2>1. CASE i = Level
    BY <1>3, <1>4, <2>1
  <2>2. CASE i # Level
    <3>1. Level = 2
      BY <1>1, <1>4, <2>2
    <3>2. global_bindings' = global_bindings /\ contexts'[i] = contexts[i] /\ i \in DOMAIN contexts
      BY <1>4, <2>2, <3>1
    <3> QED
      BY <1>5, <3>2 DEF TypingHolds
  <2> QED
    BY <2>1, <2>2
<1>10. ASSUME Level = 2 PROVE sigs[Len(sigs)].reach = Len(global_bindings') /\ Pending(sigs)'
  <2>1. contexts'[1] = contexts[1] /\ global_bindings' = global_bindings
    BY <1>1, <1>4, <1>10
  <2> QED
    BY <1>5, <1>10, <2>1 DEF TypingHolds, Pending
<1>11. Len(sigs) = Len(program') + Level' - 1
  BY <1>4, <1>5 DEF TypingHolds
<1>12. \A k \in DOMAIN program' : TypedFunction(k, sigs, global_bindings', program'[k])
  BY <1>8
<1> QED
  BY <1>4, <1>7, <1>9, <1>10, <1>11, <1>12 DEF TypingHolds

\* A statement that leaves the frame as it was.
LEMMA WritingTyped ==
  ASSUME NEW sigs, Typable(sigs), Compiling, UNCHANGED <<program, global_bindings>>, Clean',
         NEW gen, Goes(Gen, gen), NEW sealed, Replaced(Seal(gen, sealed), Res, Visits),
         Clean => Leads(Len(program), Env(sigs), Gen, gen, TheFrame, TheFrame)
  PROVE  TypingHolds(sigs)'
<1>1. Clean /\ CleanGen(Level = 1, gen)
  BY CleanBefore DEF Typable
<1>2. /\ KeepsPlaces(Gen, Visits) /\ IsGen(Len(program), Gen) /\ Visits \in Seq(OpenVisits)
  BY CurrentHeld DEF Typable
<1>3. TypedGen(Env(sigs), Below0, TheFrame, Gen, Visits)
  BY <1>1, FrameOfCurrent
<1>4. Leads(Len(program), Env(sigs), Gen, gen, TheFrame, TheFrame) /\ ~gen.panicked /\ ~gen.misplaced
  BY <1>1 DEF CleanGen
<1>5. TypedGen(Env(sigs), Below0, TheFrame, gen, Visits)
  BY <1>2, <1>3, <1>4, WriteTyped
<1>6. /\ gen.params = Gen.params /\ gen.ret_type = Gen.ret_type /\ gen.stack_size = Gen.stack_size
      /\ IsGen(Len(program), gen)
  BY <1>4 DEF Leads, LaysOut, Writes, SameBooks
<1>7. TypedNow(Level, sigs, global_bindings, Gen, Res, Visits)
  BY <1>1, EnvFacts DEF TypedContext
<1>8. TypedNow(Level, sigs, global_bindings, gen, Res, Visits)
  BY <1>5, <1>6, <1>7 DEF TypedNow, Env, Below0, TheFrame, FrameAt
<1> QED
  BY <1>1, <1>6, <1>8, TypedReplaced DEF Grows

\* The outermost scope of the main script has no locals.
LEMMA NoLocals ==
  ASSUME NEW sigs, Typable(sigs), Compiling, Clean, InGlobalScope(Res)
  PROVE  Level = 1 /\ Len(Res.local_bindings) = 0 /\ Len(TheFrame) = Len(global_bindings)
<1>1. Coherent(Len(program), Level, 0, Len(global_bindings), Gen, Res, Visits)
  BY CurrentCoherent DEF Typable, Compiling
<1>2. Level = 1
  BY <1>1 DEF Coherent, IsContext, InGlobalScope
<1>3. /\ Len(Res.local_bindings) \in Nat /\ DOMAIN Res.local_bindings = 1..Len(Res.local_bindings)
      /\ Len(TheFrame) = Declared /\ Len(global_bindings) \in Nat
  BY FrameOfCurrent
<1>4. \A q \in DOMAIN Res.local_bindings : Res.local_bindings[q].depth # 0
  BY <1>2, EnvFacts DEF TypedContext, TypedNow
<1>5. \A q \in DOMAIN Res.local_bindings :
         Res.local_bindings[q].depth <= 0 /\ Res.local_bindings[q].depth \in Nat
  <2>1. Len(Visits) = 0
    BY <1>1 DEF Coherent, SlotsMatch, InGlobalScope
  <2>2. \A q \in DOMAIN Res.local_bindings : Res.local_bindings[q].depth <= Len(Visits)
    BY <1>1 DEF Coherent, SlotsMatch, Layout
  <2>3. \A q \in DOMAIN Res.local_bindings : Res.local_bindings[q].depth \in Nat
    BY <1>1 DEF Coherent, IsContext, IsResolver, IsTable, IsDeclaration
  <2> QED
    BY <2>1, <2>2, <2>3
<1>6. ~(1 \in DOMAIN Res.local_bindings)
  BY <1>4, <1>5
<1>7. Len(Res.local_bindings) = 0
  BY <1>3, <1>6
<1> QED
  BY <1>2, <1>3, <1>7 DEF Declared, SlotCount

\* The frame has one more slot where a declaration is added, to the locals
LEMMA LocalFrame ==
  ASSUME NEW sigs, Typable(sigs), Compiling, Clean, NEW d, d.type \in StaticType,
         NEW res, res.local_bindings = Append(Res.local_bindings, d),
         NEW new, new.params = Gen.params, new.stack_size = Gen.stack_size + 1
  PROVE  FrameAt(Level, global_bindings, new, res) = Append(TheFrame, d.type)
<1> DEFINE locals == Res.local_bindings
           len == Len(TheFrame)
<1>1. /\ len \in Nat /\ len = Below0 + Gen.stack_size /\ len = Declared /\ Below0 \in Nat
            /\ Gen.stack_size \in Nat
      /\ HasTypes(global_bindings) /\ HasTypes(locals)
      /\ Len(global_bindings) \in Nat /\ Len(locals) \in Nat /\ DOMAIN locals = 1..Len(locals)
  BY FrameOfCurrent
<1>2. /\ len = SlotCount(Level, global_bindings, locals)
      /\ TheFrame = FrameOf(Level, global_bindings, locals, len)
      /\ FrameAt(Level, global_bindings, new, res)
            = FrameOf(Level, global_bindings, Append(locals, d), len + 1)
  <2>1. len = SlotCount(Level, global_bindings, locals)
    BY <1>1 DEF Declared
  <2>2. TheFrame = FrameOf(Level, global_bindings, locals, Below0 + Gen.stack_size)
    BY DEF TheFrame, FrameAt, Below0
  <2>3. FrameAt(Level, global_bindings, new, res)
          = FrameOf(Level, global_bindings, Append(locals, d), Below0 + (Gen.stack_size + 1))
    BY DEF FrameAt, Below0
  <2>4. Below0 + (Gen.stack_size + 1) = len + 1
    BY <1>1
  <2> QED
    BY <1>1, <2>1, <2>2, <2>3, <2>4
<1>3. /\ IsSequence(Append(locals, d)) /\ Len(Append(locals, d)) = Len(locals) + 1
      /\ DOMAIN Append(locals, d) = 1..(Len(locals) + 1)
      /\ \A i \in 1..Len(locals) : Append(locals, d)[i] = locals[i]
      /\ Append(locals, d)[Len(locals) + 1] = d
  BY <1>1, Appended DEF HasTypes
<1>4. HasTypes(Append(locals, d))
  <2> SUFFICES ASSUME NEW q \in 1..(Len(locals) + 1) PROVE Append(locals, d)[q].type \in StaticType
    BY <1>3 DEF HasTypes
  <2>1. q \in 1..Len(locals) \/ q = Len(locals) + 1
    BY <1>1
  <2> QED
    BY <1>1, <1>3, <2>1 DEF HasTypes
<1>5. len + 1 <= SlotCount(Level, global_bindings, Append(locals, d))
  <2>1. CASE Level = 1
    BY <1>1, <1>2, <1>3, <2>1 DEF SlotCount
  <2>2. CASE Level # 1
    BY <1>1, <1>2, <1>3, <2>2 DEF SlotCount
  <2> QED
    BY <2>1, <2>2
<1> HIDE DEF locals, len
<1>6. FrameOf(Level, global_bindings, Append(locals, d), len + 1)
        = Append(FrameOf(Level, global_bindings, Append(locals, d), len),
                 SlotType(Level, global_bindings, Append(locals, d), len + 1))
  BY <1>1, <1>4, <1>5, FrameMore
<1>7. /\ \A q \in 1..len : SlotType(Level, global_bindings, Append(locals, d), q)
                              = SlotType(Level, global_bindings, locals, q)
      /\ SlotType(Level, global_bindings, Append(locals, d), len + 1) = d.type
  BY <1>1, <1>2, LocalSlots DEF HasTypes
<1>8. FrameOf(Level, global_bindings, Append(locals, d), len) = FrameOf(Level, global_bindings, locals, len)
  BY <1>7 DEF FrameOf
<1> QED
  BY <1>2, <1>6, <1>7, <1>8

\* or to the globals.
LEMMA GlobalFrame ==
  ASSUME NEW sigs, Typable(sigs), Compiling, Clean, InGlobalScope(Res), NEW d, d.type \in StaticType,
         NEW new, new.params = Gen.params, new.stack_size = Gen.stack_size + 1
  PROVE  FrameAt(Level, Append(global_bindings, d), new, Res) = Append(TheFrame, d.type)
<1> DEFINE globals == global_bindings
           locals == Res.local_bindings
           len == Len(TheFrame)
           more == Append(globals, d)
<1>1. /\ len \in Nat /\ len = Below0 + Gen.stack_size /\ Below0 \in Nat /\ Gen.stack_size \in Nat
      /\ HasTypes(globals) /\ HasTypes(locals)
      /\ Len(globals) \in Nat /\ Len(locals) \in Nat /\ DOMAIN globals = 1..Len(globals)
  BY FrameOfCurrent
<1>2. Level = 1 /\ Len(locals) = 0 /\ len = Len(globals)
  BY NoLocals
<1>3. /\ TheFrame = FrameOf(1, globals, locals, len)
      /\ FrameAt(Level, more, new, Res) = FrameOf(1, more, locals, len + 1)
  BY <1>1, <1>2 DEF TheFrame, FrameAt, Below0
<1>4. /\ IsSequence(more) /\ Len(more) = Len(globals) + 1
      /\ DOMAIN more = 1..(Len(globals) + 1)
      /\ \A i \in 1..Len(globals) : more[i] = globals[i]
      /\ more[Len(globals) + 1] = d
  BY <1>1, Appended DEF HasTypes
<1>5. HasTypes(more)
  <2> SUFFICES ASSUME NEW q \in 1..(Len(globals) + 1) PROVE more[q].type \in StaticType
    BY <1>4 DEF HasTypes
  <2>1. q \in 1..Len(globals) \/ q = Len(globals) + 1
    BY <1>1
  <2> QED
    BY <1>1, <1>4, <2>1 DEF HasTypes
<1>6. len + 1 <= SlotCount(1, more, locals)
  BY <1>1, <1>2, <1>4 DEF SlotCount
<1> HIDE DEF locals, len, globals, more
<1>7. FrameOf(1, more, locals, len + 1)
        = Append(FrameOf(1, more, locals, len), SlotType(1, more, locals, len + 1))
  BY <1>1, <1>5, <1>6, FrameMore
<1>8. /\ \A q \in 1..len : SlotType(1, more, locals, q) = SlotType(1, globals, locals, q)
      /\ SlotType(1, more, locals, len + 1) = d.type
  BY <1>1, <1>2, GlobalSlotsKept DEF HasTypes, more
<1>9. FrameOf(1, more, locals, len) = FrameOf(1, globals, locals, len)
  BY <1>8 DEF FrameOf
<1> QED
  BY <1>3, <1>7, <1>8, <1>9 DEF more, globals

\* A statement that declares what it leaves on top of the frame.
LEMMA DeclaringTyped ==
  ASSUME NEW sigs, Typable(sigs), Compiling, UNCHANGED program, Clean',
         NEW gen, Goes(Gen, gen), NEW d, IsDeclaration(d), Declare(gen, d),
         Clean => /\ DataOK(sigs, d)
                  /\ Leads(Len(program), Env(sigs), Gen, gen, TheFrame, Append(TheFrame, d.type))
  PROVE  TypingHolds(sigs)'
<1> DEFINE new == NewVar(gen)
           res == DeclareLocal(Res, d)
           frame == Append(TheFrame, d.type)
<1>1. Replaced(Seal(new, FALSE), res, Visits) /\ global_bindings' = DeclareGlobal(Res, global_bindings, d)
  BY DEF Declare, Put
<1>2. Goes(Gen, new)
  BY HelpersGo, GoesTwice
<1>3. Clean /\ CleanGen(Level = 1, new)
  BY <1>1, <1>2, CleanBefore DEF Typable
<1>4. /\ KeepsPlaces(Gen, Visits) /\ IsGen(Len(program), Gen) /\ Visits \in Seq(OpenVisits) /\ Level \in 1..2
      /\ IsResolver(Res)
  BY CurrentHeld DEF Typable
<1>5. /\ TypedGen(Env(sigs), Below0, TheFrame, Gen, Visits) /\ (Res.is_global <=> Level = 1)
      /\ \A q \in DOMAIN Res.local_bindings : DataOK(sigs, Res.local_bindings[q])
      /\ HasTypes(Res.local_bindings)
  BY <1>3, FrameOfCurrent
<1>6. DataOK(sigs, d) /\ Leads(Len(program), Env(sigs), Gen, gen, TheFrame, frame) /\ d.type \in StaticType
  BY <1>3 DEF DataOK
<1>7. IsGen(Len(program), gen) /\ gen.params = Gen.params /\ gen.ret_type = Gen.ret_type
      /\ gen.stack_size = Gen.stack_size
  BY <1>6 DEF Leads, LaysOut, Writes, SameBooks
<1>8. /\ new.panicked = gen.panicked /\ new.misplaced = gen.misplaced
      /\ new.params = Gen.params /\ new.ret_type = Gen.ret_type /\ new.stack_size = Gen.stack_size + 1
      /\ IsGen(Len(program), new)
  BY <1>7, NewVarEffect DEF IsGen, GenFields, NewVar
<1>9. TypedGen(Env(sigs), Below0, frame, new, Visits)
  <2>1. ~gen.panicked /\ ~gen.misplaced
    BY <1>3, <1>8 DEF CleanGen
  <2> QED
    BY <1>4, <1>5, <1>6, <2>1, DeclareTyped
<1>10. TypedNow(Level, sigs, global_bindings, Gen, Res, Visits)
  BY <1>3, EnvFacts DEF TypedContext
<1>11. /\ InGlobalScope(Res) =>
             /\ DeclareLocal(Res, d) = Res
             /\ DeclareGlobal(Res, global_bindings, d) = Append(global_bindings, d)
       /\ ~InGlobalScope(Res) =>
             /\ DeclareGlobal(Res, global_bindings, d) = global_bindings
             /\ DeclareLocal(Res, d).local_bindings
                   = Append(Res.local_bindings, [d EXCEPT !.depth = Res.depth])
  BY <1>4 DEF DeclareLocal, DeclareGlobal, IsResolver
<1> HIDE DEF new, frame, res
<1>12. CASE InGlobalScope(Res)
  <2>1. res = Res /\ global_bindings' = Append(global_bindings, d) /\ Level = 1
    BY <1>1, <1>3, <1>12, <1>11, NoLocals DEF res
  <2>2. Grows(sigs, global_bindings, global_bindings')
    BY <1>6, <2>1 DEF Grows
  <2>3. Further(sigs, global_bindings, sigs, global_bindings')
    BY <1>3, <2>2, GrowsFurther, EnvFacts, FrameOfCurrent DEF HasTypes
  <2>4. TypedGen(MainEnv(sigs, global_bindings'), Below0, frame, new, Visits)
    BY <1>9, <2>1, <2>3, MoreTyped DEF Env, EnvOf
  <2>5. FrameAt(Level, global_bindings', new, Res) = frame
    BY <1>3, <1>6, <1>8, <1>12, <2>1, GlobalFrame DEF frame
  <2>6. TypedNow(Level, sigs, global_bindings', new, Res, Visits)
    BY <1>8, <1>10, <2>1, <2>4, <2>5 DEF TypedNow, EnvOf, Below0
  <2>7. Replaced(Seal(new, FALSE), Res, Visits)
    BY <1>1, <2>1
  <2>8. Level = 2 => global_bindings' = global_bindings
    BY <2>1
  <2> QED
    BY <1>3, <1>8, <2>2, <2>6, <2>7, <2>8, TypedReplaced
<1>13. CASE ~InGlobalScope(Res)
  <2> DEFINE x == [d EXCEPT !.depth = Res.depth]
  <2>1. x.type = d.type /\ x.params = d.params /\ x.ret_type = d.ret_type /\ x.depth = Res.depth
    BY DEF IsDeclaration
  <2>2. DataOK(sigs, x)
    BY <1>6, <2>1 DEF DataOK
  <2> HIDE DEF x
  <2>3. res.local_bindings = Append(Res.local_bindings, x) /\ global_bindings' = global_bindings
    BY <1>1, <1>13, <1>11 DEF x, res
  <2>4. FrameAt(Level, global_bindings, new, res) = frame
    BY <1>3, <1>6, <1>8, <2>1, <2>3, LocalFrame DEF frame
  <2>5. /\ DOMAIN res.local_bindings = 1..(Len(Res.local_bindings) + 1)
        /\ \A q \in 1..Len(Res.local_bindings) : res.local_bindings[q] = Res.local_bindings[q]
        /\ res.local_bindings[Len(Res.local_bindings) + 1] = x
        /\ DOMAIN Res.local_bindings = 1..Len(Res.local_bindings) /\ Len(Res.local_bindings) \in Nat
    BY <1>5, <2>3, Appended, Places DEF HasTypes
  <2>6. \A q \in DOMAIN res.local_bindings :
           \/ q \in DOMAIN Res.local_bindings /\ res.local_bindings[q] = Res.local_bindings[q]
           \/ res.local_bindings[q] = x
    BY <2>5
  <2>7. \A q \in DOMAIN res.local_bindings : DataOK(sigs, res.local_bindings[q])
    BY <1>5, <2>2, <2>6
  <2>8. Level = 1 => \A q \in DOMAIN res.local_bindings : res.local_bindings[q].depth # 0
    <3>1. Level = 1 => Res.depth # 0
      BY <1>5, <1>13 DEF InGlobalScope
    <3> QED
      BY <1>10, <2>1, <2>6, <3>1 DEF TypedNow
  <2>9. TypedNow(Level, sigs, global_bindings, new, res, Visits)
    BY <1>8, <1>9, <1>10, <2>4, <2>7, <2>8 DEF TypedNow, Env, Below0
  <2> QED
    BY <1>1, <1>3, <1>8, <2>3, <2>9, TypedReplaced DEF Grows
<1> QED
  BY <1>12, <1>13

\* Code for expressions.
LEMMA CodersGo ==
  ASSUME NEW gen, NEW b, NEW x
  PROVE  /\ Goes(gen, CodeLoad(gen, b)) /\ Goes(gen, CodeStore(gen, b)) /\ Goes(gen, CodeLiteral(gen, x))
         /\ Goes(gen, ExpressionStmt(gen)) /\ Goes(gen, Condition(gen)) /\ Goes(gen, Argument(gen, b, x))
         /\ Goes(gen, LoadCallee(gen, b))
<1>1. /\ \A g, op, i : Goes(g, WriteIndexed(g, op, i))
      /\ \A g, v : Goes(g, NewConstant(g, v))
      /\ \A g, old, new : Goes(g, Coerce(g, old, new))
      /\ \A g, op : Goes(g, WriteInstr(g, op))
  BY HelpersGo, WritersGo
<1>2. \A g : Goes(g, CodeLoad(g, b)) /\ Goes(g, CodeStore(g, b))
  BY <1>1 DEF CodeLoad, CodeStore
<1>3. \A v : Goes(gen, CodeLiteral(gen, v))
  BY <1>1 DEF CodeLiteral
<1>4. Goes(gen, ExpressionStmt(gen)) /\ Goes(gen, Condition(gen))
  BY <1>1 DEF ExpressionStmt, Condition
<1>5. Goes(gen, Argument(gen, b, x))
  <2> DEFINE literal == CodeLiteral(gen, Literal(b, x))
  <2>1. Goes(gen, literal)
    BY <1>3
  <2>2. Goes(literal, Coerce(literal, "Int", b.data.params[x]))
    BY <1>1
  <2>3. Argument(gen, b, x) = Coerce(literal, "Int", b.data.params[x])
    BY DEF Argument
  <2> HIDE DEF literal
  <2> QED
    BY <2>1, <2>2, <2>3, GoesTwice
<1>6. Goes(gen, LoadCallee(gen, b))
  <2> DEFINE marked == [gen EXCEPT !.misplaced = @ \/ Misplaced(b)]
  <2>1. Goes(gen, marked)
    BY HelpersGo
  <2>2. Goes(marked, CodeLoad(marked, b))
    BY <1>2
  <2>3. LoadCallee(gen, b) = CodeLoad(marked, b)
    BY DEF LoadCallee
  <2> HIDE DEF marked
  <2> QED
    BY <2>1, <2>2, <2>3, GoesTwice
<1> QED
  BY <1>2, <1>3, <1>4, <1>5, <1>6

\* So does a call.
LEMMA CallsGo ==
  ASSUME NEW gen, NEW b
  PROVE  Goes(gen, CallWith(gen, b))
<1> DEFINE n == Len(b.data.params)
           loaded == LoadCallee(gen, b)
           first == IF n >= 1 THEN Argument(loaded, b, 1) ELSE loaded
           called == IF n >= 2 THEN Argument(first, b, 2) ELSE first
           op == IF b.data.type.t = "NativeFunc" THEN "CallNative" ELSE "CallUser"
<1>1. CallWith(gen, b) = WriteIndexed(called, op, n)
  BY DEF CallWith
<1>2. Goes(gen, loaded)
  BY CodersGo
<1>3. Goes(loaded, first)
  BY CodersGo, HelpersGo
<1> HIDE DEF loaded
<1>4. Goes(first, called)
  BY CodersGo, HelpersGo
<1> HIDE DEF first
<1>5. Goes(called, WriteIndexed(called, op, n))
  BY WritersGo
<1> HIDE DEF called
<1>6. Goes(gen, first)
  BY <1>2, <1>3, GoesTwice
<1>7. Goes(gen, called)
  BY <1>4, <1>6, GoesTwice
<1> QED
  BY <1>1, <1>5, <1>7, GoesTwice

(***************************************************************************)
(* What a name is bound to has the type of its declaration.                *)
(***************************************************************************)
Found(b) ==
    \/ /\ b.space = "Stack"
       /\ \E q \in DOMAIN Res.local_bindings :
             /\ b.data = Res.local_bindings[q]
             /\ b.slot = q - 1 + (IF Res.is_global THEN Len(global_bindings) ELSE 0)
    \/ /\ b.space = "Globals"
       /\ \E q \in DOMAIN global_bindings : b.data = global_bindings[q] /\ b.slot = q - 1

\* What a name is resolved to is a declaration of one of the tables.
LEMMA IdentifierFound ==
  ASSUME NEW name, NEW b, b \in GetIdentifier(Res, global_bindings, name)
  PROVE  Found(b)
<1>1. \A table : LastNamed(table, name) \subseteq DOMAIN table
  BY DEF LastNamed
<1> QED
  BY <1>1 DEF GetIdentifier, Binding, Found

\* All declarations, as bindings.
BindingRow(space, table) == [i \in DOMAIN table |-> Binding(space, i - 1, table[i])]

\* It has one binding per declaration.
LEMMA RowOfBindings ==
  ASSUME NEW table, IsSequence(table), NEW space
  PROVE  /\ Len(table) \in Nat /\ DOMAIN table = 1..Len(table)
         /\ BindingRow(space, table) \in Seq(Range(BindingRow(space, table)))
         /\ Len(BindingRow(space, table)) = Len(table)
         /\ \A q \in 1..Len(table) : BindingRow(space, table)[q] = Binding(space, q - 1, table[q])
<1> DEFINE row == BindingRow(space, table)
<1>1. Len(table) \in Nat /\ DOMAIN table = 1..Len(table)
  BY Places
<1>2. DOMAIN row = 1..Len(table) /\ \A q \in 1..Len(table) : row[q] = Binding(space, q - 1, table[q])
  BY <1>1 DEF BindingRow
<1>3. row \in [1..Len(table) -> Range(row)]
  <2>1. row = [q \in DOMAIN table |-> row[q]]
    BY DEF BindingRow
  <2> QED
    BY <1>1, <2>1 DEF Range
<1>4. row \in Seq(Range(row))
  <2> HIDE DEF row
  <2> QED
    BY <1>1, <1>3, SeqDef
<1>5. Len(row) = Len(table)
  <2> HIDE DEF row
  <2> QED
    BY <1>1, <1>2, <1>4, LenProperties
<1> QED
  BY <1>1, <1>2, <1>4, <1>5

\* Each element of two such rows is a binding of one of the two tables.
LEMMA AllFound ==
  ASSUME NEW locals, IsSequence(locals), NEW globals, IsSequence(globals)
  PROVE  LET all == BindingRow("Stack", locals) \o BindingRow("Globals", globals)
         IN \A k \in DOMAIN all :
              \/ \E q \in DOMAIN locals : all[k] = Binding("Stack", q - 1, locals[q])
              \/ \E q \in DOMAIN globals : all[k] = Binding("Globals", q - 1, globals[q])
<1> DEFINE above == BindingRow("Stack", locals)
           below == BindingRow("Globals", globals)
           B == Range(above) \cup Range(below)
<1>1. /\ Len(locals) \in Nat /\ DOMAIN locals = 1..Len(locals)
      /\ above \in Seq(Range(above)) /\ Len(above) = Len(locals)
      /\ \A q \in 1..Len(locals) : above[q] = Binding("Stack", q - 1, locals[q])
  BY RowOfBindings
<1>2. /\ Len(globals) \in Nat /\ DOMAIN globals = 1..Len(globals)
      /\ below \in Seq(Range(below)) /\ Len(below) = Len(globals)
      /\ \A q \in 1..Len(globals) : below[q] = Binding("Globals", q - 1, globals[q])
  BY RowOfBindings
<1> HIDE DEF above, below
<1>3. above \in Seq(B) /\ below \in Seq(B)
  BY <1>1, <1>2, SeqMonotonic
<1> HIDE DEF B
<1>4. /\ DOMAIN (above \o below) = 1..(Len(locals) + Len(globals))
      /\ \A k \in 1..(Len(locals) + Len(globals)) :
            (above \o below)[k] = IF k <= Len(locals) THEN above[k] ELSE below[k - Len(locals)]
  <2>1. /\ Len(above \o below) = Len(above) + Len(below) /\ above \o below \in Seq(B)
        /\ \A k \in 1..(Len(above) + Len(below)) :
              (above \o below)[k] = IF k <= Len(above) THEN above[k] ELSE below[k - Len(above)]
    BY <1>3, ConcatProperties
  <2>2. DOMAIN (above \o below) = 1..Len(above \o below)
    BY <2>1, LenProperties
  <2> QED
    BY <1>1, <1>2, <2>1, <2>2
<1>5. ASSUME NEW k \in 1..(Len(locals) + Len(globals))
      PROVE  \/ \E q \in DOMAIN locals : (above \o below)[k] = Binding("Stack", q - 1, locals[q])
             \/ \E q \in DOMAIN globals : (above \o below)[k] = Binding("Globals", q - 1, globals[q])
  <2>1. CASE k <= Len(locals)
    <3>1. k \in 1..Len(locals)
      BY <1>1, <2>1
    <3> QED
      BY <1>1, <1>4, <2>1, <3>1
  <2>2. CASE ~(k <= Len(locals))
    <3>1. k - Len(locals) \in 1..Len(globals)
      BY <1>1, <1>2, <2>2
    <3> QED
      BY <1>2, <1>4, <2>2, <3>1
  <2> QED
    BY <2>1, <2>2
<1> QED
  BY <1>4, <1>5 DEF above, below

\* What get_all_identifiers() returns is two such rows.
LEMMA Identifiers ==
  ASSUME NEW globals, NEW res
  PROVE  GetAllIdentifiers(res, globals)
           = BindingRow("Stack", res.local_bindings) \o BindingRow("Globals", globals)
BY DEF GetAllIdentifiers, BindingRow

\* A callee is one of all identifiers, callable, and of as many parameters as there
\* are arguments.
LEMMA CalleeChosen ==
  ASSUME NEW res, NEW globals, NEW name, NEW args, NEW b, b \in ResolveCall(res, globals, name, args)
  PROVE  \E k \in DOMAIN GetAllIdentifiers(res, globals) :
            /\ b = GetAllIdentifiers(res, globals)[k]
            /\ b.data.type.t \in {"Function", "NativeFunc"}
            /\ b.data.params = args \/ Len(b.data.params) = Len(args)
BY DEF ResolveCall

\* What a call may choose: a declaration at its place in its own table.
Among(res, globals, b) ==
    \/ \E q \in DOMAIN res.local_bindings : b = Binding("Stack", q - 1, res.local_bindings[q])
    \/ \E q \in DOMAIN globals : b = Binding("Globals", q - 1, globals[q])

\* So it is a declaration of one of the tables.
LEMMA CalleeAmong ==
  ASSUME NEW res, NEW globals, IsSequence(res.local_bindings), IsSequence(globals),
         NEW name, NEW args, NEW b, b \in ResolveCall(res, globals, name, args)
  PROVE  Among(res, globals, b)
<1>1. PICK k \in DOMAIN GetAllIdentifiers(res, globals) : b = GetAllIdentifiers(res, globals)[k]
  BY CalleeChosen
<1>2. GetAllIdentifiers(res, globals)
        = BindingRow("Stack", res.local_bindings) \o BindingRow("Globals", globals)
  BY Identifiers
<1> QED
  BY <1>1, <1>2, AllFound DEF Among

\* A callable of as many parameters as there are arguments.
CalledWith(c, args) == c.data.type.t \in {"Function", "NativeFunc"} /\ Len(c.data.params) = Len(args)

\* Of the current function's tables.
LEMMA CalleeOfCall ==
  ASSUME IInv, phase = "compile", NEW n, NEW args,
         NEW c, c \in ResolveCall(Res, global_bindings, n, args)
  PROVE  /\ CalledWith(c, args)
         /\ Among(Res, global_bindings, c)
<1>1. IsSequence(Res.local_bindings) /\ IsSequence(global_bindings)
  BY CurrentBindings DEF IsResolver, IsTable
<1>2. CalledWith(c, args)
  BY CurrentBindings, CalleeChosen DEF CalledWith
<1>3. Among(Res, global_bindings, c)
  BY <1>1, CalleeAmong
<1> QED
  BY <1>2, <1>3

\* Its slot is its own unless it does not count the globals.
LEMMA AmongFound ==
  ASSUME NEW c, Among(Res, global_bindings, c), IsSequence(Res.local_bindings)
  PROVE  ~Misplaced(c) => Found(c)
<1>1. ASSUME ~Misplaced(c) PROVE Found(c)
  <2>1. CASE \E q \in DOMAIN Res.local_bindings : c = Binding("Stack", q - 1, Res.local_bindings[q])
    <3>1. PICK q \in DOMAIN Res.local_bindings : c = Binding("Stack", q - 1, Res.local_bindings[q])
      BY <2>1
    <3>2. c.space = "Stack" /\ c.slot = q - 1 /\ c.data = Res.local_bindings[q]
      BY <3>1 DEF Binding
    <3>3. ~Res.is_global
      BY <3>2, <1>1 DEF Misplaced
    <3>4. q - 1 = q - 1 + 0
      BY Places
    <3> QED
      BY <3>2, <3>3, <3>4 DEF Found
  <2>2. CASE \E q \in DOMAIN global_bindings : c = Binding("Globals", q - 1, global_bindings[q])
    BY <2>2 DEF Found, Binding
  <2> QED
    BY <2>1, <2>2 DEF Among
<1> QED
  BY <1>1

\* The slots of the globals fit an operand.
LEMMA GlobalsFit ==
  ASSUME NEW sigs, Typable(sigs), Compiling, Clean
  PROVE  Len(global_bindings) <= IndexWidth /\ IndexWidth \in Nat
<1>1. /\ Len(global_bindings) \in Nat /\ Len(Res.local_bindings) \in Nat
      /\ Len(TheFrame) = Declared /\ Len(TheFrame) <= IndexWidth /\ IndexWidth \in Nat
  BY FrameOfCurrent, EmitAssumption
<1>2. Level \in 1..2 /\ DOMAIN contexts = 1..Level
  BY CurrentHeld DEF Typable
<1>3. CASE Level = 1
  BY <1>1, <1>3 DEF Declared, SlotCount
<1>4. CASE Level = 2
  <2> DEFINE c == contexts[1]
  <2>1. Len(Natives) + c.gen.stack_size + 1 <= IndexWidth
    BY <1>4 DEF Clean
  <2>2. Coherent(Len(program), 1, 1, Len(global_bindings), c.gen, c.res, c.visits)
    BY <1>2, <1>4 DEF Typable, IInv, Compiled, Compiling, Level
  <2>3. Len(c.res.local_bindings) = Below(1, c.gen, Len(global_bindings)) + 1 + c.gen.stack_size
    BY <2>2 DEF Coherent, SlotsMatch
  <2>4. Below(1, c.gen, Len(global_bindings)) = Len(Natives) - Len(global_bindings)
    BY DEF Below, Base
  <2>5. Len(c.res.local_bindings) \in Nat /\ c.gen.stack_size \in Nat /\ Len(Natives) \in Nat
    BY <2>2, Places, RegistryAssumption, LenProperties DEF Coherent, IsContext, IsResolver, IsTable, IsGen
  <2> HIDE DEF c
  <2> QED
    BY <1>1, <2>1, <2>3, <2>4, <2>5
<1> QED
  BY <1>1, <1>2, <1>3, <1>4

\* What a name is bound to is in the frame, with the type of its declaration.
LEMMA FoundBound ==
  ASSUME NEW sigs, Typable(sigs), Compiling, Clean, NEW b, Found(b)
  PROVE  Bound(Env(sigs), TheFrame, b) /\ DataOK(sigs, b.data)
<1> DEFINE globals == global_bindings
           locals == Res.local_bindings
<1>1. /\ Len(globals) \in Nat /\ DOMAIN globals = 1..Len(globals)
      /\ Len(locals) \in Nat /\ DOMAIN locals = 1..Len(locals)
      /\ \A q \in DOMAIN locals : DataOK(sigs, locals[q])
      /\ \A q \in DOMAIN globals : DataOK(sigs, globals[q])
      /\ DOMAIN TheFrame = 1..Declared /\ Declared = Len(TheFrame) /\ Declared <= IndexWidth
      /\ \A q \in 1..Declared : TheFrame[q] = SlotType(Level, globals, locals, q)
      /\ Res.is_global <=> Level = 1
      /\ IndexWidth \in Nat /\ Len(globals) <= IndexWidth
  BY FrameOfCurrent, GlobalsFit
<1>2. Level \in 1..2
  BY EnvFacts
<1>3. CASE /\ b.space = "Stack"
           /\ \E q \in DOMAIN locals : /\ b.data = locals[q]
                                       /\ b.slot = q - 1 + (IF Res.is_global THEN Len(globals) ELSE 0)
  <2>1. PICK q \in DOMAIN locals : /\ b.data = locals[q]
                                   /\ b.slot = q - 1 + (IF Res.is_global THEN Len(globals) ELSE 0)
    BY <1>3
  <2>2. SlotsOf(Env(sigs), TheFrame, b) = TheFrame
    BY <1>3 DEF SlotsOf
  <2>3. CASE Level = 1
    <3>1. /\ b.slot = q - 1 + Len(globals) /\ q \in 1..Len(locals)
          /\ Declared = Len(globals) + Len(locals)
      BY <1>1, <2>1, <2>3 DEF Declared, SlotCount
    <3>2. ~(b.slot + 1 <= Len(globals)) /\ (b.slot + 1) - Len(globals) = q
      BY <1>1, <3>1
    <3>3. SlotType(Level, globals, locals, b.slot + 1) = locals[q].type
      BY <2>3, <3>2 DEF SlotType
    <3>4. b.slot + 1 \in 1..Declared /\ b.slot \in Nat /\ b.slot < IndexWidth
      BY <1>1, <3>1
    <3> QED
      BY <1>1, <2>1, <2>2, <3>3, <3>4 DEF Bound
  <2>4. CASE Level # 1
    <3>1. b.slot = q - 1 /\ q \in 1..Len(locals) /\ Declared = Len(locals)
      BY <1>1, <2>1, <2>4 DEF Declared, SlotCount
    <3>2. SlotType(Level, globals, locals, b.slot + 1) = locals[q].type
      BY <1>1, <2>4, <3>1 DEF SlotType
    <3>3. b.slot + 1 \in 1..Declared /\ b.slot \in Nat /\ b.slot < IndexWidth
      BY <1>1, <3>1
    <3> QED
      BY <1>1, <2>1, <2>2, <3>2, <3>3 DEF Bound
  <2> QED
    BY <2>3, <2>4
<1>4. CASE b.space = "Globals" /\ \E q \in DOMAIN globals : b.data = globals[q] /\ b.slot = q - 1
  <2>1. PICK q \in DOMAIN globals : b.data = globals[q] /\ b.slot = q - 1
    BY <1>4
  <2>2. /\ b.slot + 1 = q /\ q \in 1..Len(globals) /\ b.slot \in Nat /\ b.slot < IndexWidth
    BY <1>1, <2>1
  <2>3. SlotsOf(Env(sigs), TheFrame, b) = GlobalSlots(Env(sigs), TheFrame)
    BY <1>4 DEF SlotsOf
  <2>4. CASE Level = 1
    <3>1. GlobalSlots(Env(sigs), TheFrame) = TheFrame
      BY <2>4, EnvFacts DEF GlobalSlots
    <3>2. q \in 1..Declared
      BY <1>1, <2>2, <2>4 DEF Declared, SlotCount
    <3>3. SlotType(Level, globals, locals, q) = globals[q].type
      BY <2>2, <2>4 DEF SlotType
    <3> QED
      BY <1>1, <2>1, <2>2, <2>3, <3>1, <3>2, <3>3 DEF Bound
  <2>5. CASE Level = 2
    <3>1. GlobalSlots(Env(sigs), TheFrame) = Part(Kinds(globals), Len(globals))
      BY <2>5, EnvFacts DEF GlobalSlots
    <3>2. /\ DOMAIN Part(Kinds(globals), Len(globals)) = 1..Len(globals)
          /\ Part(Kinds(globals), Len(globals))[q] = globals[q].type
      BY <1>1, <2>2 DEF Part, Kinds
    <3> QED
      BY <1>1, <2>1, <2>2, <2>3, <3>1, <3>2 DEF Bound
  <2> QED
    BY <1>2, <2>4, <2>5
<1> QED
  BY <1>3, <1>4 DEF Found

\* A call can be written where its callee is known.
LEMMA CallableHere ==
  ASSUME NEW sigs, Typable(sigs), Compiling, Clean,
         NEW name, NEW args, Len(args) \in 0..2,
         NEW c, c \in ResolveCall(Res, global_bindings, name, args)
  PROVE  Callable(Env(sigs), TheFrame, c)
<1>1. IInv /\ phase = "compile"
  BY DEF Typable, Compiling
<1>2. IsBinding(c) /\ IsResolver(Res)
  BY <1>1, CurrentBindings
<1>3. CalledWith(c, args) /\ Among(Res, global_bindings, c)
  BY <1>1, CalleeOfCall
<1>4. ~Misplaced(c) => Bound(Env(sigs), TheFrame, c)
  BY <1>2, <1>3, AmongFound, FoundBound DEF IsResolver, IsTable
<1>5. DataOK(sigs, c.data)
  BY <1>3, FrameOfCurrent DEF Among, Binding
<1>6. Ready(Env(sigs), TheFrame, c.data)
  <2> SUFFICES ASSUME Level = 1, c.data.type.t = "Function", NEW g \in 1..sigs[c.data.type.f].reach
               PROVE  g <= Len(TheFrame) /\ TheFrame[g] = Kinds(global_bindings)[g]
    BY EnvFacts DEF Ready
  <2>1. c.data.type.f \in DOMAIN sigs
    BY <1>5 DEF DataOK
  <2>2. sigs[c.data.type.f].reach <= Len(global_bindings) /\ sigs[c.data.type.f].reach \in Nat
    <3>1. SigsOK(sigs, global_bindings)
      BY EnvFacts
    <3>2. sigs[c.data.type.f] \in Signature
      BY <2>1, <3>1, ElementOfSeq DEF SigsOK
    <3> QED
      BY <2>1, <3>1, <3>2 DEF SigsOK, Signature
  <2>3. /\ Len(global_bindings) \in Nat /\ DOMAIN global_bindings = 1..Len(global_bindings)
        /\ Len(TheFrame) = Declared /\ Len(Res.local_bindings) \in Nat
        /\ \A q \in 1..Declared : TheFrame[q] = SlotType(Level, global_bindings, Res.local_bindings, q)
    BY FrameOfCurrent
  <2>4. g \in 1..Len(global_bindings) /\ g \in 1..Declared
    BY <2>2, <2>3 DEF Declared, SlotCount
  <2>5. SlotType(Level, global_bindings, Res.local_bindings, g) = global_bindings[g].type
    BY <2>4 DEF SlotType
  <2> QED
    BY <2>3, <2>4, <2>5 DEF Kinds
<1>7. c.data.type.t \in {"Function", "NativeFunc"} /\ Len(c.data.params) <= 2
  BY <1>3 DEF CalledWith
<1>8. Env(sigs).sigs = sigs
  BY EnvFacts
<1> QED
  BY <1>2, <1>4, <1>5, <1>6, <1>7, <1>8 DEF Callable

(***************************************************************************)
(* The statements that only write.                                         *)
(***************************************************************************)
\* What they start from, when they leave no fault.
LEMMA StatementStarts ==
  ASSUME NEW sigs, Typable(sigs), Compiling
  PROVE  /\ IInv /\ phase = "compile" /\ IsGen(Len(program), Gen)
         /\ Clean => /\ TheFrame \in FrameTypes /\ (Env(sigs).main <=> Level = 1)
                     /\ Env(sigs).ret = Gen.ret_type
<1>1. IInv /\ phase = "compile"
  BY DEF Typable, Compiling
<1> QED
  BY <1>1, CurrentBindings, EnvFacts, FrameOfCurrent

\* The variable that is assigned to or observed is an integer.
LEMMA IntBound ==
  ASSUME NEW sigs, Typable(sigs), Compiling, Clean, NEW name, NEW b, b \in IntsNamed(name)
  PROVE  Bound(Env(sigs), TheFrame, b) /\ b.data.type = Of("Int") /\ b.data.type \in StaticType
<1>1. b.data.type.t = "Int" /\ Found(b)
  BY IdentifierFound DEF IntsNamed
<1>2. Bound(Env(sigs), TheFrame, b) /\ DataOK(sigs, b.data)
  BY <1>1, FoundBound
<1> QED
  BY <1>1, <1>2 DEF DataOK

\* An assignment.
LEMMA AssignTyped ==
  ASSUME NEW sigs, Typable(sigs), Clean', NEW name, AssignStmt(name)
  PROVE  TypingHolds(sigs)'
<1>1. Compiling /\ UNCHANGED <<program, global_bindings>>
  BY DEF AssignStmt, Statement
<1>2. PICK b \in IntsNamed(name) :
        Put(ExpressionStmt(CodeStore(CodeLiteral(Gen, b.data.tag), b)), Res, Visits)
  BY DEF AssignStmt
<1> DEFINE n == Len(program)
           e == Env(sigs)
           literal == CodeLiteral(Gen, b.data.tag)
           stored == CodeStore(literal, b)
           gen == ExpressionStmt(stored)
<1>3. IsGen(n, Gen) /\ b.data.tag \in Int
  BY <1>1, <1>2, StatementStarts, CurrentBindings DEF IsBinding, IsDeclaration
<1>4. Goes(Gen, literal) /\ Goes(literal, stored) /\ Goes(stored, gen)
  BY CodersGo
<1>5. ASSUME Clean PROVE Leads(n, e, Gen, gen, TheFrame, TheFrame)
  <2>1. TheFrame \in FrameTypes
    BY <1>1, <1>5, StatementStarts
  <2>2. Bound(e, TheFrame, b) /\ b.data.type = Of("Int") /\ b.data.type \in StaticType
    BY <1>1, <1>2, <1>5, IntBound
  <2>3. Append(TheFrame, b.data.type) \in FrameTypes /\ Bound(e, Append(TheFrame, b.data.type), b)
    BY <2>1, <2>2, FrameAppended, BoundAbove
  <2>4. Leads(n, e, Gen, literal, TheFrame, Append(TheFrame, b.data.type))
    BY <1>3, <2>1, <2>2, LiteralLeads
  <2>5. IsGen(n, literal)
    BY <2>4 DEF Leads, LaysOut, Writes
  <2> HIDE DEF literal, e, n
  <2>6. Leads(n, e, literal, stored, Append(TheFrame, b.data.type), Append(TheFrame, b.data.type))
    BY <2>1, <2>2, <2>5, StoreLeads
       
  <2>7. IsGen(n, stored)
    BY <2>6 DEF Leads, LaysOut, Writes
  <2> HIDE DEF stored
  <2>8. Leads(n, e, stored, gen, Append(TheFrame, b.data.type), TheFrame)
    BY <2>1, <2>2, <2>7, ExpressionsLead
  <2> HIDE DEF gen
  <2>9. Leads(n, e, Gen, stored, TheFrame, Append(TheFrame, b.data.type))
    BY <1>3, <2>4, <2>6, LeadsTwice
  <2> QED
    BY <1>3, <2>8, <2>9, LeadsTwice
<1>6. Replaced(Seal(gen, FALSE), Res, Visits)
  BY <1>2 DEF Put
<1> HIDE DEF literal, stored, gen
<1>7. Goes(Gen, gen)
  BY <1>4, GoesTwice
<1> QED
  BY <1>1, <1>5, <1>6, <1>7, WritingTyped

\* A variable that is observed.
LEMMA YieldTyped ==
  ASSUME NEW sigs, Typable(sigs), Clean', NEW name, YieldStmt(name)
  PROVE  TypingHolds(sigs)'
<1>1. Compiling /\ UNCHANGED <<program, global_bindings>>
  BY DEF YieldStmt, Statement
<1>2. PICK b \in IntsNamed(name) :
        Put(ExpressionStmt(WriteInstr(CodeLoad(Reads(Gen, b.data.tag), b), "TESTYield")),
            Res, Visits)
  BY DEF YieldStmt
<1> DEFINE n == Len(program)
           e == Env(sigs)
           read == Reads(Gen, b.data.tag)
           loaded == CodeLoad(read, b)
           yielded == WriteInstr(loaded, "TESTYield")
           gen == ExpressionStmt(yielded)
           none == Append(TheFrame, Of("None"))
<1>3. IsGen(n, Gen)
  BY <1>1, StatementStarts
<1>4. Goes(Gen, read) /\ Goes(read, loaded) /\ Goes(loaded, yielded) /\ Goes(yielded, gen)
  BY CodersGo, HelpersGo
<1>5. ASSUME Clean PROVE Leads(n, e, Gen, gen, TheFrame, TheFrame)
  <2>1. TheFrame \in FrameTypes
    BY <1>1, <1>5, StatementStarts
  <2>2. Bound(e, TheFrame, b) /\ b.data.type \in StaticType
    BY <1>1, <1>2, <1>5, IntBound
  <2>3. Leads(n, e, Gen, read, TheFrame, TheFrame)
    <3>1. Writes(n, Gen, read) /\ SamePlaces(Gen, read) /\ read.panicked = Gen.panicked
      BY <1>3, RecordsWrite, RecordsPlace
    <3>2. read.constants = Gen.constants /\ SameRecords(Gen, read)
      BY <1>3 DEF Reads, IsGen, GenFields, SameRecords
    <3> HIDE DEF read
    <3> QED
      BY <1>3, <3>1, <3>2, NothingLeads DEF SamePlaces
  <2>4. IsGen(n, read)
    BY <2>3 DEF Leads, LaysOut, Writes
  <2> HIDE DEF read, e, n
  <2>5. Leads(n, e, read, loaded, TheFrame, Append(TheFrame, b.data.type))
    BY <2>1, <2>2, <2>4, LoadLeads
  <2>6. IsGen(n, loaded)
    BY <2>5 DEF Leads, LaysOut, Writes
  <2> HIDE DEF loaded
  <2>7. Leads(n, e, loaded, yielded, Append(TheFrame, b.data.type), none)
    BY <2>1, <2>2, <2>6, ExpressionsLead
  <2>8. IsGen(n, yielded) /\ Of("None") \in StaticType
    BY <2>7, OfIsType DEF Leads, LaysOut, Writes, Types
  <2> HIDE DEF yielded
  <2>9. Leads(n, e, yielded, gen, none, TheFrame)
    BY <2>1, <2>8, ExpressionsLead
  <2> HIDE DEF gen, none
  <2>10. Leads(n, e, Gen, loaded, TheFrame, Append(TheFrame, b.data.type))
    BY <1>3, <2>3, <2>5, LeadsTwice
  <2>11. Leads(n, e, Gen, yielded, TheFrame, none)
    BY <1>3, <2>7, <2>10, LeadsTwice
  <2> QED
    BY <1>3, <2>9, <2>11, LeadsTwice
<1>6. Replaced(Seal(gen, FALSE), Res, Visits)
  BY <1>2 DEF Put
<1> HIDE DEF read, loaded, yielded, gen
<1>7. Goes(Gen, loaded)
  BY <1>4, GoesTwice
<1>8. Goes(Gen, gen)
  BY <1>4, <1>7, GoesTwice
<1> QED
  BY <1>1, <1>5, <1>6, <1>8, WritingTyped

\* What can be called can be called with one more value in the frame.
LEMMA CallableAbove ==
  ASSUME NEW sigs, Typable(sigs), Compiling, Clean,
         NEW s \in FrameTypes, NEW x \in StaticType, NEW b, Callable(Env(sigs), s, b)
  PROVE  Callable(Env(sigs), Append(s, x), b)
<1>1. b.data.type.t = "Function" => Env(sigs).sigs[b.data.type.f].reach \in Nat
  <2> SUFFICES ASSUME b.data.type.t = "Function" PROVE sigs[b.data.type.f].reach \in Nat
    BY EnvFacts
  <2>1. b.data.type.f \in DOMAIN sigs /\ sigs \in Seq(Signature)
    BY EnvFacts DEF Callable, DataOK, SigsOK
  <2>2. sigs[b.data.type.f] \in Signature
    BY <2>1, ElementOfSeq
  <2> QED
    BY <2>2 DEF Signature
<1>2. Ready(Env(sigs), Append(s, x), b.data)
  BY <1>1, ReadyAbove DEF Callable
<1>3. ~Misplaced(b) => Bound(Env(sigs), Append(s, x), b)
  BY BoundAbove DEF Callable
<1> QED
  BY <1>2, <1>3 DEF Callable

\* A call.
LEMMA CallStmtTyped ==
  ASSUME NEW sigs, Typable(sigs), Clean', NEW name, CallStmt(name)
  PROVE  TypingHolds(sigs)'
<1>1. Compiling /\ UNCHANGED <<program, global_bindings>>
  BY DEF CallStmt, Statement
<1>2. PICK args \in IntArgs : \E b \in ResolveCall(Res, global_bindings, name, args) :
        Put(ExpressionStmt(CallWith(Gen, b)), Res, Visits)
  BY DEF CallStmt
<1>3. PICK b \in ResolveCall(Res, global_bindings, name, args) :
        Put(ExpressionStmt(CallWith(Gen, b)), Res, Visits)
  BY <1>2
<1> DEFINE n == Len(program)
           e == Env(sigs)
           called == CallWith(Gen, b)
           gen == ExpressionStmt(called)
<1>4. IsGen(n, Gen) /\ Len(args) \in 0..2
  BY <1>1, StatementStarts DEF IntArgs, MaxArgs
<1>5. Goes(Gen, called) /\ Goes(called, gen)
  BY CodersGo, CallsGo
<1>6. ASSUME Clean PROVE Leads(n, e, Gen, gen, TheFrame, TheFrame)
  <2>1. TheFrame \in FrameTypes
    BY <1>1, <1>6, StatementStarts
  <2>2. Callable(e, TheFrame, b)
    BY <1>1, <1>3, <1>4, <1>6, CallableHere
  <2>3. Of(b.data.ret_type) \in StaticType
    BY <2>2, OfIsType DEF Callable, DataOK
  <2> HIDE DEF e, n
  <2>4. Leads(n, e, Gen, called, TheFrame, Append(TheFrame, Of(b.data.ret_type)))
    BY <1>4, <2>1, <2>2, CallLeads
  <2>5. IsGen(n, called)
    BY <2>4 DEF Leads, LaysOut, Writes
  <2> HIDE DEF called
  <2>6. Leads(n, e, called, gen, Append(TheFrame, Of(b.data.ret_type)), TheFrame)
    BY <2>1, <2>3, <2>5, ExpressionsLead
  <2> HIDE DEF gen
  <2> QED
    BY <1>4, <2>4, <2>6, LeadsTwice
<1>7. Replaced(Seal(gen, FALSE), Res, Visits)
  BY <1>3 DEF Put
<1> HIDE DEF called, gen
<1>8. Goes(Gen, gen)
  BY <1>5, GoesTwice
<1> QED
  BY <1>1, <1>6, <1>7, <1>8, WritingTyped

\* The value of a call, printed.
LEMMA PrintedLeads ==
  ASSUME NEW sigs, Typable(sigs), Compiling, Clean, NEW n, IsGen(n, Gen), TheFrame \in FrameTypes,
         NEW b, Callable(Env(sigs), TheFrame, b),
         NEW print, Callable(Env(sigs), TheFrame, print),
         print.data.type.t = "NativeFunc", Len(print.data.params) = 1
  PROVE  LET loaded == LoadCallee(Gen, print)
             called == CallWith(loaded, b)
             value == Coerce(called, b.data.ret_type, print.data.params[1])
             printed == WriteIndexed(value, "CallNative", 1)
         IN Leads(n, Env(sigs), Gen, printed, TheFrame, Append(TheFrame, Of(print.data.ret_type)))
<1> DEFINE e == Env(sigs)
           loaded == LoadCallee(Gen, print)
           called == CallWith(loaded, b)
           value == Coerce(called, b.data.ret_type, print.data.params[1])
           printed == WriteIndexed(value, "CallNative", 1)
           p == Append(TheFrame, print.data.type)
           given == Append(p, Of(b.data.ret_type))
           taken == Append(p, Of(print.data.params[1]))
<1>1. /\ IsBinding(print) /\ DataOK(e.sigs, print.data) /\ Ready(e, TheFrame, print.data)
      /\ ~Misplaced(print) => Bound(e, TheFrame, print)
      /\ print.data.type \in StaticType /\ print.data.params \in Seq(Types) /\ b.data.ret_type \in Types
  BY DEF Callable, DataOK
<1>2. Callable(e, p, b) /\ p \in FrameTypes
  BY <1>1, CallableAbove, FrameAppended
<1>3. print.data.params[1] \in Types
  BY <1>1, ArgTypesFacts
<1>4. Leads(n, e, Gen, loaded, TheFrame, p)
  BY <1>1, CalleeLeads
<1>5. IsGen(n, loaded)
  BY <1>4 DEF Leads, LaysOut, Writes
<1> HIDE DEF loaded, e, p
<1>6. Leads(n, e, loaded, called, p, given)
  BY <1>2, <1>5, CallLeads
<1>7. IsGen(n, called)
  BY <1>6 DEF Leads, LaysOut, Writes
<1> HIDE DEF called
<1>8. Leads(n, e, called, value, given, taken)
  BY <1>1, <1>2, <1>3, <1>7, CoerceLeads
<1>9. IsGen(n, value)
  BY <1>8 DEF Leads, LaysOut, Writes
<1> HIDE DEF value
<1>10. Leads(n, e, value, printed, taken, Append(TheFrame, Of(print.data.ret_type)))
  <2>1. Len(print.data.params) < IndexWidth
    BY ArgumentsAssumption, EmitAssumption DEF MaxArgs
  <2>2. p \o ArgTypes(print.data.params) = taken
    <3>1. p \in FrameTypes /\ print.data.params \in Seq(Types) /\ Len(print.data.params) = 1
      BY <1>1, <1>2
    <3>2. Len(print.data.params) <= 2
      BY <3>1
    <3>3. p \o ArgTypes(print.data.params) = Append(p, Of(print.data.params[1]))
      BY <3>1, <3>2, FramesWithArguments
    <3> QED
      BY <3>3
  <2>3. CallOp(print.data) = "CallNative"
    BY DEF CallOp
  <2>4. Leads(n, e, value, WriteIndexed(value, CallOp(print.data), Len(print.data.params)),
              Append(TheFrame, print.data.type) \o ArgTypes(print.data.params),
              Append(TheFrame, Of(print.data.ret_type)))
    BY <1>1, <1>9, <2>1, CallOpLeads
  <2> QED
    BY <2>2, <2>3, <2>4 DEF p
<1> HIDE DEF printed, given, taken
<1>11. Leads(n, e, Gen, called, TheFrame, given)
  BY <1>4, <1>6, LeadsTwice
<1>12. Leads(n, e, Gen, value, TheFrame, taken)
  BY <1>8, <1>11, LeadsTwice
<1>13. Leads(n, e, Gen, printed, TheFrame, Append(TheFrame, Of(print.data.ret_type)))
  BY <1>10, <1>12, LeadsTwice
<1> QED
  BY <1>13 DEF printed, value, called, loaded, e

\* A printed call keeps the types.
LEMMA PrintCallStmtTyped ==
  ASSUME NEW sigs, Typable(sigs), Clean', NEW name, PrintCall(name)
  PROVE  TypingHolds(sigs)'
<1>1. Compiling /\ UNCHANGED <<program, global_bindings>>
  BY DEF PrintCall, Statement
<1>2. PICK args \in IntArgs : \E b \in ResolveCall(Res, global_bindings, name, args) :
        \E print \in ResolveCall(Res, global_bindings, "print", <<b.data.ret_type>>) :
           /\ print.data.type.t = "NativeFunc"
           /\ LET value == Coerce(CallWith(LoadCallee(Gen, print), b),
                                  b.data.ret_type, print.data.params[1])
              IN Put(ExpressionStmt(WriteIndexed(value, "CallNative", 1)), Res, Visits)
  BY DEF PrintCall
<1>3. PICK b \in ResolveCall(Res, global_bindings, name, args) :
        \E print \in ResolveCall(Res, global_bindings, "print", <<b.data.ret_type>>) :
           /\ print.data.type.t = "NativeFunc"
           /\ LET value == Coerce(CallWith(LoadCallee(Gen, print), b),
                                  b.data.ret_type, print.data.params[1])
              IN Put(ExpressionStmt(WriteIndexed(value, "CallNative", 1)), Res, Visits)
  BY <1>2
<1>4. PICK print \in ResolveCall(Res, global_bindings, "print", <<b.data.ret_type>>) :
        /\ print.data.type.t = "NativeFunc"
        /\ LET value == Coerce(CallWith(LoadCallee(Gen, print), b),
                               b.data.ret_type, print.data.params[1])
           IN Put(ExpressionStmt(WriteIndexed(value, "CallNative", 1)), Res, Visits)
  BY <1>3
<1> DEFINE n == Len(program)
           e == Env(sigs)
           loaded == LoadCallee(Gen, print)
           called == CallWith(loaded, b)
           value == Coerce(called, b.data.ret_type, print.data.params[1])
           printed == WriteIndexed(value, "CallNative", 1)
           gen == ExpressionStmt(printed)
<1>5. IsGen(n, Gen) /\ Len(args) \in 0..2 /\ Len(<<b.data.ret_type>>) = 1
  BY <1>1, StatementStarts DEF IntArgs, MaxArgs
<1>6. Goes(Gen, loaded) /\ Goes(loaded, called) /\ Goes(called, value) /\ Goes(value, printed)
      /\ Goes(printed, gen)
  BY CodersGo, CallsGo, WritersGo
<1>7. ASSUME Clean PROVE Leads(n, e, Gen, gen, TheFrame, TheFrame)
  <2>1. TheFrame \in FrameTypes
    BY <1>1, <1>7, StatementStarts
  <2>2. Callable(e, TheFrame, b)
    BY <1>1, <1>5, <1>7, CallableHere
  <2>3. Callable(e, TheFrame, print)
    BY <1>1, <1>4, <1>5, <1>7, CallableHere
  <2>4. Len(print.data.params) = 1
    BY <1>1, <1>4, <1>5, StatementStarts, CurrentBindings
  <2>5. Of(print.data.ret_type) \in StaticType
    BY <2>3, OfIsType DEF Callable, DataOK
  <2>6. Leads(n, e, Gen, printed, TheFrame, Append(TheFrame, Of(print.data.ret_type)))
    BY <1>1, <1>4, <1>5, <1>7, <2>1, <2>2, <2>3, <2>4, PrintedLeads
  <2> HIDE DEF printed, e, n
  <2>7. IsGen(n, printed)
    BY <2>6 DEF Leads, LaysOut, Writes
  <2>8. Leads(n, e, printed, gen, Append(TheFrame, Of(print.data.ret_type)), TheFrame)
    BY <2>1, <2>5, <2>7, ExpressionsLead
  <2> HIDE DEF gen
  <2> QED
    BY <1>5, <2>6, <2>8, LeadsTwice
<1>8. Replaced(Seal(gen, FALSE), Res, Visits)
  BY <1>4 DEF Put
<1> HIDE DEF loaded, called, value, printed, gen
<1>9. Goes(Gen, called)
  BY <1>6, GoesTwice
<1>10. Goes(Gen, value)
  BY <1>6, <1>9, GoesTwice
<1>11. Goes(Gen, printed)
  BY <1>6, <1>10, GoesTwice
<1>12. Goes(Gen, gen)
  BY <1>6, <1>11, GoesTwice
<1> QED
  BY <1>1, <1>7, <1>8, <1>12, WritingTyped

(***************************************************************************)
(* Returns.                                                                *)
(***************************************************************************)
\* A value of the return type is returned.
LEMMA ReturnLeads ==
  ASSUME NEW n, NEW e, NEW gen, IsGen(n, gen), NEW s \in FrameTypes, e.ret \in Types
  PROVE  Leads(n, e, gen, WriteInstr(gen, "Return"), Append(s, Of(e.ret)), s)
<1>1. Of(e.ret) \in StaticType
  BY OfIsType
<1> QED
  BY <1>1, ExpressionsLead

\* A return without a value.
LEMMA ReturnTyped ==
  ASSUME NEW sigs, Typable(sigs), Clean', ReturnStmt
  PROVE  TypingHolds(sigs)'
<1> DEFINE n == Len(program)
           e == Env(sigs)
           marked == [Gen EXCEPT !.untyped = @ \/ Gen.ret_type # "None"]
           none == WriteInstr(marked, "None")
           gen == WriteInstr(none, "Return")
           sealed == Visits = <<>>
<1>1. Compiling /\ UNCHANGED <<program, global_bindings>>
  BY DEF ReturnStmt, Statement
<1>2. Replaced(Seal(gen, sealed), Res, Visits)
  BY DEF ReturnStmt
<1>3. IsGen(n, Gen)
  BY <1>1, StatementStarts
<1>4. Goes(Gen, marked) /\ Goes(marked, none) /\ Goes(none, gen)
  BY HelpersGo
<1> HIDE DEF sealed
<1>5. Goes(Gen, gen)
  <2> HIDE DEF marked, none, gen
  <2>1. Goes(Gen, none)
    BY <1>4, GoesTwice
  <2> QED
    BY <1>4, <2>1, GoesTwice
<1>6. ASSUME Clean PROVE Leads(n, e, Gen, gen, TheFrame, TheFrame)
  <2>1. TheFrame \in FrameTypes /\ e.ret = Gen.ret_type
    BY <1>1, <1>6, StatementStarts
  <2>2. ~gen.untyped
    <3> HIDE DEF gen
    <3> QED
      BY <1>1, <1>2, <1>5, CleanBefore DEF CleanGen, Typable
  <2>3. gen.untyped = marked.untyped
    BY <1>3 DEF IsGen, GenFields, WriteInstr, WriteByte
  <2>4. Gen.ret_type = "None"
    BY <1>3, <2>2, <2>3 DEF IsGen, GenFields
  <2>5. Leads(n, e, Gen, marked, TheFrame, TheFrame)
    <3>1. /\ marked.constants = Gen.constants /\ marked.code = Gen.code /\ marked.exits = Gen.exits
          /\ marked.panicked = Gen.panicked /\ SameRecords(Gen, marked)
      BY <1>3 DEF IsGen, GenFields, SameRecords
    <3>2. Writes(n, Gen, marked)
      BY <1>3 DEF Writes, IsGen, GenFields, SameBooks
    <3> HIDE DEF marked
    <3> QED
      BY <1>3, <3>1, <3>2, NothingLeads
  <2>6. IsGen(n, marked)
    BY <2>5 DEF Leads, LaysOut, Writes
  <2> HIDE DEF marked, e, n
  <2>7. Leads(n, e, marked, none, TheFrame, Append(TheFrame, Of(e.ret)))
    <3>1. Of("None") \in StaticType
      BY OfIsType DEF Types
    <3> QED
      BY <2>1, <2>4, <2>6, <3>1, ExpressionsLead
  <2>8. Leads(n, e, Gen, none, TheFrame, Append(TheFrame, Of(e.ret)))
    BY <1>3, <2>5, <2>7, LeadsTwice
  <2>9. IsGen(n, none)
    BY <2>7 DEF Leads, LaysOut, Writes
  <2> HIDE DEF none
  <2>10. Leads(n, e, none, gen, Append(TheFrame, Of(e.ret)), TheFrame)
    BY <2>1, <2>4, <2>9, ReturnLeads DEF Types
  <2> HIDE DEF gen
  <2> QED
    BY <1>3, <2>8, <2>10, LeadsTwice
<1> HIDE DEF gen
<1> QED
  BY <1>1, <1>2, <1>5, <1>6, WritingTyped

\* A return of a value.
LEMMA ReturnValueTyped ==
  ASSUME NEW sigs, Typable(sigs), Clean', ReturnValue
  PROVE  TypingHolds(sigs)'
<1> DEFINE n == Len(program)
           e == Env(sigs)
           literal == CodeLiteral(Gen, 0)
           value == Coerce(literal, "Int", Gen.ret_type)
           gen == WriteInstr(value, "Return")
           sealed == Visits = <<>>
<1>1. Compiling /\ UNCHANGED <<program, global_bindings>>
  BY DEF ReturnValue, Statement
<1>2. Replaced(Seal(gen, sealed), Res, Visits)
  BY DEF ReturnValue
<1>3. IsGen(n, Gen) /\ Gen.ret_type \in Types
  <2>1. Coherent(n, Level, 0, Len(global_bindings), Gen, Res, Visits)
    BY <1>1, CurrentCoherent DEF Typable, Compiling
  <2> QED
    BY <2>1 DEF Coherent, IsContext, Types
<1>4. Goes(Gen, literal) /\ Goes(literal, value) /\ Goes(value, gen)
  BY CodersGo, HelpersGo, WritersGo
<1> HIDE DEF sealed
<1>5. Goes(Gen, gen)
  <2> HIDE DEF literal, value, gen
  <2>1. Goes(Gen, value)
    BY <1>4, GoesTwice
  <2> QED
    BY <1>4, <2>1, GoesTwice
<1>6. ASSUME Clean PROVE Leads(n, e, Gen, gen, TheFrame, TheFrame)
  <2>1. TheFrame \in FrameTypes /\ e.ret = Gen.ret_type
    BY <1>1, <1>6, StatementStarts
  <2>2. Leads(n, e, Gen, literal, TheFrame, Append(TheFrame, Of("Int")))
    BY <1>3, <2>1, LiteralLeads
  <2>3. IsGen(n, literal)
    BY <2>2 DEF Leads, LaysOut, Writes
  <2> HIDE DEF literal, e, n
  <2>4. Leads(n, e, literal, value, Append(TheFrame, Of("Int")), Append(TheFrame, Of(e.ret)))
    <3>1. "Int" \in Types
      BY DEF Types
    <3> QED
      BY <1>3, <2>1, <2>3, <3>1, CoerceLeads
  <2>5. IsGen(n, value)
    BY <2>4 DEF Leads, LaysOut, Writes
  <2> HIDE DEF value
  <2>6. Leads(n, e, value, gen, Append(TheFrame, Of(e.ret)), TheFrame)
    BY <1>3, <2>1, <2>5, ReturnLeads
  <2> HIDE DEF gen
  <2>7. Leads(n, e, Gen, value, TheFrame, Append(TheFrame, Of(e.ret)))
    BY <1>3, <2>2, <2>4, LeadsTwice
  <2> QED
    BY <1>3, <2>6, <2>7, LeadsTwice
<1> HIDE DEF gen
<1> QED
  BY <1>1, <1>2, <1>5, <1>6, WritingTyped

(***************************************************************************)
(* The statements that declare.                                            *)
(***************************************************************************)
\* A variable of a type that is no callable's.
LEMMA PlainData ==
  ASSUME NEW sigs, NEW name, NEW t \in Types, t \notin {"Function", "NativeFunc"}, NEW tag \in Int
  PROVE  LET d == VarData(name, Of(t), <<>>, "None", tag)
         IN DataOK(sigs, d) /\ IsDeclaration(d) /\ d.type = Of(t)
<1> DEFINE d == VarData(name, Of(t), <<>>, "None", tag)
<1>1. d.type = Of(t) /\ d.params = <<>> /\ d.ret_type = "None"
  BY DEF VarData
<1>2. IsDeclaration(d)
  BY VarDataIsDeclaration DEF Of
<1>3. Of(t) \in StaticType /\ "None" \in Types /\ <<>> \in Seq(Types) /\ Of(t).t = t
  BY OfIsType DEF Types, Of
<1> HIDE DEF d
<1>4. DataOK(sigs, d)
  BY <1>1, <1>3 DEF DataOK
<1> QED
  BY <1>1, <1>2, <1>4 DEF d

\* A declaration of a variable keeps the types.
LEMMA VarStmtTyped ==
  ASSUME NEW sigs, Typable(sigs), Clean', NEW name, VarStmt(name)
  PROVE  TypingHolds(sigs)'
<1>1. Compiling /\ UNCHANGED program /\ declared < Len(Tags)
  BY DEF VarStmt, Statement
<1> DEFINE tag == Tags[declared + 1]
           gen == CodeLiteral(Gen, tag)
           d == VarData(name, Of("Int"), <<>>, "None", tag)
<1>2. Declare(gen, d)
  BY DEF VarStmt, CodeLiteral, Of
<1>3. tag \in Int
  <2>1. Len(Tags) \in Nat /\ declared \in Nat
    BY CompilerAssumption, LenProperties DEF Typable, IInv
  <2>2. Tags \in Seq(-128..127) /\ declared + 1 \in 1..Len(Tags)
    BY <1>1, <2>1, CompilerAssumption
  <2>3. tag \in -128..127
    BY <2>2, ElementOfSeq
  <2> HIDE DEF tag
  <2> QED
    BY <2>3
<1> HIDE DEF tag
<1>4. Goes(Gen, gen)
  BY CodersGo
<1>5. DataOK(sigs, d) /\ IsDeclaration(d) /\ d.type = Of("Int")
  BY <1>3, PlainData DEF Types
<1>6. Clean => Leads(Len(program), Env(sigs), Gen, gen, TheFrame, Append(TheFrame, Of("Int")))
  BY <1>1, <1>3, StatementStarts, LiteralLeads
<1> HIDE DEF gen, d
<1> QED
  BY <1>1, <1>2, <1>4, <1>5, <1>6, DeclaringTyped

\* So does one of type Any.
LEMMA VarAnyStmtTyped ==
  ASSUME NEW sigs, Typable(sigs), Clean', NEW name, VarAnyStmt(name)
  PROVE  TypingHolds(sigs)'
<1>1. Compiling /\ UNCHANGED program
  BY DEF VarAnyStmt, Statement
<1> DEFINE n == Len(program)
           e == Env(sigs)
           none == WriteInstr(Gen, "None")
           gen == WriteInstr(none, "WrapAny")
           d == VarData(name, Of("Any"), <<>>, "None", 0)
<1>2. Declare(gen, d)
  BY DEF VarAnyStmt, Of
<1>3. Goes(Gen, none) /\ Goes(none, gen)
  BY HelpersGo
<1>4. DataOK(sigs, d) /\ IsDeclaration(d) /\ d.type = Of("Any")
  BY PlainData DEF Types
<1>5. ASSUME Clean PROVE Leads(n, e, Gen, gen, TheFrame, Append(TheFrame, Of("Any")))
  <2>1. TheFrame \in FrameTypes /\ IsGen(n, Gen) /\ Of("None") \in StaticType
    BY <1>1, <1>5, StatementStarts, OfIsType DEF Types
  <2>2. Leads(n, e, Gen, none, TheFrame, Append(TheFrame, Of("None")))
    BY <2>1, ExpressionsLead
  <2>3. IsGen(n, none)
    BY <2>2 DEF Leads, LaysOut, Writes
  <2> HIDE DEF none, e, n
  <2>4. Leads(n, e, none, gen, Append(TheFrame, Of("None")), Append(TheFrame, Of("Any")))
    BY <2>1, <2>3, ExpressionsLead
  <2> HIDE DEF gen
  <2> QED
    BY <2>1, <2>2, <2>4, LeadsTwice
<1> HIDE DEF none, gen, d
<1>6. Goes(Gen, gen)
  BY <1>3, GoesTwice
<1> QED
  BY <1>1, <1>2, <1>4, <1>5, <1>6, DeclaringTyped

\* A struct keeps the types: it copies a native function into a variable.
LEMMA StructStmtTyped ==
  ASSUME NEW sigs, Typable(sigs), Clean', StructStmt
  PROVE  TypingHolds(sigs)'
<1>1. Compiling /\ UNCHANGED program
  BY DEF StructStmt, Statement
<1> DEFINE gen == WriteIndexed(Gen, "GetGlobal", NewObj - 1)
           d == VarData(StructName, [t |-> "NativeFunc", f |-> NewObj], <<"Int">>, "Object", 0)
           b == Binding("Globals", NewObj - 1, global_bindings[NewObj])
<1>2. Declare(gen, d)
  BY DEF StructStmt
<1>3. Goes(Gen, gen)
  BY WritersGo
<1>4. NewObj \in DOMAIN Natives /\ NewObj \in Int /\ Len(Natives) \in Nat /\ DOMAIN Natives = 1..Len(Natives)
  BY RegistryAssumption, LenProperties
<1>5. DataOK(sigs, d) /\ IsDeclaration(d) /\ d.type = [t |-> "NativeFunc", f |-> NewObj]
  <2>1. /\ d.type = [t |-> "NativeFunc", f |-> NewObj] /\ d.params = <<"Int">> /\ d.ret_type = "Object"
        /\ d.type.t = "NativeFunc" /\ d.type.f = NewObj
    BY DEF VarData
  <2>2. IsDeclaration(d)
    BY <1>4, VarDataIsDeclaration
  <2>3. Natives[NewObj].builds /\ Natives[NewObj].gives = "Object"
    BY RegistryAssumption
  <2>4. d.type \in StaticType /\ <<"Int">> \in Seq(Types) /\ "Object" \in Types
    BY <1>4, <2>1 DEF StaticType, Types
  <2> HIDE DEF d
  <2> QED
    BY <1>4, <2>1, <2>2, <2>3, <2>4 DEF DataOK
<1>6. ASSUME Clean
      PROVE  Leads(Len(program), Env(sigs), Gen, gen, TheFrame, Append(TheFrame, d.type))
  <2>1. /\ NewObj \in DOMAIN global_bindings
        /\ global_bindings[NewObj].type = [t |-> "NativeFunc", f |-> NewObj]
    <3>1. GlobalsOK(sigs, global_bindings) /\ DOMAIN global_bindings = 1..Len(global_bindings)
          /\ Len(global_bindings) \in Nat
      BY <1>1, <1>6, EnvFacts, FrameOfCurrent
    <3> QED
      BY <1>4, <3>1 DEF GlobalsOK, NativeTypes
  <2>2. Found(b)
    BY <2>1 DEF Found, Binding
  <2>3. Bound(Env(sigs), TheFrame, b) /\ DataOK(sigs, b.data)
    BY <1>1, <1>6, <2>2, FoundBound
  <2>4. b.data.type = d.type /\ gen = CodeLoad(Gen, b)
    BY <1>5, <2>1 DEF Binding, CodeLoad
  <2>5. b.data.type \in StaticType
    BY <2>3 DEF DataOK
  <2> HIDE DEF b, gen, d
  <2>6. Leads(Len(program), Env(sigs), Gen, CodeLoad(Gen, b), TheFrame, Append(TheFrame, b.data.type))
    BY <1>1, <1>6, <2>3, <2>5, StatementStarts, LoadLeads
  <2> QED
    BY <2>4, <2>6
<1> HIDE DEF gen, d
<1> QED
  BY <1>1, <1>2, <1>3, <1>5, <1>6, DeclaringTyped

(***************************************************************************)
(* Statements that contain others.                                         *)
(***************************************************************************)
\* What such a statement leaves of the generator, the analysis and the open statements.
KeptNow(sigs, gen, visits, frame) ==
    \E S, T : Kept(Len(program), Env(sigs), Below0, frame, gen, visits, S, T)

Structured(sigs, gen, res, visits) ==
    /\ gen.params = Gen.params /\ gen.ret_type = Gen.ret_type
    /\ \A q \in DOMAIN res.local_bindings :
          q \in DOMAIN Res.local_bindings /\ res.local_bindings[q] = Res.local_bindings[q]
    /\ KeptNow(sigs, gen, visits, FrameAt(Level, global_bindings, gen, res))

\* What is known of the function that is being compiled.
LEMMA CurrentKept ==
  ASSUME NEW sigs, Typable(sigs), Compiling, Clean
  PROVE  /\ KeptNow(sigs, Gen, Visits, TheFrame)
         /\ Visits \in Seq(OpenVisits) /\ ~Gen.panicked /\ ~Gen.misplaced /\ Len(program) \in Nat
<1>1. /\ KeepsPlaces(Gen, Visits) /\ IsGen(Len(program), Gen) /\ Visits \in Seq(OpenVisits)
      /\ Level \in DOMAIN contexts
  BY CurrentHeld, EnvFacts DEF Typable
<1>2. TypedGen(Env(sigs), Below0, TheFrame, Gen, Visits)
  BY FrameOfCurrent
<1>3. \E S, T : Kept(Len(program), Env(sigs), Below0, TheFrame, Gen, Visits, S, T)
  BY <1>1, <1>2, KeptHere
<1>4. CleanGen(Level = 1, Gen)
  BY <1>1 DEF Clean, Gen
<1>5. Len(program) \in Nat
  BY Places DEF Typable, IInv, IsTable
<1> QED
  BY <1>1, <1>3, <1>4, <1>5 DEF KeptNow, CleanGen

\* A statement that declares nothing keeps the types when its code and its records
\* do.
LEMMA StructuredTyped ==
  ASSUME NEW sigs, Typable(sigs), Compiling, Clean, UNCHANGED <<program, global_bindings>>,
         NEW gen, NEW res, NEW visits, Put(gen, res, visits), Structured(sigs, gen, res, visits)
  PROVE  TypingHolds(sigs)'
<1>1. PICK S, T : Kept(Len(program), Env(sigs), Below0, FrameAt(Level, global_bindings, gen, res),
                       gen, visits, S, T)
  BY DEF Structured, KeptNow
<1>2. IsGen(Len(program), gen)
  BY <1>1 DEF Kept
<1>3. TypedGen(Env(sigs), Below0, FrameAt(Level, global_bindings, gen, res), gen, visits)
  BY <1>1, KeptIsTyped
<1>4. TypedNow(Level, sigs, global_bindings, Gen, Res, Visits)
  BY EnvFacts DEF TypedContext
<1>5. TypedNow(Level, sigs, global_bindings, gen, res, visits)
  BY <1>3, <1>4 DEF TypedNow, Structured, Env, Below0
<1> QED
  BY <1>2, <1>5, TypedReplaced DEF Put, Grows

\* The frame stays as it was,
LEMMA FrameStays ==
  ASSUME NEW gen, gen.params = Gen.params, gen.stack_size = Gen.stack_size,
         NEW res, res.local_bindings = Res.local_bindings
  PROVE  FrameAt(Level, global_bindings, gen, res) = TheFrame
BY DEF FrameAt, TheFrame

\* or is left by the locals of the innermost scope.
LEMMA FrameCloses ==
  ASSUME NEW sigs, Typable(sigs), Compiling, Clean, Visits # <<>>,
         NEW gen, gen.params = Gen.params, gen.stack_size = Last(Visits).old_count,
         NEW res, res.local_bindings = ExitScope(Res).local_bindings
  PROVE  /\ FrameAt(Level, global_bindings, gen, res) = Part(TheFrame, Below0 + Last(Visits).old_count)
         /\ \A q \in DOMAIN res.local_bindings :
               q \in DOMAIN Res.local_bindings /\ res.local_bindings[q] = Res.local_bindings[q]
<1> DEFINE locals == Res.local_bindings
           globals == global_bindings
           old_count == Last(Visits).old_count
           below == Below(Level, Gen, Len(globals))
           k == below + old_count
           m == Below0 + old_count
           len == Below0 + Gen.stack_size
<1>1. /\ IsContext(Len(program), Level, Gen, Res, Visits)
      /\ SlotsMatch(Level, 0, Len(globals), Gen, Res, Visits)
      /\ Len(globals) \in Nat
  BY CurrentCoherent DEF Typable, Compiling, Coherent
<1>2. /\ IsResolver(Res) /\ IsTable(locals) /\ Visits \in Seq(OpenVisits)
      /\ Layout(below, locals, Visits) /\ Res.depth = Len(Visits)
  BY <1>1 DEF IsContext, SlotsMatch, IsResolver
<1>3. Below0 \in Nat /\ Gen.stack_size \in Nat /\ below \in Int
      /\ below = Below0 - (IF Level = 1 THEN Len(globals) ELSE 0)
  BY <1>1, FrameOfCurrent DEF Below, Below0
<1> HIDE DEF below
<1>4. /\ k \in 0..Len(locals)
      /\ \A q \in DOMAIN locals : q <= k <=> locals[q].depth < Len(Visits)
  BY <1>2, <1>3, LayoutClosed
<1>5. Res.depth # 0 /\ old_count \in Nat
  BY <1>2, VisitClosed DEF OpenVisits
<1> HIDE DEF k, old_count
<1>6. ExitScope(Res).local_bindings = SubSeq(locals, 1, k)
  BY <1>2, <1>4, <1>5, ExitScopeEffect
<1>7. /\ DOMAIN res.local_bindings = 1..k /\ Len(locals) \in Nat /\ DOMAIN locals = 1..Len(locals)
      /\ \A q \in 1..k : res.local_bindings[q] = locals[q]
  BY <1>2, <1>4, <1>6, FirstPart, Places DEF IsTable
<1>8. m \in 0..len /\ m = k + (IF Level = 1 THEN Len(globals) ELSE 0)
  <2>1. m = k + (IF Level = 1 THEN Len(globals) ELSE 0)
    BY <1>1, <1>3, <1>5 DEF k
  <2>2. len = Len(locals) + (IF Level = 1 THEN Len(globals) ELSE 0)
    BY <1>1, <1>3, <1>7 DEF SlotsMatch, below
  <2>3. k <= Len(locals) /\ k \in Int /\ m \in Nat /\ len \in Nat /\ Len(locals) \in Nat
    BY <1>3, <1>4, <1>5, <1>7
  <2> HIDE DEF m, len
  <2>4. CASE Level = 1
    BY <1>1, <2>1, <2>2, <2>3, <2>4
  <2>5. CASE Level # 1
    BY <2>1, <2>2, <2>3, <2>5
  <2> QED
    BY <2>4, <2>5
<1>9. TheFrame = FrameOf(Level, globals, locals, len)
  BY DEF TheFrame, FrameAt, Below0
<1>10. FrameAt(Level, globals, gen, res) = FrameOf(Level, globals, res.local_bindings, m)
  BY DEF FrameAt, Below0, m, old_count
<1>11. len \in Nat
  BY <1>3
<1> HIDE DEF m, len, locals, globals
<1>12. Part(TheFrame, m) = FrameOf(Level, globals, locals, m)
  BY <1>8, <1>9, <1>11, FrameParts
<1>13. ASSUME NEW q \in 1..m
       PROVE  SlotType(Level, globals, locals, q) = SlotType(Level, globals, res.local_bindings, q)
  <2>1. CASE Level # 1
    <3>1. m = k
      BY <1>4, <1>7, <1>8, <2>1
    <3> QED
      BY <1>7, <2>1, <3>1 DEF SlotType
  <2>2. CASE Level = 1 /\ q <= Len(globals)
    BY <2>2 DEF SlotType
  <2>3. CASE Level = 1 /\ ~(q <= Len(globals))
    <3>1. q - Len(globals) \in 1..k
      BY <1>1, <1>4, <1>7, <1>8, <2>3 DEF globals
    <3> QED
      BY <1>7, <2>3, <3>1 DEF SlotType
  <2> QED
    BY <2>1, <2>2, <2>3
<1>14. FrameOf(Level, globals, locals, m) = FrameOf(Level, globals, res.local_bindings, m)
  BY <1>13 DEF FrameOf
<1>15. \A q \in 1..k : q \in 1..Len(locals)
  BY <1>4, <1>7
<1> QED
  BY <1>7, <1>10, <1>12, <1>14, <1>15 DEF m, locals, globals, old_count

\* The frame in which a statement is opened is the one to which its jumps lead.
Alike(old, new) ==
    new.params = old.params /\ new.ret_type = old.ret_type /\ new.stack_size = old.stack_size

StartsHere(gen, v, frame, S, T) ==
    /\ v \in OpenVisits /\ v.old_count = gen.stack_size
    /\ v.kind # "block" => v.jump \in JumpsIn(gen.code, S) /\ v.jump + 2 \in S /\ T[v.jump + 2] = frame
    /\ v.kind = "while" => v.start \in S /\ T[v.start] = frame

\* Opening a statement keeps the types when its record says where it starts.
LEMMA OpeningTyped ==
  ASSUME NEW sigs, Typable(sigs), Compiling, Clean, UNCHANGED <<program, global_bindings>>,
         NEW gen, Alike(Gen, gen), NEW S, NEW T,
         Kept(Len(program), Env(sigs), Below0, TheFrame, gen, Visits, S, T),
         NEW v, StartsHere(gen, v, TheFrame, S, T),
         NEW res, res.local_bindings = Res.local_bindings, Put(gen, res, Append(Visits, v))
  PROVE  TypingHolds(sigs)'
<1>1. Kept(Len(program), Env(sigs), Below0, TheFrame, gen, Append(Visits, v), S, T)
  BY KeptOpened DEF StartsHere
<1>2. FrameAt(Level, global_bindings, gen, res) = TheFrame
  BY FrameStays DEF Alike
<1>3. Structured(sigs, gen, res, Append(Visits, v))
  BY <1>1, <1>2 DEF Structured, KeptNow, Alike
<1> QED
  BY <1>3, StructuredTyped

\* A scope does not change the locals when it is entered.
LEMMA ScopeEntered ==
  ASSUME NEW res, IsResolver(res)
  PROVE  /\ EnterScope(res).local_bindings = res.local_bindings
         /\ EnterScope(EnterLoop(res)).local_bindings = res.local_bindings
BY DEF EnterScope, EnterLoop, IsResolver

\* A block opens.
LEMMA OpenBlockTyped ==
  ASSUME NEW sigs, Typable(sigs), Clean', OpenBlock
  PROVE  TypingHolds(sigs)'
<1> DEFINE v == Visit("block", Gen.stack_size, 0, 0)
<1>1. /\ Compiling /\ UNCHANGED <<program, global_bindings>> /\ Put(Gen, EnterScope(Res), Append(Visits, v))
  BY DEF OpenBlock, Opening, Statement
<1>2. Clean
  BY <1>1, CleanBefore, HelpersGo DEF Typable, Put
<1>3. IsResolver(Res) /\ IsGen(Len(program), Gen)
  BY <1>1, CurrentHeld DEF Typable
<1>4. PICK S, T : Kept(Len(program), Env(sigs), Below0, TheFrame, Gen, Visits, S, T)
  BY <1>1, <1>2, CurrentKept DEF KeptNow
<1>5. StartsHere(Gen, v, TheFrame, S, T)
  BY <1>3 DEF Visit, OpenVisits, StartsHere, IsGen
<1> HIDE DEF v
<1> QED
  BY <1>1, <1>2, <1>3, <1>4, <1>5, OpeningTyped, ScopeEntered DEF Alike

\* A condition in front of a branch or a loop.
LEMMA TestedGoes ==
  ASSUME NEW gen
  PROVE  Goes(gen, WriteJump(Condition(gen), "JumpIfNot"))
<1>1. Goes(gen, Condition(gen))
  BY CodersGo
<1>2. Goes(Condition(gen), WriteJump(Condition(gen), "JumpIfNot"))
  BY WritersGo
<1> QED
  BY <1>1, <1>2, GoesTwice

\* An if statement begins: its condition is popped on both ways.
LEMMA BeginIfTyped ==
  ASSUME NEW sigs, Typable(sigs), Clean', BeginIf
  PROVE  TypingHolds(sigs)'
<1> DEFINE gen == WriteJump(Condition(Gen), "JumpIfNot")
           v == Visit("then", gen.stack_size, JumpArg(gen), 0)
<1>1. /\ Compiling /\ UNCHANGED <<program, global_bindings>> /\ Put(gen, EnterScope(Res), Append(Visits, v))
  BY DEF BeginIf, Opening, Statement
<1>2. Goes(Gen, gen)
  BY TestedGoes
<1>3. Clean
  BY <1>1, <1>2, CleanBefore DEF Typable, Put
<1>4. IsResolver(Res)
  BY <1>1, CurrentHeld DEF Typable
<1>5. ~Gen.panicked /\ ~Gen.misplaced /\ KeptNow(sigs, Gen, Visits, TheFrame)
  BY <1>1, <1>3, CurrentKept
<1>6. PICK R, Q : Kept(Len(program), Env(sigs), Below0, TheFrame, Gen, Visits, R, Q)
  BY <1>5 DEF KeptNow
<1>7. PICK S, T : /\ Kept(Len(program), Env(sigs), Below0, TheFrame, gen, Visits, S, T)
                  /\ JumpArg(gen) \in JumpsIn(gen.code, S) /\ JumpArg(gen) + 2 \in S
                  /\ T[JumpArg(gen) + 2] = TheFrame /\ SameButCode(Gen, gen)
  BY <1>5, <1>6, TestKept
<1> HIDE DEF gen
<1>8. JumpArg(gen) \in Int /\ gen.stack_size \in Nat
  BY <1>7, KeptFacts DEF JumpArg, Here
<1>9. StartsHere(gen, v, TheFrame, S, T)
  BY <1>7, <1>8 DEF Visit, OpenVisits, StartsHere
<1> HIDE DEF v
<1> QED
  BY <1>1, <1>3, <1>4, <1>7, <1>9, OpeningTyped, ScopeEntered DEF Alike, SameButCode

\* A loop begins.
LEMMA BeginWhileTyped ==
  ASSUME NEW sigs, Typable(sigs), Clean', BeginWhile
  PROVE  TypingHolds(sigs)'
<1> DEFINE begun == BeginLoop(Gen)
           gen == WriteJump(Condition(begun), "JumpIfNot")
           v == Visit("while", gen.stack_size, JumpArg(gen), Here(Gen))
<1>1. /\ Compiling /\ UNCHANGED <<program, global_bindings>>
      /\ Put(gen, EnterScope(EnterLoop(Res)), Append(Visits, v))
  BY DEF BeginWhile, Statement
<1>2. Goes(Gen, begun) /\ Goes(begun, gen)
  BY TestedGoes, HelpersGo
<1>3. Goes(Gen, gen)
  BY <1>2, GoesTwice
<1>4. Clean
  BY <1>1, <1>3, CleanBefore DEF Typable, Put
<1>5. IsResolver(Res) /\ IsGen(Len(program), Gen)
  BY <1>1, CurrentHeld DEF Typable
<1>6. ~Gen.panicked /\ ~Gen.misplaced /\ KeptNow(sigs, Gen, Visits, TheFrame)
  BY <1>1, <1>4, CurrentKept
<1>7. PICK R, Q : Kept(Len(program), Env(sigs), Below0, TheFrame, Gen, Visits, R, Q)
  BY <1>6 DEF KeptNow
<1>8. Kept(Len(program), Env(sigs), Below0, TheFrame, begun, Visits, R, Q)
  BY <1>7, KeptBegun
<1>9. /\ ~begun.panicked /\ ~begun.misplaced /\ begun.code = Gen.code
      /\ begun.params = Gen.params /\ begun.ret_type = Gen.ret_type /\ begun.stack_size = Gen.stack_size
  BY <1>5, <1>6 DEF BeginLoop, IsGen, GenFields
<1> HIDE DEF begun
<1>10. PICK S, T : /\ Kept(Len(program), Env(sigs), Below0, TheFrame, gen, Visits, S, T)
                   /\ Onward(R, Q, S, T)
                   /\ JumpArg(gen) \in JumpsIn(gen.code, S) /\ JumpArg(gen) + 2 \in S
                   /\ T[JumpArg(gen) + 2] = TheFrame /\ SameButCode(begun, gen)
  BY <1>8, <1>9, TestKept
<1> HIDE DEF gen
<1>11. JumpArg(gen) \in Int /\ gen.stack_size \in Nat
  BY <1>10, KeptFacts DEF JumpArg, Here
<1>12. Here(Gen) \in R /\ Q[Here(Gen)] = TheFrame /\ Here(Gen) \in Nat
  BY <1>7, KeptFacts DEF Here
<1>13. Here(Gen) \in S /\ T[Here(Gen)] = TheFrame
  BY <1>10, <1>12 DEF Onward
<1>14. StartsHere(gen, v, TheFrame, S, T)
  BY <1>10, <1>11, <1>12, <1>13 DEF Visit, OpenVisits, StartsHere
<1>15. Alike(Gen, gen)
  BY <1>9, <1>10 DEF Alike, SameButCode
<1> HIDE DEF v
<1> QED
  BY <1>1, <1>4, <1>5, <1>10, <1>14, <1>15, OpeningTyped, ScopeEntered

\* What is known of the innermost open statement where only its locals are gone.
LEMMA LastFacts ==
  ASSUME NEW n, NEW e, NEW base, NEW frame, NEW gen, NEW visits, NEW S, NEW T,
         Kept(n, e, base, frame, gen, visits, S, T), visits # <<>>,
         NEW v, v = Last(visits), Len(frame) = base + v.old_count
  PROVE  /\ v.kind # "block" => v.jump \in JumpsIn(gen.code, S) /\ v.jump + 2 \in S /\ T[v.jump + 2] = frame
         /\ v.kind = "while" => v.start \in S /\ T[v.start] = frame
<1> DEFINE j == Len(visits)
<1>1. frame \in FrameTypes /\ visits \in Seq(OpenVisits) /\ PlacesOf(gen, visits, S)
      /\ VisitsTyped(base, frame, T, visits)
  <2>1. frame \in FrameTypes
    BY KeptFacts
  <2> QED
    BY <2>1 DEF Kept, TypedAt
<1>2. j \in DOMAIN visits /\ v = visits[j]
  BY <1>1, VisitClosed
<1> HIDE DEF j
<1>3. Part(frame, Len(frame)) = frame
  BY <1>1, PartsOfParts
<1>4. Part(frame, base + visits[j].old_count) = frame
  BY <1>2, <1>3
<1>5. v.kind # "block" => v.jump \in JumpsIn(gen.code, S) /\ v.jump + 2 \in S
  BY <1>1, <1>2 DEF PlacesOf
<1>6. v.kind = "while" => v.start \in S
  BY <1>1, <1>2 DEF PlacesOf
<1>7. v.kind # "block" => T[v.jump + 2] = frame
  BY <1>1, <1>2, <1>4 DEF VisitsTyped
<1>8. v.kind = "while" => T[v.start] = frame
  BY <1>1, <1>2, <1>4 DEF VisitsTyped
<1> QED
  BY <1>5, <1>6, <1>7, <1>8

\* A scope and a loop that are left or entered change no other part of the analysis.
LEMMA ScopeLeft ==
  ASSUME NEW res, IsResolver(res)
  PROVE  /\ DOMAIN ExitScope(res) = DOMAIN res
         /\ EnterScope(ExitScope(res)).local_bindings = ExitScope(res).local_bindings
         /\ ExitLoop(ExitScope(res)).local_bindings = ExitScope(res).local_bindings
<1>1. DOMAIN ExitScope(res) = DOMAIN res
  BY DEF ExitScope
<1>2. "local_bindings" \in DOMAIN ExitScope(res)
  BY <1>1 DEF IsResolver
<1> QED
  BY <1>1, <1>2 DEF EnterScope, ExitLoop

\* Where a statement ends its locals are gone.
Inner == Part(TheFrame, Below0 + Last(Visits).old_count)

Shrunk(gen) ==
    gen.params = Gen.params /\ gen.ret_type = Gen.ret_type /\ gen.stack_size = Last(Visits).old_count

\* At the end of a block its locals are popped, and the frame is the one at its
\* start.
LEMMA DoneKept ==
  ASSUME NEW sigs, Typable(sigs), Compiling, Clean, Visits # <<>>
  PROVE  /\ KeptNow(sigs, BlockDone, Visits, Inner)
         /\ Shrunk(BlockDone) /\ IsGen(Len(program), BlockDone) /\ BlockDone.loop_starts = Gen.loop_starts
         /\ Last(Visits) \in OpenVisits /\ Visits \in Seq(OpenVisits)
         /\ Len(Inner) = Below0 + Last(Visits).old_count
<1>1. KeptNow(sigs, Gen, Visits, TheFrame) /\ Visits \in Seq(OpenVisits)
  BY CurrentKept
<1>2. PICK R, Q : Kept(Len(program), Env(sigs), Below0, TheFrame, Gen, Visits, R, Q)
  BY <1>1 DEF KeptNow
<1>3. PICK S, T : Kept(Len(program), Env(sigs), Below0, Inner, BlockDone, Visits, S, T)
  BY <1>2, DoneTyped DEF Inner, BlockDone
<1>4. Last(Visits) \in OpenVisits
  BY <1>1, VisitClosed
<1>5. Last(Visits).old_count \in Nat
  BY <1>4 DEF OpenVisits
<1>6. IsGen(Len(program), Gen)
  BY <1>2 DEF Kept
<1>7. Shrunk(BlockDone) /\ IsGen(Len(program), BlockDone) /\ BlockDone.loop_starts = Gen.loop_starts
  BY <1>5, <1>6, PopLocalsEffect DEF BlockDone, Shrunk
<1>8. Len(Inner) = Below0 + Last(Visits).old_count
  BY <1>3, <1>7, KeptFacts DEF Shrunk
<1> QED
  BY <1>1, <1>3, <1>4, <1>7, <1>8 DEF KeptNow

\* Closing a statement keeps the types when its code does.
LEMMA ClosingTyped ==
  ASSUME NEW sigs, Typable(sigs), Compiling, Clean, UNCHANGED <<program, global_bindings>>, Visits # <<>>,
         NEW gen, Shrunk(gen), NEW visits, KeptNow(sigs, gen, visits, Inner),
         NEW res, res.local_bindings = ExitScope(Res).local_bindings, Put(gen, res, visits)
  PROVE  TypingHolds(sigs)'
<1>1. /\ FrameAt(Level, global_bindings, gen, res) = Inner
      /\ \A q \in DOMAIN res.local_bindings :
            q \in DOMAIN Res.local_bindings /\ res.local_bindings[q] = Res.local_bindings[q]
  BY FrameCloses DEF Shrunk, Inner
<1>2. Structured(sigs, gen, res, visits)
  BY <1>1 DEF Structured, Shrunk
<1> QED
  BY <1>2, StructuredTyped

\* A block closes.
LEMMA CloseBlockTyped ==
  ASSUME NEW sigs, Typable(sigs), Clean', CloseBlock
  PROVE  TypingHolds(sigs)'
<1>1. /\ Compiling /\ UNCHANGED <<program, global_bindings>> /\ Visits # <<>>
      /\ Put(BlockDone, ExitScope(Res), Front(Visits))
  BY DEF CloseBlock, Closing
<1>2. Goes(Gen, BlockDone)
  BY HelpersGo DEF BlockDone
<1>3. Clean
  BY <1>1, <1>2, CleanBefore DEF Typable, Put
<1>4. KeptNow(sigs, BlockDone, Visits, Inner) /\ Shrunk(BlockDone)
  BY <1>1, <1>3, DoneKept
<1>5. KeptNow(sigs, BlockDone, Front(Visits), Inner)
  BY <1>1, <1>4, KeptClosed DEF KeptNow
<1> QED
  BY <1>1, <1>3, <1>4, <1>5, ClosingTyped

\* The end of a branch.
LEMMA BranchEndTyped ==
  ASSUME NEW sigs, Typable(sigs), Clean', NEW kind \in {"then", "else"}, Closing(kind),
         Put(PatchJumpToNext(BlockDone, Last(Visits).jump), ExitScope(Res), Front(Visits))
  PROVE  TypingHolds(sigs)'
<1> DEFINE jump == Last(Visits).jump
           patched == PatchToNext(BlockDone, {jump})
<1>1. /\ Compiling /\ UNCHANGED <<program, global_bindings>> /\ Visits # <<>>
      /\ Last(Visits).kind = kind /\ Put(patched, ExitScope(Res), Front(Visits))
  BY DEF Closing, PatchJumpToNext
<1>2. Goes(Gen, BlockDone) /\ Goes(BlockDone, patched)
  BY HelpersGo DEF BlockDone
<1>3. Goes(Gen, patched)
  BY <1>2, GoesTwice
<1>4. Clean /\ CleanGen(Level = 1, patched)
  BY <1>1, <1>3, CleanBefore DEF Typable, Put
<1>5. /\ KeptNow(sigs, BlockDone, Visits, Inner) /\ Shrunk(BlockDone) /\ IsGen(Len(program), BlockDone)
      /\ Len(Inner) = Below0 + Last(Visits).old_count
  BY <1>1, <1>4, DoneKept
<1>6. PICK S, T : Kept(Len(program), Env(sigs), Below0, Inner, BlockDone, Visits, S, T)
  BY <1>5 DEF KeptNow
<1>7. jump \in JumpsIn(BlockDone.code, S) /\ T[jump + 2] = Inner
  BY <1>1, <1>5, <1>6, LastFacts
<1>8. Shrunk(patched)
  BY <1>5, PatchWrites DEF Shrunk, Writes, SameBooks
<1> HIDE DEF jump
<1>9. Kept(Len(program), Env(sigs), Below0, Inner, patched, Visits, S, T)
  <2>1. {jump} \subseteq JumpsIn(BlockDone.code, S) /\ \A at \in {jump} : T[at + 2] = Inner
    BY <1>7
  <2>2. ~PatchToNext(BlockDone, {jump}).panicked
    BY <1>4 DEF CleanGen
  <2> QED
    BY <1>6, <2>1, <2>2, KeptPatched
<1> HIDE DEF patched
<1>10. KeptNow(sigs, patched, Front(Visits), Inner)
  BY <1>1, <1>9, KeptClosed DEF KeptNow
<1> QED
  BY <1>1, <1>4, <1>8, <1>10, ClosingTyped

\* An if statement ends, with or without an else.
LEMMA EndIfTyped ==
  ASSUME NEW sigs, Typable(sigs), Clean', EndIf \/ EndElse
  PROVE  TypingHolds(sigs)'
BY BranchEndTyped DEF EndIf, EndElse

\* A branch ends and the other begins, with the frame of the condition.
LEMMA BeginElseTyped ==
  ASSUME NEW sigs, Typable(sigs), Clean', BeginElse
  PROVE  TypingHolds(sigs)'
<1> DEFINE n == Len(program)
           e == Env(sigs)
           jump == Last(Visits).jump
           jumped == WriteJump(BlockDone, "Jump")
           patched == PatchToNext(jumped, {jump})
           v == Visit("else", jumped.stack_size, JumpArg(jumped), 0)
<1>1. /\ Compiling /\ UNCHANGED <<program, global_bindings>> /\ Visits # <<>>
      /\ Last(Visits).kind = "then" /\ Put(patched, EnterScope(ExitScope(Res)), Append(Front(Visits), v))
  BY DEF BeginElse, Closing, PatchJumpToNext
<1>2. Goes(Gen, BlockDone) /\ Goes(BlockDone, jumped) /\ Goes(jumped, patched)
  BY HelpersGo, WritersGo DEF BlockDone
<1>3. Goes(Gen, patched)
  BY <1>2, GoesTwice
<1>4. Clean /\ CleanGen(Level = 1, patched)
  BY <1>1, <1>3, CleanBefore DEF Typable, Put
<1>5. /\ KeptNow(sigs, BlockDone, Visits, Inner) /\ Shrunk(BlockDone) /\ IsGen(n, BlockDone)
      /\ Len(Inner) = Below0 + Last(Visits).old_count
  BY <1>1, <1>4, DoneKept
<1>6. PICK R, Q : Kept(n, e, Below0, Inner, BlockDone, Visits, R, Q)
  BY <1>5 DEF KeptNow
<1>7. PICK S, T : /\ Kept(n, e, Below0, Inner, jumped, Visits, S, T)
                  /\ JumpArg(jumped) \in JumpsIn(jumped.code, S) /\ JumpArg(jumped) + 2 \in S
                  /\ T[JumpArg(jumped) + 2] = Inner
  BY <1>6, JumpKept
<1>8. IsGen(n, jumped) /\ Shrunk(jumped)
  <2>1. Writes(n, BlockDone, jumped)
    BY <1>5, WriteJumpWrites, Written
  <2> QED
    BY <1>5, <2>1 DEF Shrunk, Writes, SameBooks
<1>9. JumpArg(jumped) \in Int /\ jumped.stack_size \in Nat /\ IsRow(jumped.code, S)
  BY <1>7, KeptFacts DEF JumpArg, Here
<1> HIDE DEF jumped
<1>10. jump \in JumpsIn(jumped.code, S) /\ T[jump + 2] = Inner
  BY <1>1, <1>5, <1>7, LastFacts
<1> HIDE DEF jump
<1>11. Shrunk(patched) /\ IsGen(n, patched)
  BY <1>8, PatchWrites DEF Shrunk, Writes, SameBooks
<1>12. ~PatchToNext(jumped, {jump}).panicked
  BY <1>4 DEF CleanGen
<1>13. Kept(n, e, Below0, Inner, patched, Visits, S, T)
  <2>1. {jump} \subseteq JumpsIn(jumped.code, S) /\ \A at \in {jump} : T[at + 2] = Inner
    BY <1>10
  <2> QED
    BY <1>7, <1>12, <2>1, KeptPatched
<1>14. JumpsIn(patched.code, S) = JumpsIn(jumped.code, S)
  BY <1>8, <1>9, <1>10, <1>12, PatchKeepsJumps
<1> HIDE DEF patched
<1>15. Kept(n, e, Below0, Inner, patched, Front(Visits), S, T)
  BY <1>1, <1>13, KeptClosed
<1>16. /\ v \in OpenVisits /\ v.old_count = patched.stack_size /\ v.kind = "else"
       /\ v.jump = JumpArg(jumped)
  BY <1>8, <1>9, <1>11 DEF Visit, OpenVisits, Shrunk
<1> HIDE DEF v
<1>17. Kept(n, e, Below0, Inner, patched, Append(Front(Visits), v), S, T)
  BY <1>7, <1>14, <1>15, <1>16, KeptOpened
<1>18. EnterScope(ExitScope(Res)).local_bindings = ExitScope(Res).local_bindings
  <2>1. IsResolver(Res)
    BY <1>1, CurrentHeld DEF Typable
  <2> QED
    BY <2>1, ScopeLeft DEF EnterScope
<1> QED
  BY <1>1, <1>4, <1>11, <1>17, <1>18, ClosingTyped DEF KeptNow

\* A loop ends: the jump back, the jump of the condition and the breaks join frames
\* that agree.
LEMMA EndWhileTyped ==
  ASSUME NEW sigs, Typable(sigs), Clean', EndWhile
  PROVE  TypingHolds(sigs)'
<1> DEFINE n == Len(program)
           e == Env(sigs)
           jump == Last(Visits).jump
           start == Last(Visits).start
           back == WriteJumpBack(BlockDone, start)
           patched == PatchToNext(back, {jump})
           ended == EndLoop(patched)
           landed == Landed(ended, start)
           starts == BlockDone.loop_starts
<1>1. /\ Compiling /\ UNCHANGED <<program, global_bindings>> /\ Visits # <<>>
      /\ Last(Visits).kind = "while" /\ Put(landed, ExitLoop(ExitScope(Res)), Front(Visits))
  BY DEF EndWhile, Closing, PatchJumpToNext
<1>2. /\ Goes(Gen, BlockDone) /\ Goes(BlockDone, back) /\ Goes(back, patched)
      /\ Goes(patched, ended) /\ Goes(ended, landed)
  BY HelpersGo, WritersGo DEF BlockDone
<1> HIDE DEF landed, ended, patched, back, jump, start
<1>3. Goes(Gen, landed)
  BY <1>2, GoesTwice
<1>4. Clean /\ CleanGen(Level = 1, landed)
  BY <1>1, <1>3, CleanBefore DEF Typable, Put
<1>5. /\ KeptNow(sigs, BlockDone, Visits, Inner) /\ Shrunk(BlockDone) /\ IsGen(n, BlockDone)
      /\ Len(Inner) = Below0 + Last(Visits).old_count
      /\ Visits \in Seq(OpenVisits) /\ Last(Visits) \in OpenVisits /\ starts = Gen.loop_starts
  BY <1>1, <1>4, DoneKept
<1>6. PICK R, Q : Kept(n, e, Below0, Inner, BlockDone, Visits, R, Q)
  BY <1>5 DEF KeptNow
<1>7. start \in R /\ Q[start] = Inner
  BY <1>1, <1>5, <1>6, LastFacts DEF start
<1>8. start \in Int
  BY <1>5 DEF start, OpenVisits
<1>9. Writes(n, BlockDone, back) /\ Writes(n, back, patched)
  <2>1. Writes(n, BlockDone, back)
    BY <1>5, <1>8, WriteJumpBackWrites DEF back
  <2> QED
    BY <2>1, PatchWrites DEF Writes, patched
<1>10. /\ starts \in Seq(Nat) /\ Len(starts) \in Nat \ {0} /\ start = starts[Len(starts)] /\ starts # <<>>
  <2>1. starts \in Seq(Nat)
    BY <1>5 DEF IsGen
  <2>2. StartsMatch(starts, Visits)
    BY <1>1, <1>5, CurrentHeld DEF Typable, KeepsPlaces
  <2>3. Len(starts) \in Nat \ {0} /\ start = starts[Len(starts)]
    BY <1>1, <1>5, <2>1, <2>2, MatchEnded DEF start
  <2> QED
    BY <2>1, <2>3, EmptySeq
<1>11. patched.loop_starts = starts /\ IsGen(n, patched) /\ Shrunk(patched)
  BY <1>5, <1>9 DEF Writes, SameBooks, Shrunk
<1> HIDE DEF starts
<1>12. IsGen(n, ended) /\ ended.stack_size = patched.stack_size
       /\ ended.params = patched.params /\ ended.ret_type = patched.ret_type
  BY <1>10, <1>11, EndLoopEffect DEF ended
<1>13. Shrunk(landed)
  <2>1. Writes(n, ended, landed)
    BY <1>12, RecordsWrite DEF landed
  <2> QED
    BY <1>11, <1>12, <2>1 DEF Writes, SameBooks, Shrunk
<1>14. ~landed.panicked
  BY <1>4 DEF CleanGen
<1>15. ~patched.panicked
  BY <1>11, <1>14, EndedPanics DEF landed, ended
<1>16. ~back.panicked
  BY <1>9, <1>15, PatchedPanics DEF Writes, patched
<1>17. PICK S, T : Kept(n, e, Below0, Inner, back, Visits, S, T) /\ Onward(R, Q, S, T)
  BY <1>6, <1>7, <1>16, BackKept DEF back
<1>18. jump \in JumpsIn(back.code, S) /\ T[jump + 2] = Inner
  BY <1>1, <1>5, <1>17, LastFacts DEF jump
<1>19. T[start] = Inner
  BY <1>7, <1>17 DEF Onward
<1>20. Kept(n, e, Below0, Inner, patched, Visits, S, T)
  <2>1. {jump} \subseteq JumpsIn(back.code, S) /\ \A at \in {jump} : T[at + 2] = Inner
    BY <1>18
  <2> QED
    BY <1>15, <1>17, <2>1, KeptPatched DEF patched
<1>21. Kept(n, e, Below0, Inner, landed, Visits, S, T)
  <2>1. patched.loop_starts # <<>> /\ T[patched.loop_starts[Len(patched.loop_starts)]] = Inner
    BY <1>10, <1>11, <1>19
  <2>2. ~Landed(EndLoop(patched), start).panicked
    BY <1>14 DEF landed, ended
  <2> QED
    BY <1>20, <2>1, <2>2, EndLoopKept DEF landed, ended
<1>22. KeptNow(sigs, landed, Front(Visits), Inner)
  BY <1>1, <1>21, KeptClosed DEF KeptNow
<1>23. ExitLoop(ExitScope(Res)).local_bindings = ExitScope(Res).local_bindings
  BY <1>1, CurrentHeld, ScopeLeft DEF Typable
<1> QED
  BY <1>1, <1>4, <1>13, <1>22, <1>23, ClosingTyped

\* The loop that a break or a continue names is open; the frame with which it began
\* is the one at hand when there are no locals of blocks inside it.
LEMMA LoopIsOpen ==
  ASSUME NEW starts, StartsMatch(starts, Visits), NEW k \in 1..Len(starts)
  PROVE  \E j \in DOMAIN Visits : Loop(k) = Visits[j] /\ Visits[j].kind = "while"
<1> DEFINE found == CHOOSE i \in Whiles(Visits) : Cardinality(Inside(Visits, i)) = k - 1
<1>1. \E i \in Whiles(Visits) : Cardinality(Inside(Visits, i)) = k - 1
  BY DEF StartsMatch
<1>2. found \in Whiles(Visits)
  BY <1>1
<1>3. Loop(k) = Visits[found]
  BY DEF Loop, Whiles, Inside
<1> HIDE DEF found
<1> QED
  BY <1>2, <1>3 DEF Whiles

\* Where no variable was declared since, the frame at the start of a loop is the one
\* here.
LEMMA LoopFrame ==
  ASSUME NEW n, NEW e, NEW base, NEW frame, NEW gen, NEW S, NEW T,
         Kept(n, e, base, frame, gen, Visits, S, T),
         StartsMatch(gen.loop_starts, Visits), NEW k \in 1..Len(gen.loop_starts),
         ~(gen.stack_size > Loop(k).old_count)
  PROVE  /\ Loop(k).start \in S /\ T[Loop(k).start] = frame
         /\ Loop(k).start = gen.loop_starts[Len(gen.loop_starts) - (k - 1)]
<1>1. PICK j \in DOMAIN Visits : Loop(k) = Visits[j] /\ Visits[j].kind = "while"
  BY LoopIsOpen
<1>2. Loop(k).start = gen.loop_starts[Len(gen.loop_starts) - (k - 1)]
  BY LoopFound
<1>3. /\ frame \in FrameTypes /\ Len(frame) \in Nat /\ base \in Nat /\ gen.stack_size \in Nat
      /\ Len(frame) = base + gen.stack_size /\ DOMAIN Visits = 1..Len(Visits)
      /\ \A i \in 1..Len(Visits) : /\ Visits[i].old_count \in Nat
                                   /\ base + Visits[i].old_count \in 0..Len(frame)
  BY KeptFacts
<1>4. PlacesOf(gen, Visits, S) /\ VisitsTyped(base, frame, T, Visits)
  BY DEF Kept, TypedAt
<1>5. base + Visits[j].old_count = Len(frame)
  <2>1. /\ Visits[j].old_count \in Nat /\ base + Visits[j].old_count <= Len(frame)
        /\ ~(gen.stack_size > Visits[j].old_count)
    BY <1>1, <1>3
  <2> QED
    BY <1>3, <2>1
<1>6. Part(frame, Len(frame)) = frame
  BY <1>3, PartsOfParts
<1>7. T[Visits[j].start] = frame
  BY <1>1, <1>4, <1>5, <1>6 DEF VisitsTyped
<1>8. Visits[j].start \in S
  BY <1>1, <1>4 DEF PlacesOf
<1> QED
  BY <1>1, <1>2, <1>7, <1>8

\* Leaving a loop keeps what the generator has.
LEMMA LeavesGoes ==
  ASSUME NEW gen, NEW at, NEW loop, NEW goal, NEW k
  PROVE  Goes(gen, Leaves(Exits(gen, at, loop, goal), k))
<1> DEFINE marked == Exits(gen, at, loop, goal)
<1>1. Goes(gen, marked)
  BY HelpersGo
<1> HIDE DEF marked
<1>2. Goes(marked, Leaves(marked, k))
  BY HelpersGo DEF Leaves
<1> QED
  BY <1>1, <1>2, GoesTwice DEF marked

\* What is recorded of such a statement does not matter here.
LEMMA LeavesKeeps ==
  ASSUME NEW n, NEW gen, IsGen(n, gen), NEW at, NEW loop, NEW goal, NEW k
  PROVE  LET new == Leaves(Exits(gen, at, loop, goal), k)
         IN /\ IsGen(n, new) /\ Alike(gen, new) /\ new.code = gen.code /\ new.constants = gen.constants
            /\ new.loop_starts = gen.loop_starts /\ new.break_backlog = gen.break_backlog
            /\ new.heights = gen.heights /\ new.panicked = gen.panicked
            /\ ~new.leaky => ~(gen.stack_size > Loop(k).old_count)
<1> DEFINE marked == Exits(gen, at, loop, goal)
           new == Leaves(marked, k)
<1>1. IsGen(n, marked)
  BY RecordsWrite DEF Writes
<1>2. /\ Alike(gen, marked) /\ marked.code = gen.code /\ marked.constants = gen.constants
      /\ marked.loop_starts = gen.loop_starts /\ marked.break_backlog = gen.break_backlog
      /\ marked.heights = gen.heights /\ marked.panicked = gen.panicked
  BY <1>1 DEF Exits, IsGen, GenFields, Alike
<1> HIDE DEF marked
<1>3. IsGen(n, new)
  BY <1>1, RecordsWrite DEF Leaves, Writes
<1>4. /\ Alike(marked, new) /\ new.code = marked.code /\ new.constants = marked.constants
      /\ new.loop_starts = marked.loop_starts /\ new.break_backlog = marked.break_backlog
      /\ new.heights = marked.heights /\ new.panicked = marked.panicked
      /\ ~new.leaky => ~(marked.stack_size > Loop(k).old_count)
  BY <1>1 DEF Leaves, IsGen, GenFields, Alike
<1> QED
  BY <1>2, <1>3, <1>4 DEF Alike, marked

\* A continue keeps the types.
LEMMA ContinueTyped ==
  ASSUME NEW sigs, Typable(sigs), Clean', NEW k, Continue(k)
  PROVE  TypingHolds(sigs)'
<1> DEFINE n == Len(program)
           e == Env(sigs)
           start == Gen.loop_starts[Len(Gen.loop_starts) - k + 1]
           jumped == WriteJumpBack(Gen, start)
           gen == Leaves(Exits(jumped, JumpArg(jumped), Loop(k).start, Loop(k).start), k)
<1>1. /\ Compiling /\ UNCHANGED <<program, global_bindings>> /\ k \in 1..Res.loop_depth
            /\ Put(gen, Res, Visits)
  BY DEF Continue, Statement
<1>2. Goes(Gen, jumped) /\ Goes(jumped, gen)
  BY WritersGo, LeavesGoes
<1>3. Goes(Gen, gen)
  BY <1>2, GoesTwice
<1>4. Clean /\ CleanGen(Level = 1, gen)
  BY <1>1, <1>3, CleanBefore DEF Typable, Put
<1>5. /\ StartsMatch(Gen.loop_starts, Visits) /\ IsGen(n, Gen) /\ Res.loop_depth = Len(Gen.loop_starts)
      /\ Gen.loop_starts \in Seq(Nat) /\ Len(Gen.loop_starts) \in Nat
  <2>1. KeepsPlaces(Gen, Visits) /\ IsGen(n, Gen) /\ LoopsMatch(Gen, Res, Visits)
    BY <1>1, CurrentHeld DEF Typable
  <2>2. Gen.loop_starts \in Seq(Nat)
    BY <2>1 DEF IsGen
  <2> QED
    BY <2>1, <2>2, LenProperties DEF KeepsPlaces, LoopsMatch
<1>6. k \in 1..Len(Gen.loop_starts) /\ Len(Gen.loop_starts) - k + 1 = Len(Gen.loop_starts) - (k - 1)
      /\ Len(Gen.loop_starts) - k + 1 \in 1..Len(Gen.loop_starts)
  BY <1>1, <1>5
<1>7. start \in Nat
  BY <1>5, <1>6, ElementOfSeq
<1>8. IsGen(n, jumped) /\ SameBooks(Gen, jumped)
  BY <1>5, <1>7, WriteJumpBackWrites DEF Writes
<1> HIDE DEF jumped
<1>9. /\ IsGen(n, gen) /\ Alike(jumped, gen) /\ gen.code = jumped.code /\ gen.constants = jumped.constants
      /\ gen.loop_starts = jumped.loop_starts /\ gen.break_backlog = jumped.break_backlog
      /\ gen.heights = jumped.heights /\ gen.panicked = jumped.panicked
      /\ ~gen.leaky => ~(jumped.stack_size > Loop(k).old_count)
  BY <1>8, LeavesKeeps
<1> HIDE DEF gen
<1>10. ~jumped.panicked /\ ~(Gen.stack_size > Loop(k).old_count)
  BY <1>4, <1>8, <1>9 DEF CleanGen, SameBooks
<1>11. PICK S, T : Kept(n, e, Below0, TheFrame, Gen, Visits, S, T)
  BY <1>1, <1>4, CurrentKept DEF KeptNow
<1>12. start \in S /\ T[start] = TheFrame
  BY <1>5, <1>6, <1>10, <1>11, LoopFrame
<1> HIDE DEF start
<1>13. PICK S2, T2 : Kept(n, e, Below0, TheFrame, jumped, Visits, S2, T2)
  BY <1>10, <1>11, <1>12, BackKept DEF jumped
<1>14. Kept(n, e, Below0, TheFrame, gen, Visits, S2, T2)
  BY <1>9, <1>13, KeptSame DEF Alike
<1>15. FrameAt(Level, global_bindings, gen, Res) = TheFrame /\ Alike(Gen, gen)
  BY <1>8, <1>9, FrameStays DEF Alike, SameBooks
<1>16. Structured(sigs, gen, Res, Visits)
  BY <1>14, <1>15 DEF Structured, KeptNow, Alike
<1> QED
  BY <1>1, <1>4, <1>16, StructuredTyped

\* A break keeps the types, and is recorded with the frame that the loop began with.
LEMMA BreakTyped ==
  ASSUME NEW sigs, Typable(sigs), Clean', NEW k, Break(k)
  PROVE  TypingHolds(sigs)'
<1> DEFINE n == Len(program)
           e == Env(sigs)
           jumped == WriteJump(Gen, "Jump")
           at == JumpArg(jumped)
           loop == Len(jumped.loop_starts) - k
           broken == [jumped EXCEPT !.break_backlog = @ \cup {[jump |-> at, loop |-> loop]}]
           gen == Leaves(Exits(broken, at, Loop(k).start, Unknown), k)
<1>1. /\ Compiling /\ UNCHANGED <<program, global_bindings>> /\ k \in 1..Res.loop_depth
            /\ Put(gen, Res, Visits)
  BY DEF Break, Statement
<1>2. Goes(Gen, jumped) /\ Goes(jumped, broken) /\ Goes(broken, gen)
  BY WritersGo, HelpersGo, LeavesGoes
<1>3. Goes(Gen, gen)
  BY <1>2, GoesTwice
<1>4. Clean /\ CleanGen(Level = 1, gen)
  BY <1>1, <1>3, CleanBefore DEF Typable, Put
<1>5. /\ StartsMatch(Gen.loop_starts, Visits) /\ IsGen(n, Gen) /\ Res.loop_depth = Len(Gen.loop_starts)
      /\ Len(Gen.loop_starts) \in Nat
  <2>1. KeepsPlaces(Gen, Visits) /\ IsGen(n, Gen) /\ LoopsMatch(Gen, Res, Visits)
    BY <1>1, CurrentHeld DEF Typable
  <2>2. Gen.loop_starts \in Seq(Nat)
    BY <2>1 DEF IsGen
  <2> QED
    BY <2>1, <2>2, LenProperties DEF KeepsPlaces, LoopsMatch
<1>6. IsGen(n, jumped) /\ SameBooks(Gen, jumped)
  BY <1>5, WriteJumpWrites, Written DEF Writes
<1>7. PICK R, Q : Kept(n, e, Below0, TheFrame, Gen, Visits, R, Q)
  BY <1>1, <1>4, CurrentKept DEF KeptNow
<1>8. PICK S, T : /\ Kept(n, e, Below0, TheFrame, jumped, Visits, S, T)
                  /\ at \in JumpsIn(jumped.code, S) /\ at + 2 \in S /\ T[at + 2] = TheFrame
  BY <1>7, JumpKept
<1> HIDE DEF jumped, at
<1>9. /\ jumped.loop_starts = Gen.loop_starts /\ loop \in 0..(Len(jumped.loop_starts) - 1)
      /\ loop + 1 = Len(jumped.loop_starts) - (k - 1) /\ k \in 1..Len(jumped.loop_starts)
  BY <1>1, <1>5, <1>6 DEF SameBooks
<1> HIDE DEF loop
<1>10. /\ IsGen(n, broken) /\ Alike(jumped, broken) /\ broken.code = jumped.code
       /\ broken.constants = jumped.constants /\ broken.loop_starts = jumped.loop_starts
       /\ broken.heights = jumped.heights /\ broken.panicked = jumped.panicked
       /\ broken.break_backlog = jumped.break_backlog \cup {[jump |-> at, loop |-> loop]}
  BY <1>6 DEF IsGen, GenFields, Alike
<1> HIDE DEF broken
<1>11. /\ IsGen(n, gen) /\ Alike(broken, gen) /\ gen.code = broken.code /\ gen.constants = broken.constants
       /\ gen.loop_starts = broken.loop_starts /\ gen.break_backlog = broken.break_backlog
       /\ gen.heights = broken.heights
       /\ ~gen.leaky => ~(broken.stack_size > Loop(k).old_count)
  BY <1>10, LeavesKeeps
<1> HIDE DEF gen
<1>12. ~(jumped.stack_size > Loop(k).old_count)
  BY <1>4, <1>10, <1>11 DEF CleanGen, Alike
<1>13. T[jumped.loop_starts[loop + 1]] = TheFrame
  <2>1. StartsMatch(jumped.loop_starts, Visits)
    BY <1>5, <1>9
  <2>2. T[Loop(k).start] = TheFrame /\ Loop(k).start = jumped.loop_starts[Len(jumped.loop_starts) - (k - 1)]
    BY <1>8, <1>9, <1>12, <2>1, LoopFrame
  <2> QED
    BY <1>9, <2>2
<1>14. Kept(n, e, Below0, TheFrame, gen, Visits, S, T)
  <2>1. /\ gen.code = jumped.code /\ gen.constants = jumped.constants /\ gen.stack_size = jumped.stack_size
        /\ gen.loop_starts = jumped.loop_starts /\ gen.heights = jumped.heights
        /\ gen.break_backlog = jumped.break_backlog \cup {[jump |-> at, loop |-> loop]}
    BY <1>10, <1>11 DEF Alike
  <2>2. T[at + 2] = T[jumped.loop_starts[loop + 1]]
    BY <1>8, <1>13
  <2> QED
    BY <1>8, <1>9, <1>11, <2>1, <2>2, BreakKept
<1>15. Alike(Gen, gen)
  BY <1>6, <1>10, <1>11 DEF Alike, SameBooks
<1>16. FrameAt(Level, global_bindings, gen, Res) = TheFrame
  BY <1>15, FrameStays DEF Alike
<1>17. Structured(sigs, gen, Res, Visits)
  BY <1>14, <1>15, <1>16 DEF Structured, KeptNow, Alike
<1> QED
  BY <1>1, <1>4, <1>17, StructuredTyped

(***************************************************************************)
(* A function begins.                                                      *)
(***************************************************************************)
\* Its signature is known from now on, and where it is declared.
LEMMA SignatureAdded ==
  ASSUME NEW sigs, NEW globals, IsSequence(globals), SigsOK(sigs, globals), GlobalsOK(sigs, globals),
         NEW sig \in Signature, NEW globals2, sig.reach = Len(globals2),
         globals2 = globals \/ \E d : DataOK(Append(sigs, sig), d) /\ globals2 = Append(globals, d)
  PROVE  LET sigs2 == Append(sigs, sig)
         IN /\ Further(sigs, globals, sigs2, globals2)
            /\ SigsOK(sigs2, globals2) /\ GlobalsOK(sigs2, globals2)
            /\ Len(sigs2) = Len(sigs) + 1 /\ DOMAIN sigs2 = 1..(Len(sigs) + 1) /\ sigs2[Len(sigs) + 1] = sig
<1> DEFINE sigs2 == Append(sigs, sig)
<1>1. /\ Len(globals) \in Nat /\ DOMAIN globals = 1..Len(globals)
      /\ sigs \in Seq(Signature) /\ Len(sigs) \in Nat /\ DOMAIN sigs = 1..Len(sigs)
  BY Places, LenProperties DEF SigsOK
<1>2. /\ sigs2 \in Seq(Signature) /\ Len(sigs2) = Len(sigs) + 1 /\ DOMAIN sigs2 = 1..(Len(sigs) + 1)
      /\ \A k \in 1..Len(sigs) : sigs2[k] = sigs[k]
      /\ sigs2[Len(sigs) + 1] = sig
  BY <1>1, AppendProperties
<1>3. \A k \in 1..Len(sigs) : sigs[k].reach \in Nat /\ sigs[k].reach <= Len(globals)
  <2>1. \A k \in 1..Len(sigs) : sigs[k] \in Signature
    BY <1>1, ElementOfSeq
  <2> QED
    BY <1>1, <2>1 DEF Signature, SigsOK
<1> HIDE DEF sigs2
<1>4. /\ IsSequence(globals2) /\ Len(globals2) \in Nat /\ DOMAIN globals2 = 1..Len(globals2)
      /\ Len(globals) <= Len(globals2) /\ \A g \in 1..Len(globals) : globals2[g] = globals[g]
      /\ \A g \in 1..Len(globals2) : g \in 1..Len(globals) \/ DataOK(sigs2, globals2[g])
  <2>1. CASE globals2 = globals
    BY <1>1, <2>1
  <2>2. CASE \E d : DataOK(sigs2, d) /\ globals2 = Append(globals, d)
    <3>1. PICK d : DataOK(sigs2, d) /\ globals2 = Append(globals, d)
      BY <2>2
    <3>2. /\ IsSequence(globals2) /\ Len(globals2) = Len(globals) + 1
          /\ DOMAIN globals2 = 1..(Len(globals) + 1)
          /\ \A g \in 1..Len(globals) : globals2[g] = globals[g]
          /\ globals2[Len(globals) + 1] = d
      BY <3>1, Appended
    <3>3. \A g \in 1..(Len(globals) + 1) : g \in 1..Len(globals) \/ g = Len(globals) + 1
      BY <1>1
    <3>4. Len(globals) <= Len(globals) + 1 /\ Len(globals) + 1 \in Nat
      BY <1>1
    <3> QED
      BY <3>1, <3>2, <3>3, <3>4
  <2> QED
    BY <2>1, <2>2 DEF sigs2
<1>5. Further(sigs, globals, sigs2, globals2)
  <2>1. Len(sigs) <= Len(sigs2)
    BY <1>1, <1>2
  <2>2. \A k \in DOMAIN sigs : sigs2[k] = sigs[k] /\ sigs[k].reach <= Len(globals)
    BY <1>1, <1>2, <1>3
  <2>3. \A g \in DOMAIN globals : globals2[g] = globals[g]
    BY <1>1, <1>4
  <2> QED
    BY <1>1, <1>2, <1>4, <2>1, <2>2, <2>3 DEF Further
<1>6. SigsOK(sigs2, globals2)
  <2>1. ASSUME NEW k \in DOMAIN sigs2 PROVE sigs2[k].reach <= Len(globals2)
    <3>1. k \in 1..Len(sigs) \/ k = Len(sigs) + 1
      BY <1>1, <1>2
    <3>2. Len(globals) \in Nat /\ Len(globals2) \in Nat /\ Len(globals) <= Len(globals2)
      BY <1>1, <1>4
    <3>3. CASE k \in 1..Len(sigs)
      <4> DEFINE r == sigs2[k].reach
      <4>1. r \in Nat /\ r <= Len(globals)
        BY <1>2, <1>3, <3>3
      <4> HIDE DEF r
      <4>2. r <= Len(globals2)
        BY <3>2, <4>1
      <4> QED
        BY <4>2 DEF r
    <3>4. CASE k = Len(sigs) + 1
      <4>1. sigs2[k].reach = Len(globals2)
        BY <1>2, <3>4
      <4> QED
        BY <3>2, <4>1
    <3> QED
      BY <3>1, <3>3, <3>4
  <2>2. ASSUME NEW j \in DOMAIN sigs2, NEW k \in DOMAIN sigs2, j <= k PROVE sigs2[j].reach <= sigs2[k].reach
    <3>1. CASE k \in 1..Len(sigs)
      <4>1. j \in 1..Len(sigs)
        BY <1>1, <1>2, <2>2, <3>1
      <4> QED
        BY <1>1, <1>2, <2>2, <3>1, <4>1 DEF SigsOK
    <3>2. CASE k = Len(sigs) + 1
      BY <1>2, <2>1, <3>2
    <3> QED
      BY <1>1, <1>2, <3>1, <3>2
  <2> QED
    BY <1>2, <2>1, <2>2 DEF SigsOK
<1>7. GlobalsOK(sigs2, globals2)
  <2>1. ASSUME NEW g \in DOMAIN globals2 PROVE DataOK(sigs2, globals2[g])
    <3>1. CASE g \in 1..Len(globals)
      <4>1. DataOK(sigs, globals[g])
        BY <1>1, <3>1 DEF GlobalsOK
      <4> QED
        BY <1>4, <1>5, <3>1, <4>1, MoreData
    <3> QED
      BY <1>4, <3>1
  <2>2. Len(Natives) \in Nat /\ DOMAIN Natives = 1..Len(Natives) /\ Len(Natives) <= Len(globals)
    BY RegistryAssumption, LenProperties DEF GlobalsOK
  <2>3. \A i \in DOMAIN Natives : i \in 1..Len(globals)
    BY <1>1, <2>2
  <2>4. Len(Natives) <= Len(globals2)
    <3>1. Len(globals) <= Len(globals2) /\ Len(globals) \in Nat /\ Len(globals2) \in Nat
      BY <1>1, <1>4
    <3> QED
      BY <2>2, <3>1
  <2>5. \A i \in DOMAIN Natives : globals2[i].type = NativeTypes[i]
    BY <1>4, <2>3 DEF GlobalsOK
  <2> QED
    BY <2>1, <2>4, <2>5 DEF GlobalsOK
<1> QED
  BY <1>2, <1>5, <1>6, <1>7 DEF sigs2

\* What two joined sequences hold.
JoinedAs(r, s, c) ==
    /\ IsSequence(r) /\ DOMAIN r = 1..(Len(s) + Len(c))
    /\ \A i \in 1..Len(s) : r[i] = s[i]
    /\ \A i \in 1..Len(c) : r[Len(s) + i] = c[i]

\* Two sequences joined.
LEMMA JoinedIs ==
  ASSUME NEW s, IsSequence(s), NEW c, IsSequence(c)
  PROVE  JoinedAs(s \o c, s, c)
BY Joined DEF JoinedAs

\* Its frame begins with itself and its arguments.
LEMMA FunctionFrame ==
  ASSUME NEW k \in Nat, NEW params \in Seq(Types), NEW ret_type \in Types, NEW globals,
         \A i \in DOMAIN params : params[i] \notin {"Function", "NativeFunc"},
         NEW sigs, k \in DOMAIN sigs, sigs[k].params = params, sigs[k].ret_type = ret_type
  PROVE  LET locals == FunctionResolver(k, params, ret_type).local_bindings
         IN /\ DataOK(sigs, SelfData(k, params, ret_type))
            /\ \A q \in DOMAIN locals : DataOK(sigs, locals[q])
            /\ FrameOf(2, globals, locals, 1 + Len(params))
                 = <<[t |-> "Function", f |-> k]>> \o ArgTypes(params)
<1> DEFINE self == SelfData(k, params, ret_type)
           param(i) == VarData(ParamNames[i], [t |-> params[i], f |-> 0], <<>>, "None", ParamTag(k, i))
           given == [i \in DOMAIN params |-> param(i)]
           first == <<self>>
           locals == first \o given
           len == Len(params)
           head == <<[t |-> "Function", f |-> k]>>
<1>1. /\ len \in Nat /\ DOMAIN params = 1..len /\ ArgTypes(params) \in FrameTypes
      /\ Len(ArgTypes(params)) = len
      /\ \A i \in 1..len : ArgTypes(params)[i] = Of(params[i]) /\ params[i] \in Types
  BY ArgTypesFacts
<1>2. self.type = [t |-> "Function", f |-> k] /\ DataOK(sigs, self)
  <2>1. /\ self.type = [t |-> "Function", f |-> k] /\ self.params = params /\ self.ret_type = ret_type
        /\ self.type.t = "Function" /\ self.type.f = k
    BY DEF SelfData, VarData
  <2>2. self.type \in StaticType
    BY <2>1 DEF StaticType, Types
  <2> HIDE DEF self
  <2> QED
    BY <2>1, <2>2 DEF DataOK
<1>3. ASSUME NEW i \in 1..len PROVE DataOK(sigs, param(i)) /\ param(i).type = Of(params[i])
  <2>1. ParamTag(k, i) \in Int
    BY <1>1 DEF ParamTag
  <2>2. params[i] \in Types /\ params[i] \notin {"Function", "NativeFunc"}
    BY <1>1
  <2> QED
    BY <2>1, <2>2, PlainData DEF Of
<1> HIDE DEF param, self
<1>4. IsSequence(first) /\ Len(first) = 1 /\ first[1] = self
  BY SmallSequences
<1>5. IsSequence(given) /\ Len(given) = len /\ DOMAIN given = 1..len /\ \A i \in 1..len : given[i] = param(i)
  <2> DEFINE P == {param(i) : i \in 1..len}
  <2>1. given \in [1..len -> P]
    BY <1>1
  <2>2. given \in Seq(P)
    BY <1>1, <2>1
  <2>3. Len(given) = len
    BY <1>1, <2>1
  <2> QED
    BY <1>1, <2>2, <2>3, SeqIsSequence
<1> HIDE DEF first, given
<1>6. /\ DOMAIN locals = 1..(1 + len) /\ \A i \in 1..1 : locals[i] = first[i]
      /\ \A i \in 1..len : locals[1 + i] = given[i]
  <2>1. /\ DOMAIN locals = 1..(Len(first) + Len(given)) /\ \A i \in 1..Len(first) : locals[i] = first[i]
        /\ \A i \in 1..Len(given) : locals[Len(first) + i] = given[i]
    <3>1. JoinedAs(locals, first, given)
      BY <1>4, <1>5, JoinedIs
    <3> HIDE DEF locals, len
    <3> QED
      BY <3>1 DEF JoinedAs
  <2> HIDE DEF locals, len
  <2> QED
    BY <1>4, <1>5, <2>1
<1> HIDE DEF locals
<1>7. FunctionResolver(k, params, ret_type).local_bindings = locals
  BY DEF FunctionResolver, NewResolver, locals, first, given, self, param
<1>8. /\ DOMAIN (head \o ArgTypes(params)) = 1..(1 + len)
            /\ (head \o ArgTypes(params))[1] = [t |-> "Function", f |-> k]
      /\ \A i \in 1..len : (head \o ArgTypes(params))[1 + i] = Of(params[i])
      /\ IsSequence(head \o ArgTypes(params))
  <2>1. IsSequence(head) /\ Len(head) = 1 /\ head[1] = [t |-> "Function", f |-> k]
    BY SmallSequences
  <2>2. IsSequence(ArgTypes(params))
    BY <1>1, SeqIsSequence DEF FrameTypes
  <2> HIDE DEF head
  <2>3. /\ DOMAIN (head \o ArgTypes(params)) = 1..(1 + len)
        /\ \A i \in 1..1 : (head \o ArgTypes(params))[i] = head[i]
        /\ \A i \in 1..len : (head \o ArgTypes(params))[1 + i] = ArgTypes(params)[i]
        /\ IsSequence(head \o ArgTypes(params))
    <3> DEFINE both == head \o ArgTypes(params)
    <3>1. /\ IsSequence(both) /\ DOMAIN both = 1..(Len(head) + Len(ArgTypes(params)))
          /\ \A i \in 1..Len(head) : both[i] = head[i]
          /\ \A i \in 1..Len(ArgTypes(params)) : both[Len(head) + i] = ArgTypes(params)[i]
      <4>1. JoinedAs(both, head, ArgTypes(params))
        BY <2>1, <2>2, JoinedIs
      <4> HIDE DEF both, len
      <4> QED
        BY <4>1 DEF JoinedAs
    <3> HIDE DEF both, len
    <3>2. /\ IsSequence(both) /\ DOMAIN both = 1..(1 + len)
          /\ \A i \in 1..1 : both[i] = head[i]
          /\ \A i \in 1..len : both[1 + i] = ArgTypes(params)[i]
      BY <1>1, <2>1, <3>1
    <3> QED
      BY <3>2 DEF both
  <2> QED
    BY <1>1, <2>1, <2>3
<1> DEFINE entry == head \o ArgTypes(params)
           all == 1..(1 + len)
<1>9. IsSequence(entry) /\ DOMAIN entry = all
  BY <1>8
<1> HIDE DEF head
<1>10. \A q \in 1..(1 + len) : q = 1 \/ (q - 1 \in 1..len /\ q = 1 + (q - 1))
  BY <1>1
<1>11. ASSUME NEW q \in 1..(1 + len) PROVE DataOK(sigs, locals[q]) /\ locals[q].type = entry[q]
  <2>1. CASE q = 1
    BY <1>2, <1>4, <1>6, <1>8, <2>1
  <2>2. CASE q # 1
    <3>1. q - 1 \in 1..len /\ q = 1 + (q - 1)
      BY <1>10, <2>2
    <3> DEFINE i == q - 1
    <3>2. i \in 1..len /\ q = 1 + i
      BY <3>1
    <3> HIDE DEF i
    <3> QED
      BY <1>3, <1>5, <1>6, <1>8, <3>2
  <2> QED
    BY <2>1, <2>2
<1>12. \A q \in all : SlotType(2, globals, locals, q) = entry[q]
  <2> SUFFICES ASSUME NEW q \in all PROVE SlotType(2, globals, locals, q) = entry[q]
    OBVIOUS
  <2>1. SlotType(2, globals, locals, q) = locals[q].type
    BY DEF SlotType
  <2> QED
    BY <1>11, <2>1
<1> HIDE DEF entry
<1>13. FrameOf(2, globals, locals, 1 + len) = [q \in all |-> entry[q]]
  <2>1. FrameOf(2, globals, locals, 1 + len) = [q \in all |-> SlotType(2, globals, locals, q)]
    BY DEF FrameOf
  <2> HIDE DEF all
  <2> QED
    BY <1>12, <2>1
<1>14. entry = [q \in all |-> entry[q]]
  <2> HIDE DEF all
  <2>1. entry \in [DOMAIN entry -> Range(entry)]
    <3>1. entry \in Seq(Range(entry))
      BY <1>9 DEF IsSequence
    <3> QED
      BY <3>1, LenProperties
  <2> QED
    BY <1>9, <2>1
<1> QED
  BY <1>2, <1>6, <1>7, <1>11, <1>13, <1>14 DEF self, head, entry

\* A function without code.
LEMMA NewTyped ==
  ASSUME NEW e, e.entry \in FrameTypes, NEW params, NEW ret_type, NEW base, base = Len(e.entry)
  PROVE  TypedGen(e, base, e.entry, NewGenerator(params, ret_type), <<>>)
<1> DEFINE gen == NewGenerator(params, ret_type)
           S == {0}
           T == [q \in {0} |-> e.entry]
<1>1. /\ gen.code = <<>> /\ gen.constants = <<>> /\ gen.stack_size = 0 /\ gen.heights = {<<0, 0>>}
      /\ gen.break_backlog = {} /\ Len(<<>>) = 0 /\ DOMAIN <<>> = {}
  BY SmallSequences DEF NewGenerator
<1>2. base \in Nat
  BY LenProperties DEF FrameTypes
<1>3. IsRow(<<>>, S) /\ JumpsIn(<<>>, S) = {}
  BY EmptyRow, EmptySeq DEF JumpsIn
<1>4. Flow(e, gen.constants, gen.code, S, T)
  BY <1>1, <1>3 DEF Flow
<1>5. T[Len(gen.code)] = e.entry
  BY <1>1
<1>6. HeightsHold(base, gen.heights, S, T)
  BY <1>1, <1>2 DEF HeightsHold
<1>7. BreaksTyped(gen, T) /\ VisitsTyped(base, e.entry, T, <<>>)
  BY <1>1 DEF BreaksTyped, VisitsTyped
<1>8. Len(e.entry) = base + gen.stack_size
  BY <1>1, <1>2
<1> HIDE DEF gen, S, T
<1> QED
  BY <1>2, <1>4, <1>5, <1>6, <1>7, <1>8 DEF TypedGen, TypedAt, gen

\* What a boundary records of a generator that it does not seal.
LEMMA BoundaryOlder ==
  ASSUME NEW gen, DOMAIN gen = GenFields
  PROVE  LET new == Boundary(gen)
         IN /\ Older(gen, new) /\ new.params = gen.params /\ new.ret_type = gen.ret_type
            /\ new.stack_size = gen.stack_size /\ new.code = gen.code
            /\ <<Len(new.code), new.stack_size>> \in new.heights
BY DEF GenFields, Boundary, Older, Here

\* A boundary between two statements keeps the types.
LEMMA ContextNoted ==
  ASSUME NEW i, NEW sigs, NEW globals, NEW n, NEW gen, IsGen(n, gen), NEW res, NEW visits,
         TypedNow(i, sigs, globals, gen, res, visits)
  PROVE  TypedContext(i, sigs, globals, Boundary(gen), res, visits)
<1> DEFINE new == Boundary(gen)
<1>1. /\ new.params = gen.params /\ new.ret_type = gen.ret_type /\ new.stack_size = gen.stack_size
      /\ <<Len(new.code), new.stack_size>> \in new.heights
  BY BoundaryOlder DEF IsGen
<1>2. TypedGen(EnvOf(i, sigs, globals), Base(i = 1, gen.params), FrameAt(i, globals, gen, res), new, visits)
  BY TypedBoundary DEF TypedNow
<1> HIDE DEF new
<1>3. FrameAt(i, globals, new, res) = FrameAt(i, globals, gen, res)
  BY <1>1 DEF FrameAt
<1>4. TypedNow(i, sigs, globals, new, res, visits)
  BY <1>1, <1>2, <1>3 DEF TypedNow
<1> QED
  BY <1>1, <1>4 DEF TypedContext, new

\* A declaration of the main script leaves its frame as it was; its own slot is the next.
LEMMA SlotAdded ==
  ASSUME NEW sigs, Typable(sigs), Compiling, Clean, Level = 1, NEW d, IsDeclaration(d)
  PROVE  LET res == DeclareLocal(Res, d)
             globals == DeclareGlobal(Res, global_bindings, d)
         IN /\ FrameAt(1, globals, Gen, res) = TheFrame
            /\ SlotType(1, globals, res.local_bindings, Len(TheFrame) + 1) = d.type
            /\ globals = global_bindings \/ globals = Append(global_bindings, d)
            /\ \A q \in DOMAIN res.local_bindings :
                  \/ q \in DOMAIN Res.local_bindings /\ res.local_bindings[q] = Res.local_bindings[q]
                  \/ /\ res.local_bindings[q] = [d EXCEPT !.depth = Res.depth]
                     /\ Res.depth # 0
<1> DEFINE res == DeclareLocal(Res, d)
           globals == DeclareGlobal(Res, global_bindings, d)
           locals == Res.local_bindings
           len == Len(TheFrame)
           x == [d EXCEPT !.depth = Res.depth]
<1>1. /\ len \in Nat /\ len = Below0 + Gen.stack_size /\ len = Declared
      /\ HasTypes(global_bindings) /\ HasTypes(locals) /\ (Res.is_global <=> Level = 1)
      /\ Len(locals) \in Nat /\ DOMAIN locals = 1..Len(locals)
  BY FrameOfCurrent
<1>2. IsResolver(Res)
  BY CurrentHeld DEF Typable
<1>3. /\ TheFrame = FrameOf(1, global_bindings, locals, len)
      /\ FrameAt(1, globals, Gen, res) = FrameOf(1, globals, res.local_bindings, len)
  BY <1>1 DEF TheFrame, FrameAt, Below0
<1>4. /\ InGlobalScope(Res) => res = Res /\ globals = Append(global_bindings, d)
      /\ ~InGlobalScope(Res) => globals = global_bindings /\ res.local_bindings = Append(locals, x)
  BY <1>2 DEF DeclareLocal, DeclareGlobal, IsResolver
<1>5. x.type = d.type
  BY DEF IsDeclaration
<1> HIDE DEF res, globals, len, x
<1>6. CASE InGlobalScope(Res)
  <2>1. len = Len(global_bindings)
    BY <1>6, NoLocals DEF len
  <2>2. /\ \A q \in 1..len : SlotType(1, globals, locals, q) = SlotType(1, global_bindings, locals, q)
        /\ SlotType(1, globals, locals, len + 1) = d.type
    <3>1. IsSequence(global_bindings) /\ globals = Append(global_bindings, d)
      BY <1>1, <1>4, <1>6 DEF HasTypes
    <3> HIDE DEF locals
    <3>2. /\ \A q \in 1..Len(global_bindings) :
                SlotType(1, Append(global_bindings, d), locals, q) = SlotType(1, global_bindings, locals, q)
          /\ SlotType(1, Append(global_bindings, d), locals, Len(global_bindings) + 1) = d.type
      BY <3>1, GlobalSlotsKept
    <3> QED
      BY <2>1, <3>1, <3>2
  <2>3. FrameOf(1, globals, locals, len) = FrameOf(1, global_bindings, locals, len)
    BY <2>2 DEF FrameOf
  <2> QED
    BY <1>3, <1>4, <1>6, <2>2, <2>3 DEF res, globals, len
<1>7. CASE ~InGlobalScope(Res)
  <2>1. len = SlotCount(1, global_bindings, locals)
    BY <1>1 DEF Declared
  <2>2. /\ \A q \in 1..len :
              SlotType(1, global_bindings, Append(locals, x), q) = SlotType(1, global_bindings, locals, q)
        /\ SlotType(1, global_bindings, Append(locals, x), len + 1) = d.type
    BY <1>1, <1>5, <2>1, LocalSlots DEF HasTypes
  <2>3. FrameOf(1, global_bindings, Append(locals, x), len) = FrameOf(1, global_bindings, locals, len)
    BY <2>2 DEF FrameOf
  <2>4. Res.depth # 0
    BY <1>1, <1>7 DEF InGlobalScope
  <2>5. /\ DOMAIN Append(locals, x) = 1..(Len(locals) + 1)
        /\ \A q \in 1..Len(locals) : Append(locals, x)[q] = locals[q]
        /\ Append(locals, x)[Len(locals) + 1] = x
    BY <1>1, Appended DEF HasTypes
  <2>6. \A q \in 1..(Len(locals) + 1) : q \in 1..Len(locals) \/ q = Len(locals) + 1
    BY <1>1
  <2>7. \A q \in DOMAIN Append(locals, x) :
           (q \in DOMAIN locals /\ Append(locals, x)[q] = locals[q]) \/ Append(locals, x)[q] = x
    BY <1>1, <2>5, <2>6
  <2> QED
    BY <1>3, <1>4, <1>7, <2>2, <2>3, <2>4, <2>7 DEF res, globals, len, x
<1> QED
  BY <1>6, <1>7

\* A function that has just begun is typed.
LEMMA BegunTyped ==
  ASSUME NEW sigs, NEW globals, NEW k \in Nat, k = Len(sigs), k \in DOMAIN sigs,
         NEW params \in Seq(Types), NEW ret_type \in Types,
         \A i \in DOMAIN params : params[i] \notin {"Function", "NativeFunc"},
         sigs[k].params = params, sigs[k].ret_type = ret_type
  PROVE  /\ TypedContext(2, sigs, globals, Boundary(NewGenerator(params, ret_type)),
                         FunctionResolver(k, params, ret_type), <<>>)
         /\ DataOK(sigs, SelfData(k, params, ret_type))
<1> DEFINE gen == NewGenerator(params, ret_type)
           res == FunctionResolver(k, params, ret_type)
           e == FuncEnv(k, sigs, globals)
           base == 1 + Len(params)
<1>1. /\ DataOK(sigs, SelfData(k, params, ret_type))
      /\ \A q \in DOMAIN res.local_bindings : DataOK(sigs, res.local_bindings[q])
      /\ FrameOf(2, globals, res.local_bindings, base) = <<[t |-> "Function", f |-> k]>> \o ArgTypes(params)
  BY FunctionFrame
<1>2. e.entry = <<[t |-> "Function", f |-> k]>> \o ArgTypes(params) /\ EnvOf(2, sigs, globals) = e
  BY DEF EnvOf, FuncEnv
<1>3. e.entry \in FrameTypes /\ Len(e.entry) = base /\ base \in Nat
  <2>1. ArgTypes(params) \in FrameTypes /\ Len(ArgTypes(params)) = Len(params) /\ Len(params) \in Nat
    BY ArgTypesFacts
  <2>2. [t |-> "Function", f |-> k] \in StaticType
    BY DEF StaticType, Types
  <2> DEFINE head == <<[t |-> "Function", f |-> k]>>
  <2>3. head \in FrameTypes /\ Len(head) = 1
    BY <2>2 DEF FrameTypes
  <2>4. head \o ArgTypes(params) \in FrameTypes /\ Len(head \o ArgTypes(params)) = 1 + Len(params)
    BY <2>1, <2>3, ConcatProperties DEF FrameTypes
  <2> QED
    BY <1>2, <2>1, <2>4
<1>4. gen.params = params /\ gen.ret_type = ret_type /\ gen.stack_size = 0 /\ DOMAIN gen = GenFields
      /\ Base(2 = 1, gen.params) = base
  BY DEF NewGenerator, GenFields, Base
<1>5. TypedGen(e, base, e.entry, gen, <<>>)
  BY <1>3, NewTyped
<1> HIDE DEF gen, res, e, base
<1>6. FrameAt(2, globals, gen, res) = e.entry
  BY <1>1, <1>2, <1>3, <1>4 DEF FrameAt
<1>7. sigs # <<>>
  BY EmptySeq
<1>8. TypedNow(2, sigs, globals, gen, res, <<>>)
  <2>1. TypedGen(EnvOf(2, sigs, globals), Base(2 = 1, gen.params), FrameAt(2, globals, gen, res), gen, <<>>)
    BY <1>2, <1>4, <1>5, <1>6
  <2>2. gen.params = sigs[Len(sigs)].params /\ gen.ret_type = sigs[Len(sigs)].ret_type
    BY <1>4
  <2>3. ~(2 = 1)
    OBVIOUS
  <2> QED
    BY <1>1, <1>7, <2>1, <2>2, <2>3 DEF TypedNow
<1>9. \E m : IsGen(m, gen)
  BY NewGeneratorIsGen DEF gen
<1>10. TypedContext(2, sigs, globals, Boundary(gen), res, <<>>)
  BY <1>8, <1>9, ContextNoted
<1> QED
  BY <1>1, <1>10 DEF gen, res

\* What is clean after a function has begun was clean before.
LEMMA CleanOuter ==
  ASSUME NEW sigs, Typable(sigs), Compiling, Level = 1, UNCHANGED program, NEW res, NEW inner,
         contexts' = <<Context(Gen, res, Visits), inner>>, Clean'
  PROVE  Clean /\ Len(contexts') = 2 /\ contexts'[1] = Context(Gen, res, Visits) /\ contexts'[2] = inner
         /\ DOMAIN contexts' = 1..2
<1> DEFINE c == Context(Gen, res, Visits)
<1>1. /\ Len(contexts') = 2 /\ contexts'[1] = c /\ contexts'[2] = inner /\ DOMAIN contexts' = 1..2
  <2> HIDE DEF c
  <2> QED
    BY DEF c
<1>2. c.gen = Boundary(Gen)
  BY DEF Context
<1> HIDE DEF c
<1>3. CleanGen(TRUE, Boundary(Gen))
  <2>1. CleanGen(1 = 1, contexts'[1].gen)
    BY <1>1 DEF Clean
  <2> QED
    BY <1>1, <1>2, <2>1
<1>4. DOMAIN Gen = GenFields /\ DOMAIN contexts = 1..Level
  BY CurrentHeld DEF Typable, IsGen
<1>5. CleanGen(TRUE, Gen)
  BY <1>3, <1>4, BoundaryOlder, OlderClean
<1>6. \A i \in DOMAIN contexts : i = 1 /\ contexts[i].gen = Gen
  BY <1>4 DEF Gen
<1>7. \A i \in DOMAIN contexts : CleanGen(i = 1, contexts[i].gen)
  BY <1>5, <1>6
<1>8. \A k \in DOMAIN program : Sound(program[k]) /\ FitsIndex(FALSE, program[k])
  BY DEF Clean
<1>9. Clean
  <2>1. Level = 2 => Len(Natives) + contexts[1].gen.stack_size + 1 <= IndexWidth
    OBVIOUS
  <2> QED
    BY <1>7, <1>8, <2>1 DEF Clean
<1> QED
  BY <1>1, <1>9 DEF c

\* The signature of a function that begins.
SigOf(ret_type, n) ==
    [params |-> [i \in 1..n |-> "Int"], ret_type |-> ret_type, reach |-> Len(global_bindings')]

\* A function begins: it is one more that may be called, and the outer code waits.
LEMMA BeginFuncTyped ==
  ASSUME NEW sigs, Typable(sigs), Clean', NEW ret_type \in RetTypes, NEW n \in 0..MaxParams,
         BeginFunc(ret_type, n), IInv', NEW sigs2, sigs2 = Append(sigs, SigOf(ret_type, n))
  PROVE  TypingHolds(sigs2)'
<1> DEFINE params == [i \in 1..n |-> "Int"]
           k == FunctionId
           self == SelfData(k, params, ret_type)
           new == NewGenerator(params, ret_type)
           res2 == FunctionResolver(k, params, ret_type)
           inner == Context(new, res2, <<>>)
           res == DeclareLocal(Res, self)
           globals == global_bindings'
           sig == SigOf(ret_type, n)
           outer == Context(Gen, res, Visits)
<1>1. /\ Compiling /\ UNCHANGED <<phase, program>> /\ Level = 1
      /\ contexts' = <<outer, inner>> /\ globals = DeclareGlobal(Res, global_bindings, self)
  BY DEF BeginFunc, Statement
<1>2. n \in Nat /\ params \in Seq(Types) /\ Len(params) = n /\ DOMAIN params = 1..n
      /\ \A i \in DOMAIN params : params[i] = "Int"
  <2>1. n \in Nat
    BY CompilerAssumption
  <2> QED
    BY <2>1 DEF Types
<1>3. ret_type \in Types
  BY CompilerAssumption DEF Types
<1>4. sig.params = params /\ sig.ret_type = ret_type /\ sig.reach = Len(globals)
  BY DEF SigOf
<1> HIDE DEF params, inner
<1>5. Clean /\ Len(contexts') = 2 /\ contexts'[1] = outer /\ contexts'[2] = inner /\ DOMAIN contexts' = 1..2
  BY <1>1, CleanOuter
<1>6. /\ TypingHolds(sigs) /\ SigsOK(sigs, global_bindings) /\ GlobalsOK(sigs, global_bindings)
      /\ Len(sigs) \in Nat /\ DOMAIN sigs = 1..Len(sigs) /\ Len(sigs) = Len(program)
  <2>1. TypingHolds(sigs) /\ SigsOK(sigs, global_bindings) /\ GlobalsOK(sigs, global_bindings)
        /\ Len(sigs) \in Nat /\ DOMAIN sigs = 1..Len(sigs)
    BY <1>1, <1>5, EnvFacts
  <2>2. Len(sigs) = Len(program) + Level - 1 /\ Len(program) \in Nat
    BY <2>1, Places DEF TypingHolds, Typable, IInv
  <2> QED
    BY <1>1, <2>1, <2>2
<1>7. k = Len(sigs) + 1 /\ k \in Nat
  BY <1>6 DEF FunctionId
<1>8. sig \in Signature
  <2>1. Len(globals) \in Nat
    BY Places DEF IInv, IsTable
  <2>2. sig = [params |-> params, ret_type |-> ret_type, reach |-> Len(globals)]
    BY DEF SigOf, params
  <2> QED
    BY <1>2, <1>3, <2>1, <2>2 DEF Signature
<1>9. IsDeclaration(self)
  <2>1. [t |-> "Function", f |-> k].f \in Int /\ 0 \in Int
    BY <1>7
  <2> QED
    BY <2>1, VarDataIsDeclaration DEF SelfData
<1> HIDE DEF sig, self, new, res2, globals
<1>10. sigs2 \in Seq(Signature) /\ Len(sigs2) = k /\ DOMAIN sigs2 = 1..k /\ sigs2[k] = sig
  <2>1. sigs2 = Append(sigs, sig)
    BY DEF sig
  <2> QED
    BY <1>6, <1>7, <1>8, <2>1, AppendProperties DEF SigsOK
<1>11. /\ TypedContext(2, sigs2, globals, Boundary(new), res2, <<>>) /\ DataOK(sigs2, self)
  <2>1. k \in DOMAIN sigs2 /\ sigs2[k].params = params /\ sigs2[k].ret_type = ret_type
    BY <1>4, <1>7, <1>10
  <2>2. \A i \in DOMAIN params : params[i] \notin {"Function", "NativeFunc"}
    BY <1>2
  <2> HIDE DEF k
  <2> QED
    BY <1>2, <1>3, <1>7, <1>10, <2>1, <2>2, BegunTyped DEF new, res2, self
<1>12. self.type = [t |-> "Function", f |-> k] /\ self.depth = 0
  BY DEF self, SelfData, VarData
<1>13. /\ FrameAt(1, globals, Gen, res) = TheFrame
       /\ SlotType(1, globals, res.local_bindings, Len(TheFrame) + 1) = self.type
       /\ globals = global_bindings \/ globals = Append(global_bindings, self)
       /\ \A q \in DOMAIN res.local_bindings :
             \/ q \in DOMAIN Res.local_bindings /\ res.local_bindings[q] = Res.local_bindings[q]
             \/ /\ res.local_bindings[q] = [self EXCEPT !.depth = Res.depth]
                /\ Res.depth # 0
  BY <1>1, <1>5, <1>9, SlotAdded
<1> HIDE DEF k
<1>14. /\ Further(sigs, global_bindings, sigs2, globals)
       /\ SigsOK(sigs2, globals) /\ GlobalsOK(sigs2, globals)
  <2>1. IsSequence(global_bindings)
    BY DEF Typable, IInv, IsTable
  <2>2. \/ globals = global_bindings
        \/ \E d : DataOK(Append(sigs, sig), d) /\ globals = Append(global_bindings, d)
    BY <1>11, <1>13 DEF sig
  <2> QED
    BY <1>4, <1>6, <1>8, <2>1, <2>2, SignatureAdded DEF sig
<1> HIDE DEF res
<1>15. TypedContext(1, sigs2, globals, Boundary(Gen), res, Visits)
  <2>1. TypedNow(1, sigs, global_bindings, Gen, Res, Visits)
    BY <1>1, <1>5, EnvFacts DEF TypedContext
  <2>2. TypedGen(MainEnv(sigs2, globals), Base(TRUE, Gen.params), TheFrame, Gen, Visits)
    <3> DEFINE base == Base(TRUE, Gen.params)
    <3>1. TypedGen(MainEnv(sigs, global_bindings), base, TheFrame, Gen, Visits)
      BY <1>1, <1>5, FrameOfCurrent DEF Env, EnvOf, Below0
    <3> HIDE DEF base
    <3>2. TypedGen(MainEnv(sigs2, globals), base, TheFrame, Gen, Visits)
      BY <1>14, <3>1, MoreTyped
    <3> QED
      BY <3>2 DEF base
  <2>3. TypedGen(EnvOf(1, sigs2, globals), Base(1 = 1, Gen.params), FrameAt(1, globals, Gen, res),
                 Gen, Visits)
    BY <1>13, <2>2 DEF EnvOf
  <2>4. \A q \in DOMAIN res.local_bindings : DataOK(sigs2, res.local_bindings[q])
    <3> SUFFICES ASSUME NEW q \in DOMAIN res.local_bindings PROVE DataOK(sigs2, res.local_bindings[q])
      OBVIOUS
    <3>1. CASE q \in DOMAIN Res.local_bindings /\ res.local_bindings[q] = Res.local_bindings[q]
      <4>1. DataOK(sigs, Res.local_bindings[q])
        BY <2>1, <3>1 DEF TypedNow
      <4> QED
        BY <1>14, <3>1, <4>1, MoreData
    <3>2. CASE res.local_bindings[q] = [self EXCEPT !.depth = Res.depth]
      <4> DEFINE x == [self EXCEPT !.depth = Res.depth]
      <4>1. x.type = self.type /\ x.params = self.params /\ x.ret_type = self.ret_type
        BY <1>9 DEF IsDeclaration
      <4> HIDE DEF x
      <4>2. DataOK(sigs2, x)
        BY <1>11, <4>1 DEF DataOK
      <4> QED
        BY <3>2, <4>2 DEF x
    <3> QED
      BY <1>13, <3>1, <3>2
  <2>5. \A q \in DOMAIN res.local_bindings : res.local_bindings[q].depth # 0
    <3> SUFFICES ASSUME NEW q \in DOMAIN res.local_bindings PROVE res.local_bindings[q].depth # 0
      OBVIOUS
    <3>1. CASE q \in DOMAIN Res.local_bindings /\ res.local_bindings[q] = Res.local_bindings[q]
      BY <2>1, <3>1 DEF TypedNow
    <3>2. CASE res.local_bindings[q] = [self EXCEPT !.depth = Res.depth] /\ Res.depth # 0
      <4>1. [self EXCEPT !.depth = Res.depth].depth = Res.depth
        BY <1>9 DEF IsDeclaration
      <4> QED
        BY <3>2, <4>1
    <3> QED
      BY <1>13, <3>1, <3>2
  <2>6. Gen.ret_type = "None"
    BY <2>1 DEF TypedNow
  <2>7. TypedNow(1, sigs2, globals, Gen, res, Visits)
    BY <2>3, <2>4, <2>5, <2>6 DEF TypedNow
  <2>8. IsGen(Len(program), Gen)
    BY <1>1, CurrentHeld DEF Typable
  <2> QED
    BY <2>7, <2>8, ContextNoted
<1>16. ASSUME NEW j \in DOMAIN program PROVE TypedFunction(j, sigs2, globals, program[j])
  <2>1. j \in DOMAIN sigs
    BY <1>6, Places DEF Typable, IInv
  <2>2. TypedFunction(j, sigs, global_bindings, program[j])
    BY <1>6 DEF TypingHolds
  <2> QED
    BY <1>14, <2>1, <2>2, MoreFunction
<1>17. /\ outer.gen = Boundary(Gen) /\ outer.res = res /\ outer.visits = Visits
       /\ inner.gen = Boundary(new) /\ inner.res = res2 /\ inner.visits = <<>>
  BY DEF outer, inner, Context
<1>18. Len(TheFrame) + 1 = Len(Natives) + Boundary(Gen).stack_size + 1
  <2>1. Len(TheFrame) = Below0 + Gen.stack_size /\ Below0 \in Nat /\ Gen.stack_size \in Nat
    BY <1>1, <1>5, FrameOfCurrent
  <2>2. Below0 = Len(Natives)
    BY <1>1 DEF Below0, Base
  <2>3. DOMAIN Gen = GenFields
    BY <1>1, CurrentHeld DEF Typable, IsGen
  <2>4. Boundary(Gen).stack_size = Gen.stack_size
    BY <2>3, BoundaryOlder
  <2> QED
    BY <2>1, <2>2, <2>4
<1> HIDE DEF outer
<1>19. Pending(sigs2)'
  BY <1>5, <1>10, <1>12, <1>13, <1>17, <1>18 DEF Pending, globals
<1>20. Level' = 2
  BY <1>5 DEF Level
<1>21. ASSUME NEW i \in DOMAIN contexts'
       PROVE  TypedContext(i, sigs2, globals, contexts'[i].gen, contexts'[i].res, contexts'[i].visits)
  <2>1. i = 1 \/ i = 2
    BY <1>5
  <2> QED
    BY <1>5, <1>11, <1>15, <1>17, <2>1
<1>22. sigs2[Len(sigs2)].reach = Len(globals) /\ Len(sigs2) = Len(program') + Level' - 1
  <2>1. Len(program') = Len(sigs)
    BY <1>1, <1>6
  <2> QED
    BY <1>4, <1>6, <1>7, <1>10, <1>20, <2>1
<1>23. TypingHolds(sigs2)'
  BY <1>1, <1>14, <1>16, <1>19, <1>20, <1>21, <1>22 DEF TypingHolds, globals
<1> QED
  BY <1>23

(***************************************************************************)
(* A function ends.                                                        *)
(***************************************************************************)
\* The code at the end of a function returns a value of its type.
LEMMA EpilogueLeads ==
  ASSUME NEW n, NEW e, NEW gen, IsGen(n, gen), gen.ret_type \in {"None", "Int", "Any"},
         e.ret = gen.ret_type, NEW s \in FrameTypes
  PROVE  Leads(n, e, gen, Epilogue(gen), s, s) /\ Goes(gen, Epilogue(gen))
<1> DEFINE dummy == Dummy(gen.ret_type)
           value == NewConstant(gen, dummy)
           returned == WriteInstr(value, "Return")
<1>1. CASE EndsInReturn(gen)
  <2>1. Epilogue(gen) = gen
    BY <1>1 DEF Epilogue
  <2>2. Writes(n, gen, gen) /\ SameRecords(gen, gen)
    BY DEF Writes, SameBooks, SameRecords
  <2> QED
    BY <2>1, <2>2, NothingLeads, HelpersGo
<1>2. CASE ~EndsInReturn(gen)
  <2>1. Epilogue(gen) = returned
    BY <1>2 DEF Epilogue
  <2>2. dummy \in Constant(n) /\ dummy.t # "Bool" /\ TypeOfValue(dummy) = Of(e.ret)
    BY DEF Dummy, Constant, Value, Types, TypeOfValue, Of
  <2>3. Goes(gen, value) /\ Goes(value, returned)
    BY HelpersGo, WritersGo
  <2> HIDE DEF dummy
  <2>4. Leads(n, e, gen, value, s, Append(s, Of(e.ret)))
    BY <2>2, ConstantLeads
  <2>5. IsGen(n, value)
    BY <2>4 DEF Leads, LaysOut, Writes
  <2> HIDE DEF value
  <2>6. e.ret \in Types
    BY DEF Types
  <2>7. Leads(n, e, value, returned, Append(s, Of(e.ret)), s)
    BY <2>5, <2>6, ReturnLeads
  <2> HIDE DEF returned
  <2> QED
    BY <2>1, <2>3, <2>4, <2>7, LeadsTwice, GoesTwice
<1> QED
  BY <1>1, <1>2

\* Code that is finished with the frame as it was.
LEMMA CodeFinished ==
  ASSUME NEW n, NEW e, NEW frame, NEW gen, IsGen(n, gen), NEW visits \in Seq(OpenVisits),
         KeepsPlaces(gen, visits), TypedGen(e, Base(e.main, gen.params), frame, gen, visits),
         NEW new, Leads(n, e, gen, new, frame, frame), ~new.panicked, ~new.misplaced,
         NEW f, f.code = new.code, f.constants = new.constants, f.heights = new.heights,
         f.params = gen.params
  PROVE  TypedCode(e, f)
<1> DEFINE base == Base(e.main, gen.params)
<1> HIDE DEF base
<1>1. TypedGen(e, base, frame, gen, visits)
  BY DEF base
<1>2. TypedGen(e, base, frame, new, visits)
  BY <1>1, WriteTyped
<1>3. PICK S, T : TypedAt(e, base, frame, new, visits, S, T)
  BY <1>2 DEF TypedGen
<1>4. Flow(e, f.constants, f.code, S, T) /\ HeightsHold(base, f.heights, S, T)
  BY <1>3 DEF TypedAt
<1>5. HeightsHold(Base(e.main, f.params), f.heights, S, T)
  BY <1>4 DEF base
<1> QED
  BY <1>4, <1>5 DEF TypedCode

\* The fields of what is finished.
LEMMA FinishedFields ==
  ASSUME NEW gen, NEW covered
  PROVE  LET f == Finished(gen, covered)
         IN /\ f.code = gen.code /\ f.constants = gen.constants /\ f.heights = gen.heights
            /\ f.params = gen.params /\ f.ret_type = gen.ret_type
            /\ f.leaky = gen.leaky /\ f.untyped = gen.untyped /\ f.misplaced = gen.misplaced
            /\ f.covered = covered
BY DEF Finished

\* The main script while a function is under compilation.
LEMMA OuterFacts ==
  ASSUME IInv, LayoutInv, Compiling, Level = 2
  PROVE  LET n == Len(program)
             globals == Len(global_bindings)
             outer == contexts[1]
         IN /\ n \in Nat /\ globals \in Nat /\ 1 \in DOMAIN contexts
            /\ Coherent(n, 1, 1, globals, outer.gen, outer.res, outer.visits)
            /\ IsGen(n, outer.gen) /\ IsGen(n + 1, outer.gen) /\ outer.visits \in Seq(OpenVisits)
            /\ ~outer.gen.panicked => KeepsPlaces(outer.gen, outer.visits)
<1> DEFINE n == Len(program)
           globals == Len(global_bindings)
           outer == contexts[1]
<1>1. 1 \in DOMAIN contexts /\ 1 < Len(contexts) /\ phase = "compile"
  BY Places DEF IInv, Compiled, Level, Compiling
<1>2. n \in Nat /\ globals \in Nat
  BY <1>1, CurrentCoherent
<1>3. Compiled(contexts, n, globals)
  BY <1>1 DEF IInv
<1> HIDE DEF n, globals
<1>4. Coherent(n, 1, 1, globals, outer.gen, outer.res, outer.visits)
  BY <1>1, <1>3 DEF Compiled
<1>5. Coherent(n + 1, 1, 1, globals, outer.gen, outer.res, outer.visits)
  BY <1>2, <1>4, CoherentMoreFunctions
<1>6. Placed(outer.gen, outer.visits)
  BY <1>1 DEF LayoutInv
<1> QED
  BY <1>1, <1>2, <1>4, <1>5, <1>6 DEF Coherent, IsContext, Placed, n, globals

\* What ending a function does.
EndedCode == Epilogue(Gen)
FunctionValue == [t |-> "Function", within |-> "None", v |-> FunctionId]
Noted == [contexts[1].gen EXCEPT !.panicked = @ \/ EndedCode.panicked, !.sealed = FALSE]
OuterNow == NewConstant(Noted, FunctionValue)

\* What the end of a function does to the function and to the code outside.
LEMMA EndingFunc ==
  ASSUME IInv, LayoutInv, EndFunc
  PROVE  /\ Compiling /\ Level = 2 /\ Visits = <<>> /\ UNCHANGED global_bindings
         /\ program' = Append(program, Finished(EndedCode, Gen.sealed \/ ~EndsInReturn(Gen)))
         /\ contexts' = <<Context(NewVar(OuterNow), contexts[1].res, contexts[1].visits)>>
         /\ IsGen(Len(program) + 1, Noted) /\ SamePlaces(contexts[1].gen, Noted)
         /\ (Noted.panicked <=> contexts[1].gen.panicked \/ EndedCode.panicked)
         /\ Noted.constants = contexts[1].gen.constants /\ Noted.stack_size = contexts[1].gen.stack_size
         /\ Noted.heights = contexts[1].gen.heights /\ Noted.params = contexts[1].gen.params
         /\ Noted.ret_type = contexts[1].gen.ret_type
         /\ Noted.leaky = contexts[1].gen.leaky /\ Noted.untyped = contexts[1].gen.untyped
         /\ Noted.misplaced = contexts[1].gen.misplaced
         /\ FunctionValue \in Constant(Len(program) + 1)
<1>1. /\ Compiling /\ Level = 2 /\ Visits = <<>> /\ UNCHANGED global_bindings
      /\ program' = Append(program, Finished(EndedCode, Gen.sealed \/ ~EndsInReturn(Gen)))
      /\ contexts' = <<Context(NewVar(OuterNow), contexts[1].res, contexts[1].visits)>>
  BY DEF EndFunc, EndedCode, OuterNow, Noted, FunctionValue
<1>2. Len(program) \in Nat /\ IsGen(Len(program) + 1, contexts[1].gen)
  BY <1>1, OuterFacts
<1>3. FunctionValue \in Constant(Len(program) + 1)
  BY <1>2 DEF Constant, Value, Types, FunctionId, FunctionValue
<1>4. /\ IsGen(Len(program) + 1, Noted) /\ SamePlaces(contexts[1].gen, Noted)
      /\ (Noted.panicked <=> contexts[1].gen.panicked \/ EndedCode.panicked)
      /\ Noted.constants = contexts[1].gen.constants /\ Noted.stack_size = contexts[1].gen.stack_size
      /\ Noted.heights = contexts[1].gen.heights /\ Noted.params = contexts[1].gen.params
      /\ Noted.ret_type = contexts[1].gen.ret_type
      /\ Noted.leaky = contexts[1].gen.leaky /\ Noted.untyped = contexts[1].gen.untyped
      /\ Noted.misplaced = contexts[1].gen.misplaced
  BY <1>2 DEF IsGen, GenFields, SamePlaces, Noted
<1> QED
  BY <1>1, <1>3, <1>4

\* One context is left.
LEMMA OneContext ==
  ASSUME NEW gen, NEW res, NEW visits, contexts' = <<Context(gen, res, visits)>>
  PROVE  /\ Level' = 1 /\ DOMAIN contexts' = {1}
         /\ contexts'[1].gen = Boundary(gen) /\ contexts'[1].res = res /\ contexts'[1].visits = visits
<1> DEFINE c == Context(gen, res, visits)
<1>1. Len(contexts') = 1 /\ DOMAIN contexts' = 1..1 /\ contexts'[1] = c
  BY SmallSequences
<1>2. c.gen = Boundary(gen) /\ c.res = res /\ c.visits = visits
  BY DEF Context
<1> HIDE DEF c
<1> QED
  BY <1>1, <1>2 DEF Level

\* What is clean after a function has ended was clean before.
LEMMA CleanEnded ==
  ASSUME NEW sigs, Typable(sigs), EndFunc, Clean'
  PROVE  /\ Clean /\ CleanGen(FALSE, EndedCode) /\ CleanGen(TRUE, OuterNow) /\ CleanGen(TRUE, Noted)
         /\ ~contexts[1].gen.panicked
<1> DEFINE n == Len(program)
           covered == Gen.sealed \/ ~EndsInReturn(Gen)
           finished == Finished(EndedCode, covered)
           outer == contexts[1]
           new == Boundary(NewVar(OuterNow))
<1>1. /\ Compiling /\ Level = 2 /\ program' = Append(program, finished)
      /\ contexts' = <<Context(NewVar(OuterNow), outer.res, outer.visits)>>
      /\ IsGen(n + 1, Noted)
      /\ (Noted.panicked <=> outer.gen.panicked \/ EndedCode.panicked)
      /\ Noted.stack_size = outer.gen.stack_size
      /\ Noted.heights = outer.gen.heights /\ Noted.params = outer.gen.params
      /\ Noted.leaky = outer.gen.leaky /\ Noted.untyped = outer.gen.untyped
      /\ Noted.misplaced = outer.gen.misplaced
      /\ FunctionValue \in Constant(n + 1)
  BY EndingFunc DEF Typable
<1>2. contexts'[1].gen = new /\ DOMAIN contexts' = {1}
  BY <1>1, OneContext
<1>3. /\ n \in Nat /\ IsGen(n, Gen) /\ DOMAIN contexts = 1..2
      /\ Gen.ret_type \in {"None", "Int", "Any"}
  BY <1>1, CurrentHeld, CurrentCoherent DEF Typable, Coherent, IsContext
<1> HIDE DEF new, finished
<1>4. CleanGen(TRUE, new)
  <2>1. CleanGen(1 = 1, contexts'[1].gen)
    BY <1>2 DEF Clean
  <2>2. (1 = 1) = TRUE
    OBVIOUS
  <2> QED
    BY <1>2, <2>1, <2>2
<1>5. IsGen(n + 1, OuterNow) /\ DOMAIN OuterNow = GenFields
  <2>1. Writes(n + 1, Noted, OuterNow)
    BY <1>1, NewConstantWrites DEF OuterNow
  <2> QED
    BY <2>1 DEF Writes, IsGen
<1>6. /\ CleanGen(TRUE, OuterNow)
      /\ Len(Natives) + OuterNow.stack_size + 1 <= IndexWidth
  <2>1. DOMAIN NewVar(OuterNow) = GenFields
    BY <1>5 DEF NewVar, GenFields
  <2>2. Older(NewVar(OuterNow), new)
    BY <2>1, BoundaryOlder DEF new
  <2>3. CleanGen(TRUE, NewVar(OuterNow))
    BY <1>4, <2>2, OlderClean
  <2>4. Older(OuterNow, NewVar(OuterNow))
    BY <1>5, HelpersGo DEF Goes
  <2>5. CleanGen(TRUE, OuterNow)
    BY <2>3, <2>4, OlderClean
  <2>6. new.stack_size = OuterNow.stack_size + 1 /\ <<Len(new.code), new.stack_size>> \in new.heights
    <3>1. NewVar(OuterNow).stack_size = OuterNow.stack_size + 1
      BY <1>5 DEF NewVar, GenFields
    <3> QED
      BY <2>1, <3>1, BoundaryOlder DEF new
  <2>7. Base(TRUE, new.params) + <<Len(new.code), new.stack_size>>[2] <= IndexWidth
    BY <1>4, <2>6 DEF CleanGen, FitsIndex
  <2>8. Len(Natives) \in Nat /\ OuterNow.stack_size \in Nat
    BY <1>5, RegistryAssumption, LenProperties DEF IsGen
  <2>9. Len(Natives) + (OuterNow.stack_size + 1) <= IndexWidth
    BY <2>6, <2>7 DEF Base
  <2>10. Len(Natives) + (OuterNow.stack_size + 1) = Len(Natives) + OuterNow.stack_size + 1
    BY <2>8
  <2> QED
    BY <2>5, <2>9, <2>10
<1>7. CleanGen(TRUE, Noted) /\ OuterNow.stack_size = Noted.stack_size
  <2>1. Goes(Noted, OuterNow)
    BY WritersGo DEF OuterNow
  <2>2. Older(Noted, OuterNow)
    BY <1>1, <2>1 DEF Goes, IsGen
  <2>3. Writes(n + 1, Noted, OuterNow)
    BY <1>1, NewConstantWrites DEF OuterNow
  <2> QED
    BY <1>6, <2>2, <2>3, OlderClean DEF Writes, SameBooks
<1>8. CleanGen(TRUE, outer.gen) /\ ~EndedCode.panicked
  <2>1. ~Noted.panicked /\ ~Noted.leaky /\ ~Noted.untyped /\ ~Noted.misplaced /\ FitsIndex(TRUE, Noted)
    BY <1>7 DEF CleanGen
  <2>2. FitsIndex(TRUE, outer.gen)
    BY <1>1, <2>1 DEF FitsIndex
  <2> QED
    BY <1>1, <2>1, <2>2 DEF CleanGen
<1>9. /\ DOMAIN program' = 1..(n + 1) /\ program'[n + 1] = finished
      /\ \A i \in DOMAIN program : i \in DOMAIN program' /\ program'[i] = program[i]
  <2>1. IsSequence(program)
    BY DEF Typable, IInv
  <2>2. /\ DOMAIN Append(program, finished) = 1..(n + 1) /\ Append(program, finished)[n + 1] = finished
        /\ \A i \in 1..n : Append(program, finished)[i] = program[i]
    BY <2>1, Appended
  <2>3. DOMAIN program = 1..n /\ \A i \in 1..n : i \in 1..(n + 1)
    BY <1>3, <2>1, Places
  <2> HIDE DEF n
  <2> QED
    BY <1>1, <2>2, <2>3
<1>10. Sound(finished) /\ FitsIndex(FALSE, finished)
  <2>1. n + 1 \in DOMAIN program'
    BY <1>3, <1>9
  <2> QED
    BY <1>9, <2>1 DEF Clean
<1>11. CleanGen(FALSE, EndedCode)
  <2>1. /\ finished.leaky = EndedCode.leaky /\ finished.untyped = EndedCode.untyped
        /\ finished.misplaced = EndedCode.misplaced
        /\ finished.heights = EndedCode.heights /\ finished.params = EndedCode.params
    BY FinishedFields DEF finished
  <2> QED
    BY <1>8, <1>10, <2>1 DEF CleanGen, Sound, FitsIndex
<1>12. CleanGen(FALSE, Gen)
  <2>1. Goes(Gen, EndedCode)
    <3> DEFINE e == [ret |-> Gen.ret_type]
    <3>1. e.ret = Gen.ret_type /\ <<>> \in FrameTypes
      BY DEF FrameTypes
    <3> HIDE DEF e
    <3> QED
      BY <1>3, <3>1, EpilogueLeads DEF EndedCode
  <2> QED
    BY <1>3, <1>11, <2>1, OlderClean DEF Goes, IsGen
<1>13. \A i \in DOMAIN contexts : CleanGen(i = 1, contexts[i].gen)
  <2> SUFFICES ASSUME NEW i \in DOMAIN contexts PROVE CleanGen(i = 1, contexts[i].gen)
    OBVIOUS
  <2>1. CASE i = 1
    <3>1. (i = 1) = TRUE
      BY <2>1
    <3> QED
      BY <1>8, <2>1, <3>1
  <2>2. CASE i # 1
    <3>1. (i = 1) = FALSE /\ i = 2
      BY <1>3, <2>2
    <3> QED
      BY <1>1, <1>12, <3>1 DEF Gen
  <2> QED
    BY <2>1, <2>2
<1>14. \A k \in DOMAIN program : Sound(program[k]) /\ FitsIndex(FALSE, program[k])
  BY <1>9 DEF Clean
<1>15. Len(Natives) + outer.gen.stack_size + 1 <= IndexWidth
  BY <1>1, <1>6, <1>7
<1>16. Clean
  BY <1>13, <1>14, <1>15 DEF Clean
<1> QED
  BY <1>6, <1>7, <1>8, <1>11, <1>16 DEF CleanGen

\* The function that has ended is typed.
LEMMA FinishedTyped ==
  ASSUME NEW sigs, Typable(sigs), EndFunc, Clean, CleanGen(FALSE, EndedCode), NEW covered
  PROVE  TypedFunction(Len(sigs), sigs, global_bindings, Finished(EndedCode, covered))
<1> DEFINE n == Len(program)
           k == Len(sigs)
           e == FuncEnv(k, sigs, global_bindings)
           f == Finished(EndedCode, covered)
<1>1. Compiling /\ Level = 2
  BY EndingFunc DEF Typable
<1>2. /\ IsGen(n, Gen) /\ KeepsPlaces(Gen, Visits) /\ Visits \in Seq(OpenVisits)
      /\ Gen.ret_type \in {"None", "Int", "Any"}
  BY <1>1, CurrentHeld, CurrentCoherent DEF Typable, Coherent, IsContext
<1>3. /\ TypedGen(Env(sigs), Below0, TheFrame, Gen, Visits) /\ TheFrame \in FrameTypes
      /\ Env(sigs).ret = Gen.ret_type
  BY <1>1, FrameOfCurrent, EnvFacts
<1>4. Env(sigs) = e /\ e.main = FALSE /\ Below0 = Base(e.main, Gen.params)
  <2>1. (Level = 1) = FALSE
    BY <1>1
  <2>2. Below0 = Base(FALSE, Gen.params)
    BY <2>1 DEF Below0
  <2>3. Env(sigs) = e
    BY <1>1 DEF Env, EnvOf
  <2>4. e.main = FALSE
    BY DEF FuncEnv
  <2> QED
    BY <2>2, <2>3, <2>4
<1>5. TypedContext(2, sigs, global_bindings, Gen, Res, Visits)
  BY <1>1, EnvFacts
<1>6. Gen.params = sigs[k].params /\ Gen.ret_type = sigs[k].ret_type
  <2>1. 2 # 1
    OBVIOUS
  <2> QED
    BY <1>5, <2>1 DEF TypedContext, TypedNow
<1>7. ~EndedCode.panicked /\ ~EndedCode.misplaced
  BY DEF CleanGen
<1>8. /\ f.code = EndedCode.code /\ f.constants = EndedCode.constants /\ f.heights = EndedCode.heights
      /\ f.params = EndedCode.params /\ f.ret_type = EndedCode.ret_type
  BY FinishedFields
<1> HIDE DEF e, f, n, k
<1>9. Leads(n, e, Gen, EndedCode, TheFrame, TheFrame)
  BY <1>2, <1>3, <1>4, EpilogueLeads DEF EndedCode
<1>10. EndedCode.params = Gen.params /\ EndedCode.ret_type = Gen.ret_type
  BY <1>9 DEF Leads, LaysOut, Writes, SameBooks
<1>11. f.params = Gen.params
  BY <1>8, <1>10
<1>12. TypedGen(e, Base(e.main, Gen.params), TheFrame, Gen, Visits)
  BY <1>3, <1>4
<1>13. TypedCode(e, f)
  BY <1>2, <1>7, <1>8, <1>9, <1>11, <1>12, CodeFinished
<1> QED
  BY <1>6, <1>8, <1>10, <1>13 DEF TypedFunction, e, f, k

\* What is not code, and is not counted, is of no matter to the types.
LEMMA TypedSame ==
  ASSUME NEW e, NEW base, NEW frame, NEW gen, NEW visits, TypedGen(e, base, frame, gen, visits),
         NEW new, SamePlaces(gen, new), new.constants = gen.constants, new.stack_size = gen.stack_size,
         new.heights = gen.heights
  PROVE  TypedGen(e, base, frame, new, visits)
<1>1. PICK S, T : TypedAt(e, base, frame, gen, visits, S, T)
  BY DEF TypedGen
<1>2. TypedAt(e, base, frame, new, visits, S, T)
  BY <1>1 DEF TypedAt, SamePlaces, BreaksTyped
<1> QED
  BY <1>2 DEF TypedGen

\* The main script has its function in the slot that waits for it.
LEMMA OuterTyped ==
  ASSUME NEW sigs, Typable(sigs), EndFunc, Clean, CleanGen(TRUE, OuterNow), CleanGen(TRUE, Noted),
         ~contexts[1].gen.panicked
  PROVE  TypedContext(1, sigs, global_bindings, Boundary(NewVar(OuterNow)),
                      contexts[1].res, contexts[1].visits)
<1> DEFINE n == Len(program)
           e == MainEnv(sigs, global_bindings)
           outer == contexts[1]
           base == Base(TRUE, outer.gen.params)
           len == base + outer.gen.stack_size
           locals == outer.res.local_bindings
           frame == FrameOf(1, global_bindings, locals, len)
           x == [t |-> "Function", f |-> Len(sigs)]
           new == NewVar(OuterNow)
<1>1. /\ Compiling /\ Level = 2 /\ IsGen(n + 1, Noted) /\ SamePlaces(outer.gen, Noted)
      /\ (Noted.panicked <=> outer.gen.panicked \/ EndedCode.panicked)
      /\ Noted.constants = outer.gen.constants /\ Noted.stack_size = outer.gen.stack_size
      /\ Noted.heights = outer.gen.heights /\ Noted.params = outer.gen.params
      /\ Noted.ret_type = outer.gen.ret_type
      /\ FunctionValue \in Constant(n + 1)
  BY EndingFunc DEF Typable
<1>2. /\ n \in Nat /\ Len(global_bindings) \in Nat /\ 1 \in DOMAIN contexts
      /\ Coherent(n, 1, 1, Len(global_bindings), outer.gen, outer.res, outer.visits)
      /\ IsGen(n + 1, outer.gen) /\ outer.visits \in Seq(OpenVisits)
      /\ KeepsPlaces(outer.gen, outer.visits)
  BY <1>1, OuterFacts DEF Typable
<1>3. /\ TypingHolds(sigs) /\ GlobalsOK(sigs, global_bindings) /\ Len(sigs) \in Nat
      /\ HasTypes(global_bindings)
  BY <1>1, EnvFacts, FrameOfCurrent
<1>4. TypedNow(1, sigs, global_bindings, outer.gen, outer.res, outer.visits) /\ Pending(sigs)
  BY <1>1, <1>2, <1>3 DEF TypingHolds, TypedContext
<1>5. TypedGen(e, base, frame, outer.gen, outer.visits)
  <2>1. TypedGen(EnvOf(1, sigs, global_bindings), Base(1 = 1, outer.gen.params),
                 FrameAt(1, global_bindings, outer.gen, outer.res), outer.gen, outer.visits)
    BY <1>4 DEF TypedNow
  <2>2. (1 = 1) = TRUE
    OBVIOUS
  <2> QED
    BY <2>1, <2>2 DEF EnvOf, FrameAt
<1>6. FunctionId = Len(sigs)
  BY <1>1, <1>2, <1>3 DEF TypingHolds, FunctionId
<1>7. x = TypeOfValue(FunctionValue) /\ x \in StaticType /\ FunctionValue.t # "Bool"
  BY <1>3, <1>6 DEF TypeOfValue, FunctionValue, StaticType, Types
<1>8. /\ Len(locals) = Below(1, outer.gen, Len(global_bindings)) + 1 + outer.gen.stack_size
      /\ IsTable(locals)
  BY <1>2 DEF Coherent, SlotsMatch, IsContext, IsResolver
<1>9. /\ base \in Nat /\ len \in Nat /\ outer.gen.stack_size \in Nat
      /\ len + 1 <= SlotCount(1, global_bindings, locals)
      /\ base = Len(Natives)
  <2>1. base \in Nat /\ base = Len(Natives) /\ outer.gen.stack_size \in Nat
    BY <1>2, RegistryAssumption, LenProperties DEF Base, IsGen
  <2>2. Below(1, outer.gen, Len(global_bindings)) = base - Len(global_bindings)
    BY DEF Below, Base
  <2>3. Len(locals) \in Nat
    BY <1>8, Places DEF IsTable
  <2>4. SlotCount(1, global_bindings, locals) = Len(global_bindings) + Len(locals)
    BY DEF SlotCount
  <2>5. len = base + outer.gen.stack_size
    OBVIOUS
  <2>6. Len(locals) = (base - Len(global_bindings)) + 1 + outer.gen.stack_size
    BY <1>8, <2>2
  <2> DEFINE g == Len(global_bindings)
             l == Len(locals)
             h == outer.gen.stack_size
             slots == SlotCount(1, global_bindings, locals)
  <2>7. g \in Nat /\ l = (base - g) + 1 + h /\ slots = g + l /\ len = base + h /\ base \in Nat /\ h \in Nat
        /\ l \in Nat
    BY <1>2, <2>1, <2>3, <2>4, <2>5, <2>6
  <2> HIDE DEF g, l, h, slots, len, base
  <2>8. len \in Nat /\ len + 1 <= slots
    BY <2>7
  <2> QED
    BY <2>1, <2>8 DEF slots, h
<1>10. HasTypes(locals) /\ \A q \in DOMAIN locals : DataOK(sigs, locals[q])
  BY <1>4, <1>8, HasTypesOf DEF TypedNow, IsTable
<1>11. SlotType(1, global_bindings, locals, len + 1) = x
  <2>1. Len(Natives) + outer.gen.stack_size + 1 = len + 1
    BY <1>9
  <2> QED
    BY <1>4, <2>1 DEF Pending
<1> HIDE DEF len, e, base, locals, x
<1>12. FrameOf(1, global_bindings, locals, len + 1) = Append(frame, x)
  BY <1>3, <1>9, <1>10, <1>11, FrameMore
<1> HIDE DEF outer, frame
<1>13. TypedGen(e, base, frame, Noted, outer.visits)
  BY <1>1, <1>5, TypedSame
<1>14. KeepsPlaces(Noted, outer.visits)
  BY <1>1, <1>2, HeldSame
<1>15. Leads(n + 1, e, Noted, OuterNow, frame, Append(frame, x))
  <2>1. frame \in FrameTypes
    BY <1>5, TypedFrame
  <2> QED
    BY <1>1, <1>7, <2>1, ConstantLeads DEF OuterNow
<1>16. TypedGen(e, base, Append(frame, x), new, outer.visits)
  <2>1. ~OuterNow.panicked /\ ~OuterNow.misplaced
    BY DEF CleanGen
  <2> QED
    BY <1>1, <1>2, <1>7, <1>13, <1>14, <1>15, <2>1, DeclareTyped
<1>17. /\ IsGen(n + 1, new) /\ new.params = outer.gen.params /\ new.ret_type = outer.gen.ret_type
       /\ new.stack_size = outer.gen.stack_size + 1
  <2>1. Writes(n + 1, Noted, OuterNow)
    BY <1>15 DEF Leads, LaysOut
  <2>2. IsGen(n + 1, OuterNow)
    BY <2>1 DEF Writes
  <2> QED
    BY <1>1, <2>1, <2>2, NewVarEffect DEF Writes, SameBooks
<1> HIDE DEF new
<1>18. FrameAt(1, global_bindings, new, outer.res) = Append(frame, x)
  <2>1. FrameAt(1, global_bindings, new, outer.res)
          = FrameOf(1, global_bindings, locals, base + (outer.gen.stack_size + 1))
    BY <1>17 DEF FrameAt, base, locals
  <2>2. base + (outer.gen.stack_size + 1) = len + 1
    BY <1>9 DEF len
  <2> QED
    BY <1>12, <2>1, <2>2
<1>19. TypedNow(1, sigs, global_bindings, new, outer.res, outer.visits)
  <2>1. TypedGen(EnvOf(1, sigs, global_bindings), Base(1 = 1, new.params),
                 FrameAt(1, global_bindings, new, outer.res), new, outer.visits)
    <3>1. (1 = 1) = TRUE
      OBVIOUS
    <3>2. EnvOf(1, sigs, global_bindings) = e
      BY DEF EnvOf, e
    <3>3. Base(1 = 1, new.params) = base
      BY <1>17, <3>1 DEF base
    <3> QED
      BY <1>16, <1>18, <3>2, <3>3
  <2> QED
    BY <1>4, <1>17, <2>1 DEF TypedNow
<1> QED
  BY <1>17, <1>19, ContextNoted DEF new, outer

\* A function ends: it is typed from the first instruction to the last, and its value
\* is on the outer frame.
LEMMA EndFuncTyped ==
  ASSUME NEW sigs, Typable(sigs), EndFunc, Clean'
  PROVE  TypingHolds(sigs)'
<1> DEFINE n == Len(program)
           covered == Gen.sealed \/ ~EndsInReturn(Gen)
           finished == Finished(EndedCode, covered)
           outer == contexts[1]
           globals == global_bindings
<1>1. /\ Compiling /\ Level = 2 /\ program' = Append(program, finished) /\ global_bindings' = globals
      /\ contexts' = <<Context(NewVar(OuterNow), outer.res, outer.visits)>>
  BY EndingFunc DEF Typable
<1>2. /\ Clean /\ CleanGen(FALSE, EndedCode) /\ CleanGen(TRUE, OuterNow) /\ CleanGen(TRUE, Noted)
      /\ ~outer.gen.panicked
  BY CleanEnded
<1>3. /\ Level' = 1 /\ DOMAIN contexts' = {1}
      /\ contexts'[1].gen = Boundary(NewVar(OuterNow)) /\ contexts'[1].res = outer.res
      /\ contexts'[1].visits = outer.visits
  BY <1>1, OneContext
<1>4. TypedFunction(Len(sigs), sigs, globals, finished)
  BY <1>2, FinishedTyped
<1>5. TypedContext(1, sigs, globals, Boundary(NewVar(OuterNow)), outer.res, outer.visits)
  BY <1>2, OuterTyped
<1>6. TypingHolds(sigs) /\ SigsOK(sigs, globals) /\ GlobalsOK(sigs, globals)
  BY <1>1, <1>2, EnvFacts
<1>7. n \in Nat /\ DOMAIN program = 1..n /\ IsSequence(program) /\ Len(sigs) = n + 1
  <2>1. IsSequence(program) /\ n \in Nat /\ DOMAIN program = 1..n
    BY Places DEF Typable, IInv
  <2>2. Len(sigs) = n + Level - 1
    BY <1>6 DEF TypingHolds
  <2> QED
    BY <1>1, <2>1, <2>2
<1> HIDE DEF finished, outer
<1>8. /\ DOMAIN program' = 1..(n + 1) /\ Len(program') = n + 1 /\ program'[n + 1] = finished
      /\ \A i \in 1..n : program'[i] = program[i]
  <2>1. /\ DOMAIN Append(program, finished) = 1..(n + 1) /\ Append(program, finished)[n + 1] = finished
        /\ Len(Append(program, finished)) = n + 1
        /\ \A i \in 1..n : Append(program, finished)[i] = program[i]
    BY <1>7, Appended
  <2> HIDE DEF n
  <2> QED
    BY <1>1, <2>1
<1>9. ASSUME NEW k \in DOMAIN program' PROVE TypedFunction(k, sigs, globals, program'[k])
  <2>1. k \in 1..n \/ k = n + 1
    BY <1>7, <1>8
  <2>2. CASE k \in 1..n
    BY <1>6, <1>7, <1>8, <2>2 DEF TypingHolds
  <2>3. CASE k = n + 1
    BY <1>4, <1>7, <1>8, <2>3
  <2> QED
    BY <2>1, <2>2, <2>3
<1>10. ASSUME NEW i \in DOMAIN contexts'
       PROVE  TypedContext(i, sigs, globals, contexts'[i].gen, contexts'[i].res, contexts'[i].visits)
  <2>1. i = 1
    BY <1>3
  <2> QED
    BY <1>3, <1>5, <2>1
<1>11. Len(sigs) = Len(program') + Level' - 1 /\ ~(Level' = 2)
  BY <1>3, <1>7, <1>8
<1> QED
  BY <1>1, <1>6, <1>9, <1>10, <1>11 DEF TypingHolds

(***************************************************************************)
(* The program is finished.                                                *)
(***************************************************************************)
ProgramTyped(sigs) ==
    /\ SigsOK(sigs, global_bindings) /\ GlobalsOK(sigs, global_bindings)
    /\ Len(program) = Len(sigs) + 1
    /\ \A k \in DOMAIN sigs : TypedFunction(k, sigs, global_bindings, program[k])
    /\ TypedCode(MainEnv(sigs, global_bindings), program[Len(program)])

\* The main script ends, and the program is typed.
LEMMA FinishTyped ==
  ASSUME NEW sigs, Typable(sigs), Finish, SoundProgram'
  PROVE  ProgramTyped(sigs)'
<1> DEFINE n == Len(program)
           value == WriteInstr(Gen, "None")
           returned == WriteInstr(value, "Return")
           finished == Finished(returned, TRUE)
           globals == global_bindings
           e == MainEnv(sigs, globals)
<1>1. /\ Compiling /\ Level = 1 /\ program' = Append(program, finished) /\ global_bindings' = globals
  BY DEF Finish
<1>2. /\ IsGen(n, Gen) /\ KeepsPlaces(Gen, Visits) /\ Visits \in Seq(OpenVisits) /\ ~Gen.panicked
      /\ DOMAIN contexts = 1..Level
  BY <1>1, CurrentHeld DEF Typable
<1>3. n \in Nat /\ DOMAIN program = 1..n /\ IsSequence(program)
  BY Places DEF Typable, IInv
<1>4. Goes(Gen, value) /\ Goes(value, returned)
  BY HelpersGo
<1>5. Goes(Gen, returned)
  <2> HIDE DEF value, returned
  <2> QED
    BY <1>4, GoesTwice
<1> HIDE DEF value, returned
<1>6. /\ finished.code = returned.code /\ finished.constants = returned.constants
      /\ finished.heights = returned.heights /\ finished.params = returned.params
      /\ finished.leaky = returned.leaky /\ finished.untyped = returned.untyped
      /\ finished.misplaced = returned.misplaced
  BY FinishedFields
<1> HIDE DEF finished
<1>7. /\ DOMAIN program' = 1..(n + 1) /\ Len(program') = n + 1 /\ program'[n + 1] = finished
      /\ \A i \in 1..n : program'[i] = program[i]
  <2>1. /\ DOMAIN Append(program, finished) = 1..(n + 1) /\ Append(program, finished)[n + 1] = finished
        /\ Len(Append(program, finished)) = n + 1
        /\ \A i \in 1..n : Append(program, finished)[i] = program[i]
    BY <1>3, Appended
  <2> HIDE DEF n
  <2> QED
    BY <1>1, <2>1
<1>8. MainId' = n + 1
  BY <1>7 DEF MainId
<1>9. Sound(finished) /\ FitsIndex(TRUE, finished)
  <2>1. n + 1 \in DOMAIN program'
    BY <1>3, <1>7
  <2>2. (n + 1 = MainId') = TRUE
    BY <1>8
  <2>3. Sound(program'[n + 1]) /\ FitsIndex(n + 1 = MainId', program'[n + 1])
    BY <2>1 DEF SoundProgram, Narrow
  <2> QED
    BY <1>7, <2>2, <2>3
<1>10. ASSUME NEW k \in DOMAIN program PROVE Sound(program[k]) /\ FitsIndex(FALSE, program[k])
  <2>1. k \in DOMAIN program' /\ program'[k] = program[k]
    BY <1>3, <1>7
  <2>2. (k = MainId') = FALSE
    BY <1>3, <1>8
  <2>3. Sound(program'[k]) /\ FitsIndex(k = MainId', program'[k])
    BY <2>1 DEF SoundProgram, Narrow
  <2> QED
    BY <2>1, <2>2, <2>3
<1>11. /\ ~value.panicked /\ IsGen(n, value)
       /\ ~returned.panicked
  <2>1. ~value.panicked
    BY <1>2 DEF value, WriteInstr, WriteByte, IsGen, GenFields
  <2>2. "None" \in Range(OpNames) /\ "None" \notin ShortOps /\ "None" \notin ByteOps
    BY Written DEF ShortOps, ByteOps
  <2>3. LaysOut(n, Gen, value)
    BY <1>2, <2>2, InstrAdds DEF value
  <2>4. IsGen(n, value)
    BY <2>3 DEF LaysOut, Writes
  <2>5. ~returned.panicked
    BY <2>1, <2>4, ReturnLays DEF returned
  <2> QED
    BY <2>1, <2>4, <2>5
<1>12. CleanGen(TRUE, Gen) /\ ~returned.misplaced
  <2>1. CleanGen(TRUE, returned)
    BY <1>6, <1>9, <1>11 DEF CleanGen, Sound, FitsIndex
  <2>2. Older(Gen, returned)
    BY <1>2, <1>5 DEF Goes, IsGen
  <2> QED
    BY <2>1, <2>2, OlderClean DEF CleanGen
<1>13. Clean
  <2>1. \A i \in DOMAIN contexts : CleanGen(i = 1, contexts[i].gen)
    <3> SUFFICES ASSUME NEW i \in DOMAIN contexts PROVE CleanGen(i = 1, contexts[i].gen)
      OBVIOUS
    <3>1. i = 1 /\ contexts[i].gen = Gen
      BY <1>1, <1>2 DEF Gen
    <3>2. (i = 1) = TRUE
      BY <3>1
    <3> QED
      BY <1>12, <3>1, <3>2
  <2>2. ~(Level = 2)
    BY <1>1
  <2> QED
    BY <1>10, <2>1, <2>2 DEF Clean
<1>14. /\ TypingHolds(sigs) /\ SigsOK(sigs, globals) /\ GlobalsOK(sigs, globals)
       /\ Len(sigs) \in Nat /\ DOMAIN sigs = 1..Len(sigs) /\ Env(sigs).ret = Gen.ret_type
       /\ TypedContext(1, sigs, globals, Gen, Res, Visits)
  BY <1>1, <1>13, EnvFacts
<1>15. Len(sigs) = n
  BY <1>1, <1>3, <1>14 DEF TypingHolds
<1>16. /\ TypedGen(e, Base(e.main, Gen.params), TheFrame, Gen, Visits) /\ TheFrame \in FrameTypes
       /\ e.main = TRUE /\ e.ret = "None" /\ Gen.ret_type = "None"
  <2>1. TypedGen(Env(sigs), Below0, TheFrame, Gen, Visits) /\ TheFrame \in FrameTypes
    BY <1>1, <1>13, FrameOfCurrent
  <2>2. Env(sigs) = e /\ e.main = TRUE /\ e.ret = "None"
    BY <1>1 DEF Env, EnvOf, MainEnv
  <2>3. Below0 = Base(TRUE, Gen.params)
    <3>1. (Level = 1) = TRUE
      BY <1>1
    <3> QED
      BY <3>1 DEF Below0
  <2>4. Gen.ret_type = "None"
    BY <1>14, <2>2
  <2> QED
    BY <2>1, <2>2, <2>3, <2>4
<1> HIDE DEF e, n
<1>17. Leads(n, e, Gen, value, TheFrame, Append(TheFrame, Of("None")))
  <2>1. Of("None") \in StaticType
    BY OfIsType DEF Types
  <2> QED
    BY <1>2, <1>16, <2>1, ExpressionsLead DEF value
<1>18. Leads(n, e, value, returned, Append(TheFrame, Of("None")), TheFrame)
  BY <1>11, <1>16, ReturnLeads DEF returned, Types
<1>19. Leads(n, e, Gen, returned, TheFrame, TheFrame)
  BY <1>2, <1>17, <1>18, LeadsTwice
<1>20. TypedCode(e, finished)
  <2>1. finished.params = Gen.params
    BY <1>6, <1>19 DEF Leads, LaysOut, Writes, SameBooks
  <2> QED
    BY <1>2, <1>6, <1>11, <1>12, <1>16, <1>19, <2>1, CodeFinished
<1>21. \A k \in DOMAIN sigs : TypedFunction(k, sigs, globals, program'[k])
  BY <1>3, <1>7, <1>14, <1>15 DEF TypingHolds
<1>22. Len(program') = Len(sigs) + 1 /\ program'[Len(program')] = finished
  BY <1>7, <1>15
<1> QED
  BY <1>1, <1>14, <1>20, <1>21, <1>22 DEF ProgramTyped, e

\* Each statement keeps the types for the signatures that they hold for; only the
\* beginning of a function adds one.
LEMMA StatementTyped ==
  ASSUME NEW sigs, Typable(sigs), Compile, Clean', phase' = "compile", IInv',
         ~ \E ret_type \in RetTypes, n \in 0..MaxParams : BeginFunc(ret_type, n)
  PROVE  TypingHolds(sigs)'
<1>1. ASSUME NEW name, VarStmt(name) \/ VarAnyStmt(name) PROVE TypingHolds(sigs)'
  BY <1>1, VarStmtTyped, VarAnyStmtTyped
<1>2. ASSUME NEW name, AssignStmt(name) \/ YieldStmt(name) PROVE TypingHolds(sigs)'
  BY <1>2, AssignTyped, YieldTyped
<1>3. ASSUME OpenBlock \/ CloseBlock \/ BeginWhile \/ EndWhile PROVE TypingHolds(sigs)'
  BY <1>3, OpenBlockTyped, CloseBlockTyped, BeginWhileTyped, EndWhileTyped
<1>4. ASSUME BeginIf \/ EndIf \/ BeginElse \/ EndElse PROVE TypingHolds(sigs)'
  BY <1>4, BeginIfTyped, EndIfTyped, BeginElseTyped
<1>5. ASSUME NEW k, Break(k) \/ Continue(k) PROVE TypingHolds(sigs)'
  BY <1>5, BreakTyped, ContinueTyped
<1>6. ASSUME EndFunc \/ StructStmt PROVE TypingHolds(sigs)'
  BY <1>6, EndFuncTyped, StructStmtTyped
<1>7. ASSUME NEW name, CallStmt(name) \/ PrintCall(name) PROVE TypingHolds(sigs)'
  BY <1>7, CallStmtTyped, PrintCallStmtTyped
<1>8. ASSUME ReturnStmt \/ ReturnValue PROVE TypingHolds(sigs)'
  BY <1>8, ReturnTyped, ReturnValueTyped
<1>9. ~Finish /\ ~Abort
  BY DEF Finish, Abort
<1> QED
  BY <1>1, <1>2, <1>3, <1>4, <1>5, <1>6, <1>7, <1>8, <1>9 DEF Compile

(***************************************************************************)
(* The types of every value in every frame, as the compiler's code leaves  *)
(* them, while a clean program is compiled and from then on.               *)
(***************************************************************************)
TypeInv ==
    /\ phase = "compile" /\ Clean => \E sigs : TypingHolds(sigs)
    /\ phase \in {"compiled", "running"} /\ SoundProgram => \E sigs : ProgramTyped(sigs)

\* Every statement keeps the types.
LEMMA CompileTyped ==
  ASSUME IInv, LayoutInv, TypeInv, Compile, IInv'
  PROVE  TypeInv'
<1>1. phase = "compile"
  BY CompileOnly
<1>2. PICK sigs : Clean => TypingHolds(sigs)
  BY <1>1 DEF TypeInv
<1>3. Typable(sigs)
  BY <1>2 DEF Typable
<1>4. ASSUME NEW ret_type \in RetTypes, NEW n \in 0..MaxParams, BeginFunc(ret_type, n) PROVE TypeInv'
  <2>1. phase' = "compile"
    BY <1>1, <1>4 DEF BeginFunc, Statement
  <2>2. PICK sigs2 : sigs2 = Append(sigs, SigOf(ret_type, n))
    OBVIOUS
  <2>3. Clean' => TypingHolds(sigs2)'
    BY <1>3, <1>4, <2>2, BeginFuncTyped
  <2> QED
    BY <2>1, <2>3 DEF TypeInv
<1>5. CASE Finish
  <2>1. phase' = "compiled"
    BY <1>5 DEF Finish
  <2>2. SoundProgram' => ProgramTyped(sigs)'
    BY <1>3, <1>5, FinishTyped
  <2> QED
    BY <2>1, <2>2 DEF TypeInv
<1>6. CASE Abort
  BY <1>6 DEF Abort, TypeInv
<1>7. ASSUME ~Finish, ~Abort, ~ \E ret_type \in RetTypes, n \in 0..MaxParams : BeginFunc(ret_type, n)
      PROVE  TypeInv'
  <2>1. phase' = "compile"
    BY <1>1, <1>7 DEF Compile, VarStmt, VarAnyStmt, AssignStmt, YieldStmt, OpenBlock, CloseBlock,
                      BeginWhile, EndWhile,
       BeginIf, EndIf, BeginElse, EndElse, Break, Continue, EndFunc, StructStmt, CallStmt,
       PrintCall, ReturnStmt, ReturnValue, Opening, Statement, Closing
  <2>2. Clean' => TypingHolds(sigs)'
    BY <1>3, <1>7, <2>1, StatementTyped
  <2> QED
    BY <2>1, <2>2 DEF TypeInv
<1> QED
  BY <1>4, <1>5, <1>6, <1>7

\* At the beginning there are the native functions, in the first slots.
LEMMA InitTyped == ASSUME Init PROVE TypeInv
<1> DEFINE gen == NewGenerator(<<>>, "None")
           res == NewResolver(TRUE, "None")
           globals == NativeData
           e == MainEnv(<<>>, globals)
           base == Len(Natives)
<1>1. /\ contexts = <<Context(gen, res, <<>>)>> /\ program = <<>> /\ global_bindings = globals
      /\ phase = "compile" /\ Level = 1
  BY DEF Init, CompilerInit, Level
<1>2. /\ base \in Nat /\ DOMAIN Natives = 1..base /\ IsTable(globals) /\ Len(globals) = base
      /\ DOMAIN globals = 1..base
  BY RegistryAssumption, LenProperties, NativeDataIsTable DEF NativeData
<1>3. ASSUME NEW i \in 1..base
      PROVE  DataOK(<<>>, globals[i]) /\ globals[i].type = NativeTypes[i] /\ NativeTypes[i] \in StaticType
  <2>1. /\ globals[i].type = [t |-> "NativeFunc", f |-> i] /\ globals[i].params = Natives[i].takes
        /\ globals[i].ret_type = Natives[i].gives /\ NativeTypes[i] = [t |-> "NativeFunc", f |-> i]
    BY <1>2 DEF NativeData, VarData, NativeTypes
  <2>2. Natives[i] \in Native
    BY <1>2, RegistryAssumption
  <2>3. Natives[i].takes \in Seq(Types) /\ Natives[i].gives \in Types
    BY <2>2 DEF Native
  <2>4. [t |-> "NativeFunc", f |-> i] \in StaticType
    <3>1. "NativeFunc" \in Types
      BY DEF Types
    <3> QED
      BY <1>2, <3>1 DEF StaticType
  <2> QED
    BY <1>2, <2>1, <2>3, <2>4 DEF DataOK
<1>4. SigsOK(<<>>, globals)
  BY DEF SigsOK
<1>5. GlobalsOK(<<>>, globals)
  BY <1>2, <1>3 DEF GlobalsOK
<1>6. NativeTypes \in FrameTypes /\ Len(NativeTypes) = base
  <2>1. NativeTypes \in [1..base -> StaticType]
    BY <1>2, <1>3 DEF NativeTypes
  <2> QED
    BY <1>2, <2>1 DEF FrameTypes
<1>7. TypedGen(e, base, NativeTypes, gen, <<>>)
  <2>1. e.entry = NativeTypes
    BY DEF MainEnv
  <2> QED
    BY <1>6, <2>1, NewTyped
<1>8. /\ gen.params = <<>> /\ gen.stack_size = 0 /\ gen.ret_type = "None" /\ gen.code = <<>>
      /\ <<0, 0>> \in gen.heights /\ res.local_bindings = <<>>
  BY DEF NewGenerator, NewResolver
<1>9. IsGen(0, gen)
  BY NewGeneratorIsGen, RegistryAssumption, LenProperties
<1> HIDE DEF gen, res, globals, e
<1>10. FrameAt(1, globals, gen, res) = NativeTypes
  <2>1. Base(TRUE, <<>>) + 0 = base
    BY <1>2 DEF Base
  <2>2. (1 = 1) = TRUE
    OBVIOUS
  <2>3. FrameAt(1, globals, gen, res) = FrameOf(1, globals, <<>>, Base(TRUE, <<>>) + 0)
    BY <1>8, <2>2 DEF FrameAt
  <2>4. FrameOf(1, globals, <<>>, base) = [q \in 1..base |-> SlotType(1, globals, <<>>, q)]
    BY DEF FrameOf
  <2>5. ASSUME NEW q \in 1..base PROVE SlotType(1, globals, <<>>, q) = NativeTypes[q]
    BY <1>2, <1>3, <2>5 DEF SlotType
  <2>6. NativeTypes = [q \in 1..base |-> NativeTypes[q]]
    BY <1>2 DEF NativeTypes
  <2> QED
    BY <2>1, <2>3, <2>4, <2>5, <2>6
<1>11. TypedContext(1, <<>>, globals, Boundary(gen), res, <<>>)
  <2>1. EnvOf(1, <<>>, globals) = e
    BY DEF EnvOf, e
  <2>2. Base(1 = 1, gen.params) = base
    BY DEF Base
  <2>3. DOMAIN res.local_bindings = {}
    BY <1>8
  <2>4. TypedNow(1, <<>>, globals, gen, res, <<>>)
    BY <1>7, <1>8, <1>10, <2>1, <2>2, <2>3 DEF TypedNow
  <2> QED
    BY <1>9, <2>4, ContextNoted
<1>12. \A i \in DOMAIN contexts :
          TypedContext(i, <<>>, global_bindings, contexts[i].gen, contexts[i].res, contexts[i].visits)
  <2>1. contexts[1] = Context(gen, res, <<>>)
    BY <1>1
  <2>2. contexts[1].gen = Boundary(gen) /\ contexts[1].res = res /\ contexts[1].visits = <<>>
    BY <2>1 DEF Context
  <2>3. DOMAIN contexts = 1..1 /\ \A i \in 1..1 : i = 1
    BY <1>1
  <2> QED
    BY <1>1, <1>11, <2>2, <2>3, <1>9
<1>13. Len(<<>>) = Len(program) + Level - 1 /\ DOMAIN program = {} /\ Level # 2
  BY <1>1
<1>14. TypingHolds(<<>>)
  BY <1>1, <1>4, <1>5, <1>12, <1>13 DEF TypingHolds
<1> QED
  BY <1>1, <1>14 DEF TypeInv

\* Every value that the code of a clean program finds in its frame has the type that
\* the analysis gave it.
THEOREM TypesFlow == Spec => []TypeInv
<1>1. ASSUME IInv, LayoutInv, TypeInv, IInv', [Next]_vars PROVE TypeInv'
  <2>1. CASE CompileStep
    BY <1>1, <2>1, CompileTyped DEF CompileStep
  <2>2. CASE Start \/ RunStep
    <3>1. /\ phase \in {"compiled", "running"} /\ phase' = "running"
          /\ program' = program /\ global_bindings' = global_bindings
      BY <2>2, CycleKeepsProgram DEF Start, RunStep
    <3>2. SoundProgram' <=> SoundProgram
      BY <3>1 DEF SoundProgram, Narrow, MainId
    <3>3. ASSUME NEW sigs, ProgramTyped(sigs) PROVE ProgramTyped(sigs)'
      BY <3>1, <3>3 DEF ProgramTyped
    <3> QED
      BY <1>1, <3>1, <3>2, <3>3 DEF TypeInv
  <2>3. CASE UNCHANGED vars
    <3>1. UNCHANGED <<contexts, program, global_bindings, phase>>
      BY <2>3 DEF vars, compilerVars
    <3>2. (SoundProgram' <=> SoundProgram) /\ (Clean' <=> Clean)
      BY <3>1 DEF SoundProgram, Narrow, MainId, Clean, Level
    <3>3. ASSUME NEW sigs, ProgramTyped(sigs) PROVE ProgramTyped(sigs)'
      BY <3>1, <3>3 DEF ProgramTyped
    <3>4. ASSUME NEW sigs, TypingHolds(sigs) PROVE TypingHolds(sigs)'
      BY <3>1, <3>4 DEF TypingHolds, Level, Pending
    <3> QED
      BY <1>1, <3>1, <3>2, <3>3, <3>4 DEF TypeInv
  <2> QED
    BY <1>1, <2>1, <2>2, <2>3 DEF Next
<1> QED
  BY <1>1, InvariantHolds, LayoutHolds, InitTyped, PTL DEF Spec

(***************************************************************************)
(* What the verifier makes of the parts of a frame.                        *)
(***************************************************************************)
\* A part of a sequence.
LEMMA SliceIs ==
  ASSUME NEW S, NEW s, NEW from \in Nat \ {0}, NEW n \in Nat, from <= n + 1, \A i \in from..n : s[i] \in S
  PROVE  /\ SubSeq(s, from, n) \in Seq(S) /\ Len(SubSeq(s, from, n)) = n - from + 1
         /\ \A i \in 1..(n - from + 1) : SubSeq(s, from, n)[i] = s[from + i - 1]
<1> DEFINE r == SubSeq(s, from, n)
<1>1. /\ r \in Seq(S)
      /\ Len(r) = IF from <= n THEN n - from + 1 ELSE 0
      /\ \A i \in 1 .. n - from + 1 : r[i] = s[from + i - 1]
  BY SubSeqProperties
<1> HIDE DEF r
<1>2. (IF from <= n THEN n - from + 1 ELSE 0) = n - from + 1
  OBVIOUS
<1>3. Len(r) = n - from + 1
  BY <1>1, <1>2
<1> QED
  BY <1>1, <1>3 DEF r

\* The first part of a frame.
LEMMA FirstPartIs ==
  ASSUME NEW s \in FrameTypes, NEW u \in FrameTypes, NEW m \in Nat, Len(u) = m, m <= Len(s),
         \A q \in 1..m : s[q] = u[q]
  PROVE  SubSeq(s, 1, m) = u
<1> DEFINE r == SubSeq(s, 1, m)
<1>1. IsSequence(s) /\ Len(s) \in Nat /\ IsSequence(u) /\ m \in 0..Len(s)
  BY SeqIsSequence, LenProperties DEF FrameTypes
<1>2. IsSequence(r) /\ Len(r) = m /\ DOMAIN r = 1..m /\ \A q \in 1..m : r[q] = s[q]
  BY <1>1, FirstPart
<1> HIDE DEF r
<1>3. DOMAIN u = 1..m /\ \A q \in 1..m : u[q] \in StaticType
  BY LenProperties, ElementOfSeq DEF FrameTypes
<1>4. \A q \in 1..m : r[q] = u[q]
  BY <1>2
<1>5. r = [q \in 1..m |-> r[q]]
  <2>1. r \in [DOMAIN r -> Range(r)]
    BY <1>2, LenProperties DEF IsSequence
  <2> QED
    BY <1>2, <2>1
<1>6. r \in [1..m -> StaticType]
  BY <1>3, <1>4, <1>5
<1>7. r \in FrameTypes
  BY <1>6 DEF FrameTypes
<1>8. r = u
  BY <1>2, <1>4, <1>7, SameFrame
<1> QED
  BY <1>8 DEF r

\* A frame and one value.
LEMMA OneOnTop ==
  ASSUME NEW u \in FrameTypes, NEW x \in StaticType, NEW s, s = Append(u, x)
  PROVE  /\ Len(s) \in Nat /\ Len(u) \in Nat /\ Len(s) = Len(u) + 1 /\ Len(s) >= 1
         /\ s[Len(s)] = x /\ SubSeq(s, 1, Len(s) - 1) = u
         /\ \A y \in StaticType : u \o <<y>> = Append(u, y)
<1>1. Len(u) \in Nat /\ s \in FrameTypes /\ Len(s) = Len(u) + 1 /\ s[Len(u) + 1] = x
      /\ \A q \in 1..Len(u) : s[q] = u[q]
  BY LenProperties, AppendProperties DEF FrameTypes
<1>2. SubSeq(s, 1, Len(u)) = u
  <2>1. Len(u) <= Len(s)
    BY <1>1
  <2> QED
    BY <1>1, <2>1, FirstPartIs
<1>3. ASSUME NEW y \in StaticType PROVE u \o <<y>> = Append(u, y)
  BY <1>1 DEF FrameTypes
<1> QED
  BY <1>1, <1>2, <1>3

\* A callee and its arguments on a frame.
CalleeIs(u, x, args, s, n, arg) ==
    /\ n \in Nat /\ arg \in Nat /\ Len(u) \in Nat /\ n = Len(u) + arg + 1
    /\ s[n - arg] = x /\ SubSeq(s, n - arg + 1, n) = args /\ SubSeq(s, 1, n - (arg + 1)) = u
    /\ \A g \in 1..Len(u) : s[g] = u[g]

\* A callee and its arguments, on top of a frame.
LEMMA CalleeOnTop ==
  ASSUME NEW u \in FrameTypes, NEW x \in StaticType, NEW args \in FrameTypes,
         NEW s, s = Append(u, x) \o args, NEW n, n = Len(s), NEW arg, arg = Len(args)
  PROVE  CalleeIs(u, x, args, s, n, arg)
<1> DEFINE v == Append(u, x)
           m == Len(u)
<1>1. /\ m \in Nat /\ v \in FrameTypes /\ Len(v) = m + 1 /\ v[m + 1] = x
      /\ \A q \in 1..m : v[q] = u[q]
  BY LenProperties, AppendProperties DEF FrameTypes
<1>2. s = v \o args /\ arg \in Nat
  BY LenProperties DEF FrameTypes
<1> HIDE DEF v
<1>3. /\ s \in FrameTypes /\ Len(s) = Len(v) + arg
      /\ \A i \in 1..Len(v) : s[i] = v[i]
      /\ \A i \in 1..arg : s[Len(v) + i] = args[i]
  <2>1. IsSequence(v) /\ IsSequence(args) /\ s \in FrameTypes
    BY <1>1, <1>2, SeqIsSequence, ConcatProperties DEF FrameTypes
  <2>2. JoinedAs(s, v, args)
    BY <1>2, <2>1, JoinedIs
  <2>3. Len(s) = Len(v) + arg
    <3>1. Len(v) \in Nat
      BY <1>1
    <3>2. DOMAIN s = 1..Len(s) /\ Len(s) \in Nat
      BY <2>1, LenProperties DEF FrameTypes
    <3> QED
      BY <1>2, <2>2, <3>1, <3>2 DEF JoinedAs
  <2> QED
    BY <2>1, <2>2, <2>3 DEF JoinedAs
<1> HIDE DEF m
<1>4. /\ n \in Nat /\ n = m + arg + 1 /\ n - arg = m + 1 /\ n - (arg + 1) = m /\ m + 1 \in 1..(m + 1)
      /\ \A q \in 1..m : q \in 1..(m + 1)
  BY <1>1, <1>2, <1>3
<1>5. s[n - arg] = x /\ \A g \in 1..m : s[g] = u[g]
  BY <1>1, <1>3, <1>4
<1>6. \A i \in 1..n : s[i] \in StaticType
  BY <1>3, ElementOfSeq DEF FrameTypes
<1>7. n = m + arg + 1 /\ m \in Nat /\ arg \in Nat /\ n \in Nat
  BY <1>1, <1>2, <1>4
<1>8. SubSeq(s, 1, m) = u
  <2>1. m <= Len(s) /\ Len(u) = m
    BY <1>7 DEF m
  <2> QED
    BY <1>7, <1>3, <1>5, <2>1, FirstPartIs
<1>9. SubSeq(s, n - arg + 1, n) = args
  <2>1. PICK from, num : from = m + 2 /\ num = n
    OBVIOUS
  <2> DEFINE r == SubSeq(s, from, num)
  <2>2. from \in Nat \ {0} /\ num \in Nat /\ from <= num + 1 /\ num - from + 1 = arg /\ n - arg + 1 = from
    BY <1>7, <2>1
  <2>3. \A i \in from..num : s[i] \in StaticType
    <3>1. \A i \in from..num : i \in 1..num
      BY <2>2
    <3> QED
      BY <1>6, <2>1, <3>1
  <2>4. r \in Seq(StaticType) /\ Len(r) = num - from + 1
        /\ \A i \in 1..(num - from + 1) : r[i] = s[from + i - 1]
    BY <2>2, <2>3, SliceIs
  <2> HIDE DEF r
  <2>5. Len(r) = arg /\ \A i \in 1..arg : r[i] = s[from + i - 1]
    BY <2>2, <2>4
  <2>6. ASSUME NEW i \in 1..arg PROVE r[i] = args[i]
    <3>1. from + i - 1 = Len(v) + i
      BY <1>1, <1>7, <2>1
    <3> QED
      BY <1>3, <2>5, <3>1
  <2>7. r = args
    BY <2>4, <2>5, <2>6, SameFrame DEF FrameTypes
  <2> QED
    BY <2>1, <2>2, <2>7 DEF r
<1> QED
  BY <1>1, <1>2, <1>4, <1>5, <1>8, <1>9 DEF m, CalleeIs

\* No frame is one of the verifier's marks.
LEMMA FrameIsNoMark == ASSUME NEW s \in FrameTypes PROVE s # Dead /\ s # Bad
<1>1. "dead" \notin Types /\ "bad" \notin Types
  BY DEF Types
<1>2. ASSUME NEW name, name \notin Types PROVE s # Mark(name)
  <2>1. SUFFICES ASSUME s = Mark(name) PROVE FALSE
    OBVIOUS
  <2>2. Mark(name)[1] = [t |-> name, f |-> 0] /\ Len(Mark(name)) = 1
    BY DEF Mark
  <2>3. s[1] \in StaticType
    BY <2>1, <2>2, ElementOfSeq DEF FrameTypes
  <2> QED
    BY <1>2, <2>1, <2>2, <2>3 DEF StaticType
<1> QED
  BY <1>1, <1>2 DEF Dead, Bad

\* What the verifier makes of an instruction that finds what it wants: the
\* converse of Admits, for the instructions that are written.
Judged(op, arg, k, s, n, slots, effect) ==
    /\ op = "None" => effect = Append(s, Of("None"))
    /\ op = "LoadByte" => effect = Append(s, Of("Int"))
    /\ op = "TESTTakeInput" => effect = Append(s, Of(InputType))
    /\ op = "Constant" /\ arg < Len(program[k].constants)
          => effect = Append(s, TypeOfValue(program[k].constants[arg + 1]))
    /\ op = "GetLocal" /\ n >= arg + 1 => effect = Append(s, s[arg + 1])
    /\ op = "GetGlobal" /\ Len(slots) > arg => effect = Append(s, slots[arg + 1])
    /\ op = "SetLocal" /\ n >= arg + 1 /\ s[arg + 1] = s[n] => effect = s
    /\ op = "SetGlobal" /\ n >= 1 /\ Len(slots) > arg /\ slots[arg + 1] = s[n] => effect = s
    /\ op = "Pop" /\ n >= 1 => effect = SubSeq(s, 1, n - 1)
    /\ op = "Jump" => effect = s
    /\ op = "JumpIfNot" /\ n >= 1 /\ s[n].t = "Bool" => effect = SubSeq(s, 1, n - 1)
    /\ op = "CallUser"
          => effect = IF /\ n >= arg + 1
                         /\ s[n - arg].t = "Function" /\ s[n - arg].f \in DOMAIN program \ {MainId}
                         /\ program[s[n - arg].f].params = Variants(SubSeq(s, n - arg + 1, n))
                      THEN SubSeq(s, 1, n - (arg + 1)) \o <<Of(program[s[n - arg].f].ret_type)>> ELSE Bad
    /\ op = "CallNative"
          => effect = IF /\ n >= arg + 1
                         /\ s[n - arg].t = "NativeFunc" /\ s[n - arg].f \in DOMAIN Natives
                         /\ \/ Natives[s[n - arg].f].builds
                            \/ Natives[s[n - arg].f].takes = Variants(SubSeq(s, n - arg + 1, n))
                      THEN SubSeq(s, 1, n - (arg + 1)) \o <<Of(Natives[s[n - arg].f].gives)>> ELSE Bad
    /\ op = "Return" /\ (k = MainId \/ (n >= 1 /\ s[n] = Of(program[k].ret_type))) => effect = s
    /\ op \in Unwritten => effect = s
    /\ op = "TESTYield" /\ n >= 1 => effect = SubSeq(s, 1, n - 1) \o <<Of("None")>>
    /\ op = "WrapAny" /\ n >= 1 => effect = SubSeq(s, 1, n - 1) \o <<Of("Any")>>
    /\ op \in DOMAIN Unwraps /\ n >= 1 /\ s[n].t = "Any"
          => effect = SubSeq(s, 1, n - 1) \o <<Of(Unwraps[op])>>
    /\ op = "IntToFloat" /\ n >= 1 /\ s[n].t = "Int" => effect = SubSeq(s, 1, n - 1) \o <<Of("Float")>>

\* It says so.
LEMMA EffectOf ==
  ASSUME NEW k, NEW globals, NEW ip, NEW s, NEW op, op = Decode(Ip(k, ip)), NEW arg, arg = Ip(k, ip + 1),
         NEW n, n \in Nat, n = Len(s), NEW slots, slots = (IF k = MainId THEN s ELSE globals),
         NEW effect, effect = Effect(k, globals, ip, s)
  PROVE  Judged(op, arg, k, s, n, slots, effect)
<1>1. Computing["IntToFloat"] = [takes |-> <<"Int">>, gives |-> "Float"]
  <2>1. "IntToFloat" \in DOMAIN Computing /\ "IntToFloat" \notin FloatBinary \cup IntBinary
    BY ComputingIs DEF FloatBinary, IntBinary
  <2> QED
    BY <2>1, Zenon DEF Computing
<1>2. op = "None" => effect = Append(s, Of("None"))
  BY UnwrapsAre, ComputingIs DEF Effect, Unwritten, FloatBinary, IntBinary
<1>3. op = "LoadByte" => effect = Append(s, Of("Int"))
  BY UnwrapsAre, ComputingIs DEF Effect, Unwritten, FloatBinary, IntBinary
<1>4. op = "TESTTakeInput" => effect = Append(s, Of(InputType))
  BY UnwrapsAre, ComputingIs DEF Effect, Unwritten, FloatBinary, IntBinary
<1>5. op = "Constant" /\ arg < Len(program[k].constants)
         => effect = Append(s, TypeOfValue(program[k].constants[arg + 1]))
  BY UnwrapsAre, ComputingIs DEF Effect, Unwritten, FloatBinary, IntBinary
<1>6. op = "GetLocal" /\ n >= arg + 1 => effect = Append(s, s[arg + 1])
  BY UnwrapsAre, ComputingIs DEF Effect, Unwritten, FloatBinary, IntBinary
<1>7. op = "GetGlobal" /\ Len(slots) > arg => effect = Append(s, slots[arg + 1])
  BY UnwrapsAre, ComputingIs DEF Effect, Unwritten, FloatBinary, IntBinary
<1>8. op = "SetLocal" /\ n >= arg + 1 /\ s[arg + 1] = s[n] => effect = s
  BY UnwrapsAre, ComputingIs DEF Effect, Unwritten, FloatBinary, IntBinary
<1>9. op = "SetGlobal" /\ n >= 1 /\ Len(slots) > arg /\ slots[arg + 1] = s[n] => effect = s
  BY UnwrapsAre, ComputingIs DEF Effect, Unwritten, FloatBinary, IntBinary
<1>10. op = "Pop" /\ n >= 1 => effect = SubSeq(s, 1, n - 1)
  BY UnwrapsAre, ComputingIs DEF Effect, Unwritten, FloatBinary, IntBinary
<1>11. op = "Jump" => effect = s
  BY UnwrapsAre, ComputingIs DEF Effect, Unwritten, FloatBinary, IntBinary
<1>12. op = "JumpIfNot" /\ n >= 1 /\ s[n].t = "Bool" => effect = SubSeq(s, 1, n - 1)
  BY UnwrapsAre, ComputingIs DEF Effect, Unwritten, FloatBinary, IntBinary
<1>13. op = "CallUser"
         => effect = IF /\ n >= arg + 1
                        /\ s[n - arg].t = "Function" /\ s[n - arg].f \in DOMAIN program \ {MainId}
                        /\ program[s[n - arg].f].params = Variants(SubSeq(s, n - arg + 1, n))
                     THEN SubSeq(s, 1, n - (arg + 1)) \o <<Of(program[s[n - arg].f].ret_type)>> ELSE Bad
  BY UnwrapsAre, ComputingIs DEF Effect, Unwritten, FloatBinary, IntBinary
<1>14. op = "CallNative"
         => effect = IF /\ n >= arg + 1
                        /\ s[n - arg].t = "NativeFunc" /\ s[n - arg].f \in DOMAIN Natives
                        /\ \/ Natives[s[n - arg].f].builds
                           \/ Natives[s[n - arg].f].takes = Variants(SubSeq(s, n - arg + 1, n))
                     THEN SubSeq(s, 1, n - (arg + 1)) \o <<Of(Natives[s[n - arg].f].gives)>> ELSE Bad
  BY UnwrapsAre, ComputingIs DEF Effect, Unwritten, FloatBinary, IntBinary
<1>15. op = "Return" /\ (k = MainId \/ (n >= 1 /\ s[n] = Of(program[k].ret_type))) => effect = s
  BY UnwrapsAre, ComputingIs DEF Effect, Unwritten, FloatBinary, IntBinary
<1>16. op \in Unwritten => effect = s
  BY UnwrapsAre, ComputingIs DEF Effect, Unwritten, FloatBinary, IntBinary
<1>17. op = "TESTYield" /\ n >= 1 => effect = SubSeq(s, 1, n - 1) \o <<Of("None")>>
  BY UnwrapsAre, ComputingIs DEF Effect, Unwritten, FloatBinary, IntBinary
<1>18. op = "WrapAny" /\ n >= 1 => effect = SubSeq(s, 1, n - 1) \o <<Of("Any")>>
  BY UnwrapsAre, ComputingIs DEF Effect, Unwritten, FloatBinary, IntBinary
<1>19. op \in DOMAIN Unwraps /\ n >= 1 /\ s[n].t = "Any"
          => effect = SubSeq(s, 1, n - 1) \o <<Of(Unwraps[op])>>
  BY UnwrapsAre, ComputingIs DEF Effect, Unwritten, FloatBinary, IntBinary
<1>20. op = "IntToFloat" /\ n >= 1 /\ s[n].t = "Int" => effect = SubSeq(s, 1, n - 1) \o <<Of("Float")>>
  <2>1. DOMAIN <<"Int">> = {1} /\ Len(<<"Int">>) = 1 /\ <<"Int">>[1] = "Int"
    OBVIOUS
  <2>2. ASSUME op = "IntToFloat"
        PROVE  effect = IF n >= 1 /\ \A i \in DOMAIN <<"Int">> : s[n - 1 + i].t = <<"Int">>[i]
                        THEN SubSeq(s, 1, n - 1) \o <<Of("Float")>> ELSE Bad
    <3>1. op \in DOMAIN Computing /\ op \notin DOMAIN Unwraps
      BY <2>2, UnwrapsAre, ComputingIs
    <3>2. Computing[op].takes = <<"Int">> /\ Computing[op].gives = "Float"
      BY <1>1, <2>2
    <3>3. effect = IF /\ n >= Len(Computing[op].takes)
                      /\ \A i \in DOMAIN Computing[op].takes :
                            s[n - Len(Computing[op].takes) + i].t = Computing[op].takes[i]
                   THEN SubSeq(s, 1, n - Len(Computing[op].takes)) \o <<Of(Computing[op].gives)>> ELSE Bad
      BY <2>2, <3>1 DEF Effect, Unwritten
    <3> QED
      BY <2>1, <3>2, <3>3
  <2>3. n \in Nat => n - 1 + 1 = n
    OBVIOUS
  <2> QED
    BY <2>1, <2>2, <2>3
<1> QED
  BY <1>2, <1>3, <1>4, <1>5, <1>6, <1>7, <1>8, <1>9, <1>10, <1>11, <1>12, <1>13, <1>14, <1>15, <1>16,
     <1>17, <1>18, <1>19, <1>20 DEF Judged

\* What the environment of a function says is what the finished program has.
Suits(k, e, globals) ==
    /\ e.main <=> k = MainId
    /\ ~e.main => /\ e.ret = program[k].ret_type
                  /\ \A g \in DOMAIN e.globals : g \in DOMAIN globals /\ globals[g] = e.globals[g]
    /\ \A c \in DOMAIN e.sigs :
          /\ c \in DOMAIN program \ {MainId}
          /\ program[c].params = e.sigs[c].params /\ program[c].ret_type = e.sigs[c].ret_type

\* An instruction that the verifier accepts, and what it touches and calls.
Obeys(k, e, globals, ip, op, arg, s, t) ==
    /\ Effect(k, globals, ip, s) = IF op \in {"Return"} \cup Unwritten THEN s ELSE t
    /\ op # "Crash"
    /\ op \in {"GetGlobal", "SetGlobal"} /\ ~e.main => arg + 1 \in DOMAIN e.globals
    /\ op = "CallUser" =>
          /\ s[Len(s) - arg].f \in DOMAIN e.sigs
          /\ e.main => \A g \in 1..e.sigs[s[Len(s) - arg].f].reach :
                          g <= Len(s) - arg - 1 /\ s[g] = e.globals[g]

\* What an instruction of the flow rests on.
Ruled(k, e, globals, ip, op, arg, a, s, t) ==
    /\ Suits(k, e, globals) /\ globals \in FrameTypes /\ program[k].constants \in Seq(Value)
    /\ op = Decode(Ip(k, ip)) /\ arg = Ip(k, ip + 1) /\ (op \in ByteOps => a = arg /\ arg \in Nat)
    /\ s \in FrameTypes /\ t \in FrameTypes

\* An instruction that pushes a value obeys the verifier.
LEMMA PushObeys ==
  ASSUME NEW k, NEW e, NEW globals, NEW ip, NEW op, NEW arg, NEW a, NEW s, NEW t,
         Ruled(k, e, globals, ip, op, arg, a, s, t),
         NEW x \in StaticType, t = Append(s, x), Pushes(e, program[k].constants, op, a, s, x)
  PROVE  Obeys(k, e, globals, ip, op, arg, s, t)
<1> DEFINE n == Len(s)
           slots == IF k = MainId THEN s ELSE globals
           cs == program[k].constants
           effect == Effect(k, globals, ip, s)
<1>1. /\ n \in Nat /\ DOMAIN s = 1..n /\ Len(globals) \in Nat /\ DOMAIN globals = 1..Len(globals)
      /\ Len(cs) \in Nat /\ DOMAIN cs = 1..Len(cs)
      /\ op = Decode(Ip(k, ip)) /\ arg = Ip(k, ip + 1)
  BY LenProperties DEF Ruled, FrameTypes
<1>2. /\ op \in {"None", "LoadByte", "TESTTakeInput", "Constant", "GetLocal", "GetGlobal"}
      /\ op \notin {"Return"} \cup Unwritten /\ op \notin {"Crash", "SetGlobal", "CallUser"}
      /\ op \in {"Constant", "GetLocal", "GetGlobal"} => a = arg /\ arg \in Nat
  BY DEF Pushes, Unwritten, Ruled, ByteOps
<1>3. /\ op = "None" => effect = Append(s, Of("None"))
      /\ op = "LoadByte" => effect = Append(s, Of("Int"))
      /\ op = "TESTTakeInput" => effect = Append(s, Of(InputType))
      /\ op = "Constant" /\ arg < Len(cs) => effect = Append(s, TypeOfValue(cs[arg + 1]))
      /\ op = "GetLocal" /\ n >= arg + 1 => effect = Append(s, s[arg + 1])
      /\ op = "GetGlobal" /\ Len(slots) > arg => effect = Append(s, slots[arg + 1])
  <2> HIDE DEF n, slots, effect
  <2>1. n = Len(s) /\ slots = (IF k = MainId THEN s ELSE globals) /\ effect = Effect(k, globals, ip, s)
    BY DEF n, slots, effect
  <2>2. Judged(op, arg, k, s, n, slots, effect)
    BY <1>1, <2>1, EffectOf
  <2> QED
    BY <2>2 DEF Judged
<1> HIDE DEF n, slots, effect, cs
<1>4. op = "None" => effect = t
  BY <1>3 DEF Pushes
<1>5. op = "LoadByte" => effect = t
  BY <1>3 DEF Pushes
<1>6. op = "TESTTakeInput" => effect = t
  BY <1>3, CompilerAssumption DEF Pushes
<1>7. ASSUME op = "Constant" PROVE effect = t
  <2>1. arg + 1 \in DOMAIN cs /\ x = TypeOfValue(cs[arg + 1]) /\ arg \in Nat
    BY <1>2, <1>7 DEF Pushes, cs
  <2>2. arg < Len(cs)
    BY <1>1, <2>1
  <2> QED
    BY <1>3, <1>7, <2>1, <2>2
<1>8. ASSUME op = "GetLocal" PROVE effect = t
  <2>1. arg + 1 \in DOMAIN s /\ x = s[arg + 1] /\ arg \in Nat
    BY <1>2, <1>8 DEF Pushes
  <2>2. n >= arg + 1
    BY <1>1, <2>1
  <2> QED
    BY <1>3, <1>8, <2>1, <2>2
<1>9. ASSUME op = "GetGlobal"
      PROVE  effect = t /\ (~e.main => arg + 1 \in DOMAIN e.globals)
  <2>1. arg + 1 \in DOMAIN GlobalSlots(e, s) /\ x = GlobalSlots(e, s)[arg + 1] /\ arg \in Nat
    BY <1>2, <1>9 DEF Pushes
  <2>2. CASE e.main
    <3>1. slots = s /\ GlobalSlots(e, s) = s
      BY <2>2 DEF Ruled, Suits, slots, GlobalSlots
    <3>2. Len(slots) > arg
      BY <1>1, <2>1, <3>1 DEF n
    <3> QED
      BY <1>3, <1>9, <2>1, <2>2, <3>1, <3>2
  <2>3. CASE ~e.main
    <3>1. slots = globals /\ GlobalSlots(e, s) = e.globals
      BY <2>3 DEF Ruled, Suits, slots, GlobalSlots
    <3>2. arg + 1 \in DOMAIN globals /\ globals[arg + 1] = e.globals[arg + 1]
      BY <2>1, <2>3, <3>1 DEF Ruled, Suits
    <3>3. Len(slots) > arg
      BY <1>1, <2>1, <3>1, <3>2
    <3> QED
      BY <1>3, <1>9, <2>1, <3>1, <3>2, <3>3
  <2> QED
    BY <2>2, <2>3
<1> QED
  BY <1>2, <1>4, <1>5, <1>6, <1>7, <1>8, <1>9 DEF Obeys, effect

\* One that pops a value.
LEMMA DropObeys ==
  ASSUME NEW k, NEW e, NEW globals, NEW ip, NEW op, NEW arg, NEW a, NEW s, NEW t,
         Ruled(k, e, globals, ip, op, arg, a, s, t),
         NEW x \in StaticType, s = Append(t, x), Drops(e, op, x)
  PROVE  Obeys(k, e, globals, ip, op, arg, s, t)
<1> DEFINE n == Len(s)
           slots == IF k = MainId THEN s ELSE globals
           effect == Effect(k, globals, ip, s)
<1>1. n \in Nat /\ n >= 1 /\ s[n] = x /\ SubSeq(s, 1, n - 1) = t
  BY OneOnTop DEF Ruled
<1>2. op = Decode(Ip(k, ip)) /\ arg = Ip(k, ip + 1) /\ op \in {"Pop", "JumpIfNot", "Return"}
      /\ op \notin Unwritten /\ op \notin {"Crash", "GetGlobal", "SetGlobal", "CallUser"}
  BY DEF Drops, Unwritten, Ruled
<1>3. /\ op = "Pop" /\ n >= 1 => effect = SubSeq(s, 1, n - 1)
      /\ op = "JumpIfNot" /\ n >= 1 /\ s[n].t = "Bool" => effect = SubSeq(s, 1, n - 1)
      /\ op = "Return" /\ (k = MainId \/ (n >= 1 /\ s[n] = Of(program[k].ret_type))) => effect = s
  <2> HIDE DEF n, slots, effect
  <2>1. n = Len(s) /\ slots = (IF k = MainId THEN s ELSE globals) /\ effect = Effect(k, globals, ip, s)
    BY DEF n, slots, effect
  <2>2. Judged(op, arg, k, s, n, slots, effect)
    BY <1>1, <1>2, <2>1, EffectOf
  <2> QED
    BY <2>2 DEF Judged
<1> HIDE DEF n, effect
<1>4. op = "Pop" => effect = t
  BY <1>1, <1>3
<1>5. op = "JumpIfNot" => effect = t
  BY <1>1, <1>3 DEF Drops, Of
<1>6. op = "Return" => effect = s
  BY <1>1, <1>3 DEF Drops, Ruled, Suits
<1> QED
  BY <1>2, <1>4, <1>5, <1>6 DEF Obeys, effect

\* One that stores the value on top.
LEMMA StoreObeys ==
  ASSUME NEW k, NEW e, NEW globals, NEW ip, NEW op, NEW arg, NEW a, NEW s, NEW t,
         Ruled(k, e, globals, ip, op, arg, a, s, t), t = s,
         NEW u \in FrameTypes, NEW x \in StaticType, s = Append(u, x), Stores(e, op, a, s, x)
  PROVE  Obeys(k, e, globals, ip, op, arg, s, t)
<1> DEFINE n == Len(s)
           slots == IF k = MainId THEN s ELSE globals
           effect == Effect(k, globals, ip, s)
<1>1. /\ n \in Nat /\ n >= 1 /\ s[n] = x /\ DOMAIN s = 1..n
      /\ Len(globals) \in Nat /\ DOMAIN globals = 1..Len(globals)
  BY OneOnTop, LenProperties DEF Ruled, FrameTypes
<1>2. /\ op = Decode(Ip(k, ip)) /\ arg = Ip(k, ip + 1) /\ op \in {"SetLocal", "SetGlobal"}
      /\ op \notin {"Return"} \cup Unwritten /\ op \notin {"Crash", "GetGlobal", "CallUser"}
      /\ a = arg /\ arg \in Nat
  BY DEF Stores, Unwritten, Ruled, ByteOps
<1>3. /\ op = "SetLocal" /\ n >= arg + 1 /\ s[arg + 1] = s[n] => effect = s
      /\ op = "SetGlobal" /\ n >= 1 /\ Len(slots) > arg /\ slots[arg + 1] = s[n] => effect = s
  <2> HIDE DEF n, slots, effect
  <2>1. n = Len(s) /\ slots = (IF k = MainId THEN s ELSE globals) /\ effect = Effect(k, globals, ip, s)
    BY DEF n, slots, effect
  <2>2. Judged(op, arg, k, s, n, slots, effect)
    BY <1>1, <1>2, <2>1, EffectOf
  <2> QED
    BY <2>2 DEF Judged
<1> HIDE DEF n, slots, effect
<1>4. ASSUME op = "SetLocal" PROVE effect = s
  <2>1. arg + 1 \in DOMAIN s /\ s[arg + 1] = x
    BY <1>2, <1>4 DEF Stores
  <2>2. n >= arg + 1
    BY <1>1, <1>2, <2>1
  <2> QED
    BY <1>1, <1>3, <1>4, <2>1, <2>2
<1>5. ASSUME op = "SetGlobal"
      PROVE  effect = s /\ (~e.main => arg + 1 \in DOMAIN e.globals)
  <2>1. arg + 1 \in DOMAIN GlobalSlots(e, s) /\ GlobalSlots(e, s)[arg + 1] = x
    BY <1>2, <1>5 DEF Stores
  <2>2. CASE e.main
    <3>1. slots = s /\ GlobalSlots(e, s) = s
      BY <2>2 DEF Ruled, Suits, slots, GlobalSlots
    <3>2. Len(slots) > arg
      BY <1>1, <1>2, <2>1, <3>1 DEF n
    <3> QED
      BY <1>1, <1>3, <1>5, <2>1, <2>2, <3>1, <3>2
  <2>3. CASE ~e.main
    <3>1. slots = globals /\ GlobalSlots(e, s) = e.globals
      BY <2>3 DEF Ruled, Suits, slots, GlobalSlots
    <3>2. arg + 1 \in DOMAIN globals /\ globals[arg + 1] = e.globals[arg + 1]
      BY <2>1, <2>3, <3>1 DEF Ruled, Suits
    <3>3. Len(slots) > arg
      BY <1>1, <1>2, <3>1, <3>2
    <3> QED
      BY <1>1, <1>3, <1>5, <2>1, <3>1, <3>2, <3>3
  <2> QED
    BY <2>2, <2>3
<1> QED
  BY <1>2, <1>4, <1>5 DEF Obeys, effect

\* One that gives the value on top another type.
LEMMA ConvertObeys ==
  ASSUME NEW k, NEW e, NEW globals, NEW ip, NEW op, NEW arg, NEW a, NEW s, NEW t,
         Ruled(k, e, globals, ip, op, arg, a, s, t),
         NEW u \in FrameTypes, NEW x \in StaticType, NEW y \in StaticType,
         s = Append(u, x), t = Append(u, y), Converts(op, x, y)
  PROVE  Obeys(k, e, globals, ip, op, arg, s, t)
<1> DEFINE n == Len(s)
           slots == IF k = MainId THEN s ELSE globals
           effect == Effect(k, globals, ip, s)
<1>1. n \in Nat /\ n >= 1 /\ s[n] = x /\ SubSeq(s, 1, n - 1) = u /\ u \o <<y>> = t
  BY OneOnTop
<1>2. /\ op = Decode(Ip(k, ip)) /\ arg = Ip(k, ip + 1)
      /\ op \in {"WrapAny", "TESTYield", "IntToFloat"} \cup DOMAIN Unwraps \cup Unwritten
      /\ op \notin {"Return", "Crash", "GetGlobal", "SetGlobal", "CallUser"}
  BY UnwrapsAre DEF Converts, Unwritten, Ruled
<1>3. /\ op \in Unwritten => effect = s
      /\ op = "TESTYield" /\ n >= 1 => effect = SubSeq(s, 1, n - 1) \o <<Of("None")>>
      /\ op = "WrapAny" /\ n >= 1 => effect = SubSeq(s, 1, n - 1) \o <<Of("Any")>>
      /\ op \in DOMAIN Unwraps /\ n >= 1 /\ s[n].t = "Any"
            => effect = SubSeq(s, 1, n - 1) \o <<Of(Unwraps[op])>>
      /\ op = "IntToFloat" /\ n >= 1 /\ s[n].t = "Int" => effect = SubSeq(s, 1, n - 1) \o <<Of("Float")>>
  <2> HIDE DEF n, slots, effect
  <2>1. n = Len(s) /\ slots = (IF k = MainId THEN s ELSE globals) /\ effect = Effect(k, globals, ip, s)
    BY DEF n, slots, effect
  <2>2. Judged(op, arg, k, s, n, slots, effect)
    BY <1>1, <1>2, <2>1, EffectOf
  <2> QED
    BY <2>2 DEF Judged
<1> HIDE DEF n, effect
<1>4. ASSUME op \notin Unwritten PROVE effect = t
  <2>1. op \notin {"WrapAny", "TESTYield", "IntToFloat"} => op \in DOMAIN Unwraps
    BY <1>2, <1>4
  <2>2. op = "WrapAny" => effect = t
    BY <1>1, <1>3, UnwrapsAre DEF Converts, Unwritten
  <2>3. op = "TESTYield" => effect = t
    BY <1>1, <1>3, UnwrapsAre DEF Converts, Unwritten
  <2>4. op = "IntToFloat" => effect = t
    BY <1>1, <1>3, UnwrapsAre DEF Converts, Unwritten
  <2>5. op \in DOMAIN Unwraps => effect = t
    BY <1>1, <1>3, UnwrapsAre DEF Converts, Unwritten
  <2> QED
    BY <2>1, <2>2, <2>3, <2>4, <2>5
<1> QED
  BY <1>2, <1>3, <1>4 DEF Obeys, effect

\* A call.
LEMMA CallObeys ==
  ASSUME NEW k, NEW e, NEW globals, NEW ip, NEW op, NEW arg, NEW a, NEW s, NEW t,
         Ruled(k, e, globals, ip, op, arg, a, s, t),
         NEW u \in FrameTypes, NEW x \in StaticType, NEW y \in StaticType, NEW args \in FrameTypes,
         s = Append(u, x) \o args, Len(args) = a, t = Append(u, y), Answers(e, op, u, x, args, y)
  PROVE  Obeys(k, e, globals, ip, op, arg, s, t)
<1> DEFINE n == Len(s)
           slots == IF k = MainId THEN s ELSE globals
           effect == Effect(k, globals, ip, s)
<1>1. /\ op = Decode(Ip(k, ip)) /\ arg = Ip(k, ip + 1) /\ op \in {"CallUser", "CallNative"}
      /\ op \notin {"Return"} \cup Unwritten /\ op \notin {"Crash", "GetGlobal", "SetGlobal"}
      /\ arg = a /\ arg \in Nat
  BY DEF Answers, Unwritten, Ruled, ByteOps
<1>2. n = Len(s) /\ arg = Len(args)
  BY <1>1
<1> HIDE DEF n
<1>3. /\ n \in Nat /\ Len(u) \in Nat /\ n = Len(u) + arg + 1
      /\ s[n - arg] = x /\ SubSeq(s, n - arg + 1, n) = args /\ SubSeq(s, 1, n - (arg + 1)) = u
      /\ \A g \in 1..Len(u) : s[g] = u[g]
  <2>1. CalleeIs(u, x, args, s, n, arg)
    BY <1>1, <1>2, CalleeOnTop
  <2> QED
    BY <2>1 DEF CalleeIs
<1>4. u \o <<y>> = t
  BY OneOnTop
<1>5. /\ op = "CallUser"
            => effect = IF /\ n >= arg + 1
                           /\ s[n - arg].t = "Function" /\ s[n - arg].f \in DOMAIN program \ {MainId}
                           /\ program[s[n - arg].f].params = Variants(SubSeq(s, n - arg + 1, n))
                        THEN SubSeq(s, 1, n - (arg + 1)) \o <<Of(program[s[n - arg].f].ret_type)>> ELSE Bad
      /\ op = "CallNative"
            => effect = IF /\ n >= arg + 1
                           /\ s[n - arg].t = "NativeFunc" /\ s[n - arg].f \in DOMAIN Natives
                           /\ \/ Natives[s[n - arg].f].builds
                              \/ Natives[s[n - arg].f].takes = Variants(SubSeq(s, n - arg + 1, n))
                        THEN SubSeq(s, 1, n - (arg + 1)) \o <<Of(Natives[s[n - arg].f].gives)>> ELSE Bad
  <2> HIDE DEF slots, effect
  <2>1. n = Len(s) /\ slots = (IF k = MainId THEN s ELSE globals) /\ effect = Effect(k, globals, ip, s)
    BY <1>2 DEF slots, effect
  <2>2. Judged(op, arg, k, s, n, slots, effect)
    BY <1>1, <1>3, <2>1, EffectOf
  <2> QED
    BY <2>2 DEF Judged
<1> HIDE DEF effect
<1>6. n >= arg + 1 /\ n - arg - 1 = Len(u)
  <2>1. \A m, b, c \in Nat : m = c + b + 1 => m >= b + 1 /\ m - b - 1 = c
    OBVIOUS
  <2> QED
    BY <1>1, <1>3, <2>1
<1>7. ASSUME op = "CallUser"
      PROVE  /\ effect = t /\ x.f \in DOMAIN e.sigs
             /\ e.main => \A g \in 1..e.sigs[x.f].reach : g <= Len(s) - arg - 1 /\ s[g] = e.globals[g]
  <2>1. /\ x.t = "Function" /\ x.f \in DOMAIN e.sigs /\ e.sigs[x.f].params = Variants(args)
        /\ y = Of(e.sigs[x.f].ret_type)
        /\ e.main => \A g \in 1..e.sigs[x.f].reach : g <= Len(u) /\ u[g] = e.globals[g]
    BY <1>7 DEF Answers
  <2>2. /\ x.f \in DOMAIN program \ {MainId} /\ program[x.f].params = e.sigs[x.f].params
        /\ program[x.f].ret_type = e.sigs[x.f].ret_type
    BY <2>1 DEF Ruled, Suits
  <2>3. effect = t
    BY <1>3, <1>4, <1>5, <1>6, <1>7, <2>1, <2>2
  <2>4. ASSUME e.main, NEW g \in 1..e.sigs[x.f].reach PROVE g <= Len(s) - arg - 1 /\ s[g] = e.globals[g]
    <3>1. g <= Len(u) /\ u[g] = e.globals[g]
      BY <2>1, <2>4
    <3>2. g \in 1..Len(u)
      BY <1>3, <3>1
    <3> QED
      BY <1>3, <1>6, <1>2, <3>1, <3>2
  <2> QED
    BY <2>1, <2>3, <2>4
<1>8. ASSUME op = "CallNative" PROVE effect = t
  <2>1. /\ x.t = "NativeFunc" /\ x.f \in DOMAIN Natives
        /\ Natives[x.f].builds \/ Natives[x.f].takes = Variants(args)
        /\ y = Of(Natives[x.f].gives)
    BY <1>8 DEF Answers
  <2> QED
    BY <1>3, <1>4, <1>5, <1>6, <1>8, <2>1
<1> QED
  BY <1>1, <1>3, <1>7, <1>8, <1>2 DEF Obeys, effect

\* The verifier accepts every instruction of a flow.
LEMMA RuleObeys ==
  ASSUME NEW k, NEW e, NEW globals, NEW ip, NEW op, NEW arg, NEW a, NEW s, NEW t,
         Ruled(k, e, globals, ip, op, arg, a, s, t), Rule(e, program[k].constants, op, a, s, t)
  PROVE  Obeys(k, e, globals, ip, op, arg, s, t)
<1>1. ASSUME t = s, op = "Jump" PROVE Obeys(k, e, globals, ip, op, arg, s, t)
  <2> DEFINE n == Len(s)
             slots == IF k = MainId THEN s ELSE globals
             effect == Effect(k, globals, ip, s)
  <2>1. /\ n \in Nat /\ op = Decode(Ip(k, ip)) /\ arg = Ip(k, ip + 1) /\ n = Len(s)
        /\ slots = (IF k = MainId THEN s ELSE globals) /\ effect = Effect(k, globals, ip, s)
    BY LenProperties DEF Ruled, FrameTypes
  <2> HIDE DEF n, slots, effect
  <2>2. Judged(op, arg, k, s, n, slots, effect)
    BY <2>1, EffectOf
  <2>3. effect = s
    BY <1>1, <2>2 DEF Judged
  <2> QED
    BY <1>1, <2>3 DEF Obeys, Unwritten, effect
<1> QED
  BY <1>1, PushObeys, DropObeys, StoreObeys, ConvertObeys, CallObeys DEF Rule

\* The table that the flow of a function fills for the verifier.
TableFor(code, S, T) ==
    [q \in 1..(Len(code) + 1) |-> IF q - 1 \in S \ {Len(code)} THEN T[q - 1] ELSE Dead]

\* Code that ends where it should, with a flow of its own.
Flowing(k, e, globals, code, S, T) ==
    /\ k \in DOMAIN program /\ code = program[k].code /\ code \in Seq(Byte)
    /\ program[k].constants \in Seq(Value)
    /\ Suits(k, e, globals) /\ globals \in FrameTypes /\ e.entry = Entry(k)
    /\ Flow(e, program[k].constants, code, S, T)
    /\ \A at \in JumpsIn(code, S) : TargetIn(code, at) < Len(code)
    /\ \A ip \in S \ {Len(code)} : NextOf(code, ip) = Len(code) => Decode(code[ip + 1]) = "Return"
    /\ Len(code) > 0

\* What the verifier finds at a place of it.
PlaceIsFine(k, e, globals, code, S, T, ip) ==
    /\ ip \in 0..(Len(code) - 1) /\ T[ip] \in FrameTypes /\ Readable(k, ip)
    /\ Ip(k, ip + 1) \in Byte \/ Decode(Ip(k, ip)) \notin ByteOps
    /\ Effect(k, globals, ip, T[ip]) \in FrameTypes
    /\ Obeys(k, e, globals, ip, Decode(Ip(k, ip)), Ip(k, ip + 1), T[ip], T[NextOf(code, ip)])
    /\ \A next \in Successors(k, ip) : next \in S \ {Len(code)} /\ T[next] = Effect(k, globals, ip, T[ip])

\* At every place with types the verifier goes on to places with the types that it
\* expects.
LEMMA PlaceFine ==
  ASSUME NEW k, NEW e, NEW globals, NEW code, NEW S, NEW T, Flowing(k, e, globals, code, S, T),
         NEW ip \in S \ {Len(code)}
  PROVE  PlaceIsFine(k, e, globals, code, S, T, ip)
<1> DEFINE op == Decode(Ip(k, ip))
           arg == Ip(k, ip + 1)
           a == ArgOf(code, ip)
           next == NextOf(code, ip)
           s == T[ip]
           t == T[next]
           effect == Effect(k, globals, ip, s)
<1>1. /\ code = program[k].code /\ code \in Seq(Byte) /\ Len(code) \in Nat
      /\ IsRow(code, S) /\ Laid(code, S) /\ JumpsStay(code, S) /\ T \in [S -> FrameTypes]
      /\ Flow(e, program[k].constants, code, S, T)
  BY LenProperties DEF Flowing, Flow, IsRow
<1>2. ip \in 0..(Len(code) - 1) /\ next \in S /\ next \in 0..Len(code) /\ IsOp(code[ip + 1])
  <2>1. S \subseteq 0..Len(code) /\ next \in S /\ IsOp(code[ip + 1])
    BY <1>1 DEF Laid
  <2> HIDE DEF next
  <2> QED
    BY <1>1, <2>1
<1>3. op = Decode(code[ip + 1]) /\ next = ip + Width(op) /\ Width(op) \in 1..3
  BY <1>1, Widths DEF Ip, NextOf
<1>4. Readable(k, ip)
  <2>1. ip < Len(code) /\ next <= Len(code)
    BY <1>1, <1>2
  <2> QED
    BY <1>1, <1>2, <1>3, <2>1 DEF Readable, Ip
<1>5. ASSUME op \in ByteOps PROVE a = arg /\ arg \in Byte
  <2>1. a = code[ip + 2]
    BY <1>3, <1>5 DEF ArgOf
  <2>2. Width(op) = 2
    BY <1>5, Widths
  <2>3. ip + 2 \in 1..Len(code) /\ ip + 1 + 1 = ip + 2
    BY <1>1, <1>2, <1>3, <2>2
  <2>4. arg = code[ip + 2]
    BY <1>1, <2>3 DEF Ip
  <2> QED
    BY <1>1, <2>1, <2>3, <2>4, ElementOfSeq
<1>6. s \in FrameTypes /\ t \in FrameTypes
  BY <1>1, <1>2
<1>7. Rule(e, program[k].constants, op, a, s, t)
  BY <1>1, <1>3 DEF Flow
<1>8. Obeys(k, e, globals, ip, op, arg, s, t)
  <2>1. Ruled(k, e, globals, ip, op, arg, a, s, t)
    <3>1. Byte \subseteq Nat
      BY DEF Byte
    <3> QED
      BY <1>5, <1>6, <3>1 DEF Ruled, Flowing
  <2> HIDE DEF op, arg, a, s, t
  <2> QED
    BY <1>7, <2>1, RuleObeys
<1>9. effect = IF op \in {"Return"} \cup Unwritten THEN s ELSE t
  BY <1>8 DEF Obeys
<1>10. op # "Crash"
  BY <1>8 DEF Obeys
<1>11. ASSUME op \notin {"Return"} \cup Unwritten PROVE next \in S \ {Len(code)} /\ t = effect
  BY <1>2, <1>3, <1>9, <1>11 DEF Flowing
<1> DEFINE target == next + Signed16(Ip(k, ip + 1), Ip(k, ip + 2))
<1>12. ASSUME op \in ShortOps PROVE target \in S \ {Len(code)} /\ T[target] = effect
  <2>1. ip + 1 \in JumpsIn(code, S)
    <3>1. ip + 1 \in 1..Len(code) /\ ip + 1 - 1 = ip
      BY <1>1, <1>2
    <3>2. Decode(code[ip + 1]) \in ShortOps /\ ip \in S
      BY <1>3, <1>12
    <3>3. PICK at : at = ip + 1
      OBVIOUS
    <3>4. at \in 1..Len(code) /\ at - 1 \in S /\ Decode(code[at]) \in ShortOps
      <4>1. at \in 1..Len(code) /\ at - 1 = ip
        BY <1>1, <1>2, <3>3
      <4>2. Decode(code[at]) \in ShortOps
        BY <3>2, <3>3
      <4> QED
        BY <3>2, <4>1, <4>2
    <3>5. at \in JumpsIn(code, S)
      BY <3>4 DEF JumpsIn
    <3> QED
      BY <3>3, <3>5
  <2>2. Width(op) = 3
    BY <1>12, Widths
  <2>3. target = TargetIn(code, ip + 1) /\ next = ip + 3
    <3>1. ip + 1 + 2 = ip + 3 /\ ip + 1 + 1 = ip + 2 /\ ip + 2 + 1 = ip + 3
      BY <1>2
    <3>2. next = ip + 3
      BY <1>3, <2>2
    <3> QED
      BY <1>1, <3>1, <3>2 DEF TargetIn, Ip
  <2>4. TargetIn(code, ip + 1) \in S /\ TargetIn(code, ip + 1) < Len(code)
    BY <1>1, <2>1 DEF JumpsStay, Flowing
  <2>5. T[TargetIn(code, ip + 1)] = T[next]
    <3>1. T[TargetIn(code, ip + 1)] = T[ip + 1 + 2]
      BY <1>1, <2>1 DEF Flow
    <3>2. ip + 1 + 2 = ip + 3
      BY <1>2
    <3> QED
      BY <2>3, <3>1, <3>2
  <2>6. op \notin {"Return"} \cup Unwritten
    BY <1>12 DEF ShortOps, Unwritten
  <2>7. TargetIn(code, ip + 1) # Len(code)
    BY <1>1, <1>2, <2>4 DEF Laid
  <2> QED
    BY <1>11, <2>3, <2>4, <2>5, <2>6, <2>7
<1>13. effect \in FrameTypes
  BY <1>6, <1>9
<1> HIDE DEF t, effect
<1>14. Successors(k, ip) = CASE op \in {"Return", "Crash"} \cup Unwritten -> {}
                             [] op = "Jump" -> {target}
                             [] op = "JumpIfNot" -> {next, target}
                             [] OTHER -> {next}
  BY <1>3 DEF Successors
<1> HIDE DEF op, next, target, s
<1>15. ASSUME NEW to \in Successors(k, ip) PROVE to \in S \ {Len(code)} /\ T[to] = effect
  <2>1. CASE op \in {"Return", "Crash"} \cup Unwritten
    <3>1. op # "Jump" /\ op # "JumpIfNot"
      BY <2>1 DEF Unwritten
    <3>2. Successors(k, ip) = {}
      BY <1>14, <2>1, <3>1
    <3> QED
      BY <1>15, <3>2
  <2>2. CASE op = "Jump"
    <3>1. op \notin {"Return", "Crash"} \cup Unwritten /\ op \in ShortOps
      BY <2>2 DEF Unwritten, ShortOps
    <3>2. to = target
      BY <1>14, <1>15, <2>2, <3>1
    <3> QED
      BY <1>12, <3>1, <3>2
  <2>3. CASE op = "JumpIfNot"
    <3>1. op \notin {"Return", "Crash"} \cup Unwritten /\ op \in ShortOps /\ op # "Jump"
      BY <2>3 DEF Unwritten, ShortOps
    <3>2. to \in {next, target}
      BY <1>14, <1>15, <2>3, <3>1
    <3> QED
      BY <1>11, <1>12, <3>1, <3>2 DEF t
  <2>4. CASE op \notin {"Return", "Crash", "Jump", "JumpIfNot"} \cup Unwritten
    <3>1. to = next
      BY <1>14, <1>15, <2>4
    <3> QED
      BY <1>11, <2>4, <3>1 DEF t
  <2> QED
    BY <2>1, <2>2, <2>3, <2>4
<1> QED
  BY <1>2, <1>4, <1>5, <1>6, <1>8, <1>13, <1>15 DEF PlaceIsFine, op, s, t, next, effect

\* A table as the verifier wants it, whose frames are as high as the generator counts.
Fitted(k, e, globals, table) ==
    /\ FunctionOK(k, globals, table)
    /\ ~e.main => \A g \in Touches(k, table) : g \in Byte /\ g + 1 \in DOMAIN e.globals
    /\ Calls(k, table) \subseteq DOMAIN e.sigs
    /\ \A ip \in Reached(k, table, {"CallUser"}) : table[ip + 1] \in FrameTypes /\ Ip(k, ip + 1) \in Byte
    /\ e.main => \A ip \in Reached(k, table, {"CallUser"}) :
          \A g \in 1..e.sigs[CalledAt(k, table, ip)].reach :
             g <= Len(table[ip + 1]) - Ip(k, ip + 1) - 1 /\ table[ip + 1][g] = e.globals[g]
    /\ \A h \in program[k].heights :
          h[1] \in 0..(Len(program[k].code) - 1)
             => Len(table[h[1] + 1]) = Base(e.main, program[k].params) + h[2]

\* The places of the table.
TableIs(code, S, T, table) ==
    /\ \A ip \in S \ {Len(code)} : table[ip + 1] = T[ip]
    /\ \A ip \in 0..Len(code) : table[ip + 1] # Bad
    /\ \A ip \in 0..Len(code) : table[ip + 1] # Dead => ip \in S \ {Len(code)}

\* The table has a frame at the places of the instructions and nowhere else.
LEMMA TablePlaces ==
  ASSUME NEW code \in Seq(Byte), NEW S, S \subseteq 0..Len(code), Len(code) > 0,
         NEW T, T \in [S -> FrameTypes],
         NEW table, table = TableFor(code, S, T)
  PROVE  TableIs(code, S, T, table)
<1>1. Len(code) \in Nat
  BY LenProperties
<1>2. ASSUME NEW ip \in 0..Len(code) PROVE table[ip + 1] = IF ip \in S \ {Len(code)} THEN T[ip] ELSE Dead
  <2>1. ip + 1 \in 1..(Len(code) + 1) /\ ip + 1 - 1 = ip
    BY <1>1
  <2> QED
    BY <2>1 DEF TableFor
<1>3. ASSUME NEW ip \in S \ {Len(code)} PROVE T[ip] # Bad /\ T[ip] # Dead
  BY <1>3, FrameIsNoMark
<1>4. Dead # Bad
  <2>1. Dead[1].t = "dead" /\ Bad[1].t = "bad"
    BY DEF Dead, Bad, Mark
  <2> QED
    BY <2>1
<1> QED
  BY <1>2, <1>3, <1>4 DEF TableIs

\* Code that flows is accepted.
LEMMA FlowFits ==
  ASSUME NEW k, NEW e, NEW globals, NEW code, NEW S, NEW T, Flowing(k, e, globals, code, S, T),
         HeightsHold(Base(e.main, program[k].params), program[k].heights, S, T),
         NEW table, table = TableFor(code, S, T)
  PROVE  Fitted(k, e, globals, table)
<1>1. /\ code = program[k].code /\ code \in Seq(Byte) /\ Len(code) \in Nat /\ Len(code) > 0
      /\ S \subseteq 0..Len(code) /\ 0 \in S /\ T \in [S -> FrameTypes] /\ T[0] = Entry(k)
  BY LenProperties DEF Flowing, Flow, IsRow, Laid
<1>2. /\ \A ip \in S \ {Len(code)} : table[ip + 1] = T[ip]
      /\ \A ip \in 0..Len(code) : table[ip + 1] # Bad
      /\ \A ip \in 0..Len(code) : table[ip + 1] # Dead => ip \in S \ {Len(code)}
  <2>1. TableIs(code, S, T, table)
    BY <1>1, TablePlaces
  <2> QED
    BY <2>1 DEF TableIs
<1>3. \A ip \in S \ {Len(code)} : PlaceIsFine(k, e, globals, code, S, T, ip)
  BY PlaceFine
<1>4. table[1] = Entry(k)
  <2>1. 0 \in S \ {Len(code)} /\ 0 + 1 = 1
    BY <1>1
  <2>2. table[0 + 1] = T[0]
    BY <1>2, <2>1
  <2> QED
    BY <1>1, <2>1, <2>2
<1>5. FunctionOK(k, globals, table)
  <2> SUFFICES ASSUME NEW ip \in 0..Len(code), table[ip + 1] # Dead
               PROVE  /\ table[ip + 1] # Bad /\ Readable(k, ip)
                      /\ Effect(k, globals, ip, table[ip + 1]) \notin {Bad, Dead}
                      /\ \A next \in Successors(k, ip) :
                            /\ next \in 0..(Len(code) - 1)
                            /\ table[next + 1] = Effect(k, globals, ip, table[ip + 1])
    BY <1>1, <1>4 DEF FunctionOK
  <2>1. ip \in S \ {Len(code)} /\ table[ip + 1] = T[ip] /\ table[ip + 1] # Bad
    BY <1>2
  <2>2. PlaceIsFine(k, e, globals, code, S, T, ip)
    BY <1>3, <2>1
  <2>3. Effect(k, globals, ip, table[ip + 1]) \notin {Bad, Dead}
    BY <2>1, <2>2, FrameIsNoMark DEF PlaceIsFine
  <2>4. ASSUME NEW next \in Successors(k, ip)
        PROVE  next \in 0..(Len(code) - 1) /\ table[next + 1] = Effect(k, globals, ip, table[ip + 1])
    <3>1. next \in S \ {Len(code)} /\ T[next] = Effect(k, globals, ip, T[ip])
      BY <2>2 DEF PlaceIsFine
    <3>2. next \in 0..(Len(code) - 1)
      BY <1>1, <3>1
    <3> QED
      BY <1>2, <2>1, <3>1, <3>2
  <2> QED
    BY <2>1, <2>2, <2>3, <2>4 DEF PlaceIsFine
<1>6. ASSUME NEW ops, NEW ip \in Reached(k, table, ops)
      PROVE  /\ PlaceIsFine(k, e, globals, code, S, T, ip) /\ table[ip + 1] = T[ip]
             /\ Decode(Ip(k, ip)) \in ops /\ ip \in 0..(Len(code) - 1)
  <2>1. ip \in 0..(Len(code) - 1) /\ table[ip + 1] # Dead /\ Decode(Ip(k, ip)) \in ops
    BY <1>1 DEF Reached
  <2>2. ip \in 0..Len(code)
    BY <1>1, <2>1
  <2>3. ip \in S \ {Len(code)}
    BY <1>2, <2>1, <2>2
  <2> QED
    BY <1>2, <1>3, <2>1, <2>3
<1>7. ASSUME ~e.main, NEW g \in Touches(k, table) PROVE g \in Byte /\ g + 1 \in DOMAIN e.globals
  <2>1. PICK ip \in Reached(k, table, {"GetGlobal", "SetGlobal"}) : g = Ip(k, ip + 1)
    BY DEF Touches
  <2>2. PlaceIsFine(k, e, globals, code, S, T, ip) /\ Decode(Ip(k, ip)) \in {"GetGlobal", "SetGlobal"}
    BY <1>6
  <2>3. Decode(Ip(k, ip)) \in ByteOps
    BY <2>2 DEF ByteOps
  <2> QED
    BY <1>7, <2>1, <2>2, <2>3 DEF PlaceIsFine, Obeys
<1>8. ASSUME NEW ip \in Reached(k, table, {"CallUser"})
      PROVE  /\ CalledAt(k, table, ip) \in DOMAIN e.sigs
             /\ e.main => \A g \in 1..e.sigs[CalledAt(k, table, ip)].reach :
                   g <= Len(table[ip + 1]) - Ip(k, ip + 1) - 1 /\ table[ip + 1][g] = e.globals[g]
  <2>1. /\ PlaceIsFine(k, e, globals, code, S, T, ip) /\ table[ip + 1] = T[ip]
        /\ Decode(Ip(k, ip)) = "CallUser"
    BY <1>6
  <2>2. CalledAt(k, table, ip) = T[ip][Len(T[ip]) - Ip(k, ip + 1)].f
    BY <2>1 DEF CalledAt
  <2> QED
    BY <2>1, <2>2 DEF PlaceIsFine, Obeys
<1>9. ASSUME NEW ip \in Reached(k, table, {"CallUser"})
      PROVE  table[ip + 1] \in FrameTypes /\ Ip(k, ip + 1) \in Byte
  <2>1. /\ PlaceIsFine(k, e, globals, code, S, T, ip) /\ table[ip + 1] = T[ip]
        /\ Decode(Ip(k, ip)) = "CallUser"
    BY <1>6
  <2>2. Decode(Ip(k, ip)) \in ByteOps
    BY <2>1 DEF ByteOps
  <2> QED
    BY <2>1, <2>2 DEF PlaceIsFine
<1>10. Calls(k, table) \subseteq DOMAIN e.sigs
  BY <1>8 DEF Calls
<1>11. ASSUME NEW h \in program[k].heights, h[1] \in 0..(Len(code) - 1)
       PROVE  Len(table[h[1] + 1]) = Base(e.main, program[k].params) + h[2]
  <2>1. h[1] \in S /\ Len(T[h[1]]) = Base(e.main, program[k].params) + h[2]
    BY DEF HeightsHold
  <2>2. h[1] # Len(code)
    BY <1>1, <1>11
  <2> QED
    BY <1>2, <2>1, <2>2
<1> QED
  BY <1>1, <1>5, <1>7, <1>8, <1>10, <1>11, <1>9 DEF Fitted

\* So is the code of a function that is typed and closed.
LEMMA TypedFits ==
  ASSUME NEW k \in DOMAIN program, NEW e, NEW globals \in FrameTypes, Suits(k, e, globals),
         e.entry = Entry(k),
         program[k].code \in Seq(Byte), program[k].constants \in Seq(Value), ClosedCode(program[k].code),
         TypedCode(e, program[k])
  PROVE  \E table : Fitted(k, e, globals, table)
<1>1. PICK code : code = program[k].code
  OBVIOUS
<1>2. PICK S, T : /\ Flow(e, program[k].constants, code, S, T)
                  /\ HeightsHold(Base(e.main, program[k].params), program[k].heights, S, T)
  BY <1>1 DEF TypedCode
<1>3. PICK R : /\ IsRow(code, R)
               /\ \A at \in JumpsIn(code, R) : TargetIn(code, at) < Len(code)
               /\ \A ip \in R \ {Len(code)} : NextOf(code, ip) = Len(code) => Decode(code[ip + 1]) = "Return"
               /\ Len(code) > 0
  BY <1>1 DEF ClosedCode
<1>4. R = S
  <2>1. Laid(code, R) /\ Laid(code, S) /\ code \in Seq(Byte)
    BY <1>1, <1>2, <1>3 DEF IsRow, Flow
  <2> QED
    BY <2>1, OneRow
<1>5. Flowing(k, e, globals, code, S, T)
  BY <1>1, <1>2, <1>3, <1>4 DEF Flowing
<1> QED
  BY <1>2, <1>5, FlowFits

\* The environment of a finished function.
EnvFor(k, sigs) == IF k = MainId THEN MainEnv(sigs, global_bindings) ELSE FuncEnv(k, sigs, global_bindings)

\* It says what the verifier reads from the program.
LEMMA EnvSuits ==
  ASSUME NEW sigs, ProgramTyped(sigs), IsTable(global_bindings), IsSequence(program), NEW k \in DOMAIN program
  PROVE  /\ Suits(k, EnvFor(k, sigs), GlobalTypes) /\ EnvFor(k, sigs).entry = Entry(k)
         /\ GlobalTypes \in FrameTypes /\ TypedCode(EnvFor(k, sigs), program[k])
         /\ EnvFor(k, sigs).main = (k = MainId)
<1> DEFINE n == Len(sigs)
           globals == global_bindings
           e == EnvFor(k, sigs)
<1>1. /\ n \in Nat /\ DOMAIN sigs = 1..n /\ Len(program) = n + 1 /\ DOMAIN program = 1..(n + 1)
            /\ MainId = n + 1
      /\ IsSequence(globals) /\ DOMAIN globals = 1..Len(globals) /\ Len(globals) \in Nat
      /\ SigsOK(sigs, globals) /\ GlobalsOK(sigs, globals)
  <2>1. sigs \in Seq(Signature) /\ IsSequence(globals)
    BY DEF ProgramTyped, SigsOK, IsTable
  <2> QED
    BY <2>1, Places, LenProperties DEF ProgramTyped, MainId
<1>2. ASSUME NEW c \in 1..n
      PROVE  /\ c \in DOMAIN program \ {MainId} /\ program[c].params = sigs[c].params
             /\ program[c].ret_type = sigs[c].ret_type /\ sigs[c] \in Signature
             /\ sigs[c].reach \in Nat /\ sigs[c].reach <= Len(globals)
  <2>1. c \in 1..(n + 1) /\ c # n + 1
    BY <1>1
  <2>2. TypedFunction(c, sigs, globals, program[c]) /\ sigs[c] \in Signature
    BY <1>1, ElementOfSeq DEF ProgramTyped, SigsOK
  <2>3. sigs[c].reach \in Nat
    BY <2>2 DEF Signature
  <2> QED
    BY <1>1, <2>1, <2>2, <2>3 DEF TypedFunction, SigsOK
<1>3. GlobalTypes = Kinds(globals)
  BY DEF GlobalTypes, Kinds
<1>4. GlobalTypes \in FrameTypes /\ DOMAIN GlobalTypes = 1..Len(globals)
  <2>1. \A g \in 1..Len(globals) : globals[g].type \in StaticType
    BY <1>1 DEF GlobalsOK, DataOK
  <2>2. GlobalTypes \in [1..Len(globals) -> StaticType]
    BY <1>1, <2>1 DEF GlobalTypes
  <2> QED
    BY <1>1, <2>2 DEF FrameTypes
<1>5. CASE k = MainId
  <2>1. /\ e = MainEnv(sigs, globals) /\ e.main = TRUE /\ e.entry = NativeTypes /\ e.sigs = sigs
        /\ (k = MainId) = TRUE
    BY <1>5 DEF EnvFor, MainEnv
  <2>2. Suits(k, e, GlobalTypes)
    <3> HIDE DEF e
    <3> QED
      BY <1>1, <1>2, <1>5, <2>1 DEF Suits
  <2>3. Entry(k) = NativeTypes
    BY <1>5 DEF Entry, NativeTypes
  <2>4. TypedCode(e, program[k])
    BY <1>5, <2>1 DEF ProgramTyped, MainId
  <2> QED
    BY <1>4, <2>1, <2>2, <2>3, <2>4
<1>6. CASE k # MainId
  <2>1. k \in 1..n
    BY <1>1, <1>6
  <2>2. /\ e = FuncEnv(k, sigs, globals) /\ e.main = FALSE /\ e.ret = sigs[k].ret_type
        /\ e.entry = <<[t |-> "Function", f |-> k]>> \o ArgTypes(sigs[k].params)
        /\ e.globals = Part(Kinds(globals), sigs[k].reach) /\ e.sigs = Part(sigs, k)
        /\ (k = MainId) = FALSE
    BY <1>6 DEF EnvFor, FuncEnv
  <2>3. DOMAIN e.sigs = 1..k /\ \A c \in 1..k : e.sigs[c] = sigs[c] /\ c \in 1..n
    BY <1>1, <2>1, <2>2 DEF Part
  <2>4. \A g \in DOMAIN e.globals : g \in DOMAIN GlobalTypes /\ GlobalTypes[g] = e.globals[g]
    <3>1. DOMAIN e.globals = 1..sigs[k].reach /\ \A g \in 1..sigs[k].reach : e.globals[g] = GlobalTypes[g]
      BY <1>3, <2>2 DEF Part
    <3>2. \A g \in 1..sigs[k].reach : g \in 1..Len(globals)
      BY <1>1, <1>2, <2>1
    <3> QED
      BY <1>4, <3>1, <3>2
  <2>5. Suits(k, e, GlobalTypes)
    <3> HIDE DEF e
    <3> QED
      BY <1>2, <1>6, <2>1, <2>2, <2>3, <2>4 DEF Suits
  <2>6. Entry(k) = e.entry
    BY <1>2, <1>6, <2>1, <2>2 DEF Entry, ArgTypes
  <2>7. TypedCode(e, program[k])
    BY <1>1, <2>1, <2>2 DEF ProgramTyped, TypedFunction
  <2> QED
    BY <1>4, <2>2, <2>5, <2>6, <2>7
<1> QED
  BY <1>5, <1>6

\* The tables have frames as high as the generator counts.
Counted(tables) ==
    \A k \in DOMAIN program : \A h \in program[k].heights :
        h[1] \in 0..(Len(program[k].code) - 1)
           => Len(tables[k][h[1] + 1]) = Base(k = MainId, program[k].params) + h[2]

\* What the verifier asks of a program, and that its tables are the generator's.
Verified(globals, tables, needs) ==
    TablesOK(globals, tables) /\ NeedsOK(globals, tables, needs) /\ Counted(tables)

\* Each function of a sound program has its table.
LEMMA FunctionFits ==
  ASSUME IInv, LayoutInv, phase \in {"compiled", "running"}, SoundProgram,
         NEW sigs, ProgramTyped(sigs), NEW k \in DOMAIN program
  PROVE  \E table : Fitted(k, EnvFor(k, sigs), GlobalTypes, table)
<1>1. IsTable(global_bindings) /\ IsSequence(program) /\ IsProgram(program)
  BY CompiledIsProgram DEF IInv
<1>2. ClosedCode(program[k].code)
  <2>1. PlacedFunction(program[k])
    BY DEF LayoutInv, GoesOn
  <2> QED
    BY <2>1 DEF PlacedFunction, SoundProgram, Sound
<1>3. program[k].code \in Seq(Byte) /\ program[k].constants \in Seq(Value)
  BY <1>1 DEF IsProgram
<1>4. /\ Suits(k, EnvFor(k, sigs), GlobalTypes) /\ EnvFor(k, sigs).entry = Entry(k)
      /\ GlobalTypes \in FrameTypes /\ TypedCode(EnvFor(k, sigs), program[k])
  BY <1>1, EnvSuits
<1> QED
  BY <1>2, <1>3, <1>4, TypedFits

\* A sound program has tables.
LEMMA SoundVerified ==
  ASSUME IInv, LayoutInv, TypeInv, phase \in {"compiled", "running"}, SoundProgram
  PROVE  \E tables, needs : Verified(GlobalTypes, tables, needs)
<1>1. PICK sigs : ProgramTyped(sigs)
  BY DEF TypeInv
<1>2. IsTable(global_bindings) /\ IsSequence(program)
  BY DEF IInv
<1>3. /\ Len(sigs) \in Nat /\ DOMAIN sigs = 1..Len(sigs) /\ DOMAIN program \ {MainId} = 1..Len(sigs)
      /\ MainId \in DOMAIN program
      /\ \A c \in 1..Len(sigs) : sigs[c].reach \in Nat
      /\ \A j, c \in 1..Len(sigs) : j <= c => sigs[j].reach <= sigs[c].reach
  <2>1. sigs \in Seq(Signature) /\ Len(program) = Len(sigs) + 1
    BY <1>1 DEF ProgramTyped, SigsOK
  <2>2. \A c \in 1..Len(sigs) : sigs[c] \in Signature
    BY <2>1, ElementOfSeq
  <2>3. Len(sigs) \in Nat /\ DOMAIN sigs = 1..Len(sigs) /\ DOMAIN program = 1..(Len(sigs) + 1)
        /\ MainId = Len(sigs) + 1
    BY <1>2, <2>1, Places, LenProperties DEF MainId
  <2>4. (1..(Len(sigs) + 1)) \ {Len(sigs) + 1} = 1..Len(sigs)
    BY <2>3
  <2> QED
    <3>1. \A c \in 1..Len(sigs) : sigs[c].reach \in Nat
      BY <2>2 DEF Signature
    <3>2. \A j, c \in 1..Len(sigs) : j <= c => sigs[j].reach <= sigs[c].reach
      BY <1>1, <2>3 DEF ProgramTyped, SigsOK
    <3>3. DOMAIN program \ {MainId} = 1..Len(sigs) /\ MainId \in DOMAIN program
      BY <2>3, <2>4
    <3> QED
      BY <2>3, <3>1, <3>2, <3>3
<1> DEFINE globals == GlobalTypes
           e(k) == EnvFor(k, sigs)
           tables == [k \in DOMAIN program |-> CHOOSE table : Fitted(k, e(k), globals, table)]
           needs == [k \in DOMAIN program |-> IF k = MainId THEN {} ELSE 0..(sigs[k].reach - 1)]
<1>4. ASSUME NEW k \in DOMAIN program PROVE Fitted(k, e(k), globals, tables[k])
  BY <1>1, FunctionFits
<1>5. \A c \in 1..Len(sigs) : needs[c] = 0..(sigs[c].reach - 1)
  BY <1>3
<1> HIDE DEF tables, needs
<1>6. ASSUME NEW k \in DOMAIN program
      PROVE  /\ (k = MainId) => e(k) = MainEnv(sigs, global_bindings)
             /\ (k # MainId) => e(k) = FuncEnv(k, sigs, global_bindings)
             /\ e(k).main = (k = MainId)
  BY <1>1, <1>2, EnvSuits DEF EnvFor
<1> HIDE DEF e
<1>7. TablesOK(globals, tables)
  BY <1>4 DEF TablesOK, Fitted
<1>8. Counted(tables)
  <2> SUFFICES ASSUME NEW k \in DOMAIN program, NEW h \in program[k].heights,
                      h[1] \in 0..(Len(program[k].code) - 1)
               PROVE  Len(tables[k][h[1] + 1]) = Base(k = MainId, program[k].params) + h[2]
    BY DEF Counted
  <2>1. Len(tables[k][h[1] + 1]) = Base(e(k).main, program[k].params) + h[2]
    BY <1>4 DEF Fitted
  <2> QED
    BY <1>6, <2>1
<1>9. Covers(tables, needs)
  <2> SUFFICES ASSUME NEW k \in DOMAIN program \ {MainId}
               PROVE  /\ Touches(k, tables[k]) \subseteq needs[k]
                      /\ \A c \in Calls(k, tables[k]) : needs[c] \subseteq needs[k]
    BY DEF Covers
  <2>1. /\ k \in 1..Len(sigs) /\ e(k).main = FALSE /\ DOMAIN e(k).globals = 1..sigs[k].reach
        /\ DOMAIN e(k).sigs = 1..k
    <3>1. k \in 1..Len(sigs) /\ k \in DOMAIN program /\ k # MainId
      BY <1>3
    <3>2. e(k) = FuncEnv(k, sigs, global_bindings)
      BY <1>6, <3>1
    <3>3. /\ e(k).main = FALSE /\ e(k).globals = Part(Kinds(global_bindings), sigs[k].reach)
          /\ e(k).sigs = Part(sigs, k)
      BY <3>2 DEF FuncEnv
    <3> QED
      BY <3>1, <3>3 DEF Part
  <2>2. Fitted(k, e(k), globals, tables[k])
    BY <1>4
  <2>3. ASSUME NEW g \in Touches(k, tables[k]) PROVE g \in needs[k]
    <3>1. g \in Byte /\ g + 1 \in 1..sigs[k].reach
      BY <2>1, <2>2 DEF Fitted
    <3>2. g \in 0..(sigs[k].reach - 1)
      BY <1>3, <2>1, <3>1 DEF Byte
    <3> QED
      BY <1>5, <2>1, <3>2
  <2>4. ASSUME NEW c \in Calls(k, tables[k]) PROVE needs[c] \subseteq needs[k]
    <3>1. c \in 1..k
      BY <2>1, <2>2 DEF Fitted
    <3>2. c \in 1..Len(sigs) /\ c <= k
      BY <1>3, <2>1, <3>1
    <3>3. sigs[c].reach <= sigs[k].reach /\ sigs[c].reach \in Nat /\ sigs[k].reach \in Nat
      BY <1>3, <2>1, <3>2
    <3>4. 0..(sigs[c].reach - 1) \subseteq 0..(sigs[k].reach - 1)
      BY <3>3
    <3> QED
      BY <1>5, <2>1, <3>2, <3>4
  <2> QED
    BY <2>3, <2>4
<1>10. MainReady(globals, tables[MainId], needs)
  <2> SUFFICES ASSUME NEW ip \in Reached(MainId, tables[MainId], {"CallUser"}),
                      NEW g \in needs[CalledAt(MainId, tables[MainId], ip)]
               PROVE  /\ g < Len(tables[MainId][ip + 1]) - Ip(MainId, ip + 1) - 1
                      /\ tables[MainId][ip + 1][g + 1] = globals[g + 1]
    BY DEF MainReady
  <2>1. PICK k, table, c, s : /\ k = MainId /\ table = tables[k] /\ c = CalledAt(k, table, ip)
                              /\ s = table[ip + 1]
    OBVIOUS
  <2>2. /\ k \in DOMAIN program /\ e(k).main = TRUE /\ e(k).sigs = sigs
        /\ e(k).globals = Kinds(global_bindings) /\ Fitted(k, e(k), globals, table)
    BY <1>3, <1>4, <1>6, <2>1 DEF MainEnv
  <2>3. ip \in Reached(k, table, {"CallUser"})
    BY <2>1
  <2>4. /\ c \in DOMAIN sigs /\ s \in FrameTypes /\ Ip(k, ip + 1) \in Byte
        /\ \A q \in 1..sigs[c].reach : q <= Len(s) - Ip(k, ip + 1) - 1 /\ s[q] = e(k).globals[q]
    BY <2>1, <2>2, <2>3 DEF Fitted, Calls
  <2>5. sigs[c].reach \in Nat /\ g \in 0..(sigs[c].reach - 1)
    BY <1>3, <1>5, <2>1, <2>4
  <2>6. g \in Nat /\ g + 1 \in 1..sigs[c].reach
    BY <2>5
  <2>7. g + 1 <= Len(s) - Ip(k, ip + 1) - 1 /\ s[g + 1] = Kinds(global_bindings)[g + 1]
    BY <2>2, <2>4, <2>6
  <2>8. Len(s) \in Nat /\ Ip(k, ip + 1) \in Nat
    <3>1. s \in Seq(StaticType) /\ Ip(k, ip + 1) \in 0..255
      BY <2>4 DEF FrameTypes, Byte
    <3>2. Len(s) \in Nat
      BY <3>1, LenProperties
    <3>3. \A b \in 0..255 : b \in Nat
      OBVIOUS
    <3>4. Ip(k, ip + 1) \in Nat
      BY <3>1, <3>3
    <3> QED
      BY <3>2, <3>4
  <2>9. g < Len(s) - Ip(k, ip + 1) - 1
    BY <2>6, <2>7, <2>8
  <2> QED
    BY <2>1, <2>7, <2>9 DEF GlobalTypes, Kinds
<1>11. Verified(globals, tables, needs)
  BY <1>7, <1>8, <1>9, <1>10 DEF Verified, NeedsOK
<1> QED
  BY <1>11

(***************************************************************************)
(* The run of a sound program.                                             *)
(***************************************************************************)
\* The tables of a sound program describe every frame of its run.
RunsVerified ==
    SoundProgram => /\ status \notin Faults
                    /\ \E tables, needs :
                          status = "running" => Accepted(GlobalTypes, tables, needs) /\ Counted(tables)

\* The tables of a sound program describe the frame that its run begins with.
LEMMA VerifiedStarts ==
  ASSUME RunInv, LayoutInv, TypeInv, Start
  PROVE  RunsVerified'
<1>1. /\ program' = program /\ GlobalTypes' = GlobalTypes /\ phase = "compiled"
      /\ status' = "running" /\ "running" \notin Faults
  BY DEF Start, GlobalTypes, Faults
<1>2. (SoundProgram' <=> SoundProgram) /\ IsProgram(program') /\ Boot(MainId)'
  BY <1>1, StartBoots DEF SoundProgram, Narrow, MainId, RunInv
<1>3. ASSUME SoundProgram
      PROVE  \E tables, needs : Accepted(GlobalTypes, tables, needs)' /\ Counted(tables)'
  <2>1. PICK globals, tables, needs : globals = GlobalTypes /\ Verified(globals, tables, needs)
    BY <1>1, <1>3, SoundVerified DEF RunInv
  <2>2. TablesOK(globals, tables)' /\ NeedsOK(globals, tables, needs)'
    BY <1>1, <2>1, SameTables, SameNeeds DEF Verified
  <2>3. Counted(tables)'
    BY <1>1, <2>1 DEF Verified, Counted, MainId
  <2>4. Accepted(globals, tables, needs)'
    BY <1>2, <2>2, BootNext
  <2> QED
    BY <1>1, <2>1, <2>3, <2>4
<1> QED
  BY <1>1, <1>2, <1>3 DEF RunsVerified

\* Every step keeps it.
LEMMA VerifiedSteps ==
  ASSUME RunInv, LayoutInv, TypeInv, phase = "running" => RunsVerified, [Next]_vars, phase' = "running"
  PROVE  RunsVerified'
<1>1. CASE Start
  BY <1>1, VerifiedStarts
<1>2. CASE CompileStep
  <2>1. phase' # "running"
    BY <1>2, CompileOnly DEF CompileStep
  <2> QED
    BY <2>1
<1>3. CASE RunStep
  <2>1. /\ phase = "running" /\ Cycle /\ program' = program /\ global_bindings' = global_bindings
        /\ status = "running"
    BY <1>3, CycleKeepsProgram, CycleRuns DEF RunStep
  <2>2. GlobalTypes' = GlobalTypes /\ (SoundProgram' <=> SoundProgram)
    BY <2>1 DEF GlobalTypes, SoundProgram, Narrow, MainId
  <2>3. ASSUME SoundProgram
        PROVE  /\ status' \notin Faults
               /\ \E tables, needs :
                     status' = "running" => Accepted(GlobalTypes, tables, needs)' /\ Counted(tables)'
    <3>1. PICK globals, tables, needs :
             globals = GlobalTypes /\ Accepted(globals, tables, needs) /\ Counted(tables)
      BY <2>1, <2>3 DEF RunsVerified
    <3>2. status' \notin Faults /\ (status' = "running" => Accepted(globals, tables, needs)')
      BY <2>1, <3>1, CycleAccepted
    <3>3. globals = GlobalTypes'
      BY <2>2, <3>1
    <3>4. Counted(tables)'
      BY <2>1, <3>1 DEF Counted, MainId
    <3> QED
      BY <3>2, <3>3, <3>4
  <2> QED
    BY <2>2, <2>3 DEF RunsVerified
<1>4. CASE UNCHANGED vars
  <2>1. /\ phase' = phase /\ program' = program /\ status' = status /\ global_bindings' = global_bindings
        /\ UNCHANGED vmVars
    BY <1>4 DEF vars, runVars, compilerVars, vmVars
  <2>2. GlobalTypes' = GlobalTypes /\ (SoundProgram' <=> SoundProgram)
    BY <2>1 DEF GlobalTypes, SoundProgram, Narrow, MainId
  <2>3. ASSUME NEW tables, NEW needs, Accepted(GlobalTypes, tables, needs), Counted(tables)
        PROVE  Accepted(GlobalTypes, tables, needs)' /\ Counted(tables)'
    <3>1. PICK globals : globals = GlobalTypes
      OBVIOUS
    <3>2. Accepted(globals, tables, needs)'
      BY <2>1, <2>3, <3>1, StutterAccepted
    <3>3. globals = GlobalTypes'
      BY <2>2, <3>1
    <3>4. Counted(tables)'
      BY <2>1, <2>3 DEF Counted, MainId
    <3> QED
      BY <3>2, <3>3, <3>4
  <2> QED
    BY <2>1, <2>2, <2>3 DEF RunsVerified
<1> QED
  BY <1>1, <1>2, <1>3, <1>4 DEF Next

VerifiedInv == phase = "running" => RunsVerified

\* They describe every frame of it.
LEMMA VerifiedHolds == Spec => []VerifiedInv
<1>1. Init => VerifiedInv
  BY DEF Init, CompilerInit, VerifiedInv
<1>2. RunInv /\ LayoutInv /\ TypeInv /\ VerifiedInv /\ [Next]_vars => VerifiedInv'
  BY VerifiedSteps DEF VerifiedInv
<1> QED
  BY <1>1, <1>2, RunInvariant, LayoutHolds, TypesFlow, PTL DEF Spec

\* No run of a sound program ends in one of the panics of runtime.rs that a program
\* cannot cause by itself.
THEOREM SoundCodeNeverFaults == Spec => []SoundNeverFaults
<1>1. RunInv /\ VerifiedInv => SoundNeverFaults
  <2>1. "idle" \notin Faults
    BY DEF Faults
  <2> QED
    BY <2>1 DEF RunInv, VerifiedInv, RunsVerified, SoundNeverFaults
<1> QED
  BY <1>1, RunInvariant, VerifiedHolds, PTL

\* A sound program that is compiled has types that the verifier's conditions accept.
TablesThere ==
    phase = "compiled" /\ SoundProgram
        => \E tables, needs : TablesOK(GlobalTypes, tables) /\ NeedsOK(GlobalTypes, tables, needs)

\* A program of statements without the five constructs that the compiler codes
\* wrongly passes the verifier: its code has tables of types that agree from every
\* instruction to the next.
THEOREM SoundCodeIsTyped == Spec => []TablesThere
<1>1. IInv /\ LayoutInv /\ TypeInv => TablesThere
  BY SoundVerified DEF TablesThere, Verified
<1> QED
  BY <1>1, InvariantHolds, LayoutHolds, TypesFlow, PTL

\* Between two statements of a sound program the frame of the function that runs holds
\* what the generator counts.
THEOREM SoundHeightsKept == Spec => [](SoundProgram => HeightKept)
<1>1. RunInv /\ VerifiedInv => (SoundProgram => HeightKept)
  <2> SUFFICES ASSUME RunInv, VerifiedInv, SoundProgram, IsRunning, NEW h \in Fn.heights, h[1] = Top.ip
               PROVE  LET counted == Base(Top.function = MainId, Fn.params) + h[2]
                          height == Len(stack) - Top.stack_bottom
                      IN IF Fn.leaky THEN height >= counted ELSE height = counted
    BY DEF HeightKept
  <2>1. PICK globals, tables, needs :
           globals = GlobalTypes /\ Accepted(globals, tables, needs) /\ Counted(tables)
    BY DEF VerifiedInv, RunsVerified, IsRunning
  <2>2. PICK k, ip, s : k = Top.function /\ ip = Top.ip /\ s = Expected(tables, Depth)
    OBVIOUS
  <2>3. k \in DOMAIN program /\ ip \in Nat /\ ip < Len(Fn.code) /\ s = tables[k][ip + 1] /\ Fn = program[k]
    BY <2>1, <2>2, HereFacts
  <2>4. Len(s) \in Nat /\ Top.stack_bottom \in Nat /\ Len(stack) \in Nat
        /\ Top.stack_bottom + Len(s) = Len(stack)
    BY <2>1, <2>2, OwnFacts
  <2>5. Len(s) = Base(k = MainId, program[k].params) + h[2]
    <3>1. h[1] \in 0..(Len(program[k].code) - 1)
      <4>1. IsProgram(program)
        BY <2>1 DEF Accepted, MachineOK
      <4>2. Len(program[k].code) \in Nat
        BY <2>3, <4>1, LenProperties DEF IsProgram
      <4> QED
        BY <2>2, <2>3, <4>2
    <3> QED
      BY <2>1, <2>2, <2>3, <3>1 DEF Counted
  <2>6. ~Fn.leaky
    BY <2>3 DEF SoundProgram, Sound
  <2>7. Len(stack) - Top.stack_bottom = Len(s)
    BY <2>4
  <2> QED
    BY <2>2, <2>3, <2>5, <2>6, <2>7
<1> QED
  BY <1>1, RunInvariant, VerifiedHolds, PTL

(***************************************************************************)
(* The refinement: a run of a sound program gives every activation slots   *)
(* of its own.                                                             *)
(***************************************************************************)
SoundActivations == IF phase = "running" /\ SoundProgram THEN Activations ELSE <<>>

G == INSTANCE Frames WITH acts <- SoundActivations
SoundFramesImplemented == G!Spec

\* A step of the activations is one of Frames.
LEMMA OwnIsSound ==
  ASSUME SoundActivations = Activations, SoundActivations' = Activations', Own!Next
  PROVE  G!Next
<1>1. PICK acts, next : acts = Activations /\ next = Activations'
  OBVIOUS
<1>2. acts = SoundActivations /\ next = SoundActivations'
  BY <1>1
<1>3. CASE Own!Start
  BY <1>1, <1>2, <1>3 DEF Own!Start, G!Next, G!Start
<1>4. CASE Own!Work
  BY <1>1, <1>2, <1>4 DEF Own!Work, Own!Running, Own!OneGlobalAtMost, Own!Differ,
                          G!Next, G!Work, G!Running, G!OneGlobalAtMost, G!Differ
<1>5. CASE Own!Call
  BY <1>1, <1>2, <1>5 DEF Own!Call, Own!Running, G!Next, G!Call, G!Running
<1>6. CASE Own!Leave
  BY <1>1, <1>2, <1>6 DEF Own!Leave, Own!Running, Own!Front, Own!Last,
                          G!Next, G!Leave, G!Running, G!Front, G!Last
<1> QED
  BY <1>3, <1>4, <1>5, <1>6 DEF Own!Next

\* A run starts with the activation of the main script.
LEMMA SoundFramesStart ==
  ASSUME RunInv, RunInv', Start
  PROVE  G!Start \/ UNCHANGED SoundActivations
<1>1. SoundActivations = <<>> /\ phase' = "running"
  BY DEF Start, SoundActivations
<1>2. MachineOK' /\ Boot(MainId)'
  BY <1>1, StartBoots DEF RunInv
<1>3. Len(Activations') = 1
  <2>1. Len(Activations') = Depth'
    BY <1>2, ActsNext DEF ActsOK
  <2>2. Depth' = 1
    BY <1>2 DEF Boot, FirstFrame, Depth
  <2> QED
    BY <2>1, <2>2
<1>4. SoundActivations' = Activations' \/ SoundActivations' = <<>>
  BY DEF SoundActivations
<1> QED
  BY <1>1, <1>3, <1>4 DEF G!Start

\* A cycle is a step of them.
LEMMA SoundFramesCycle ==
  ASSUME RunInv, RunInv', VerifiedInv, RunStep
  PROVE  G!Next \/ UNCHANGED SoundActivations
<1>1. /\ phase = "running" /\ phase' = "running" /\ Cycle /\ status = "running"
      /\ program' = program /\ global_bindings' = global_bindings
  BY CycleKeepsProgram, CycleRuns DEF RunStep
<1>2. SoundProgram' <=> SoundProgram
  BY <1>1 DEF SoundProgram, Narrow, MainId
<1>3. CASE SoundProgram
  <2>1. SoundActivations = Activations /\ SoundActivations' = Activations'
    BY <1>1, <1>2, <1>3 DEF SoundActivations
  <2>2. PICK globals, tables, needs : Accepted(globals, tables, needs)
    BY <1>1, <1>3 DEF VerifiedInv, RunsVerified
  <2>3. Own!Next \/ UNCHANGED Activations
    BY <1>1, <2>2, CycleImplemented DEF RunInv
  <2> QED
    BY <2>1, <2>3, OwnIsSound
<1>4. CASE ~SoundProgram
  BY <1>2, <1>4 DEF SoundActivations
<1> QED
  BY <1>3, <1>4

\* Every step of a compilation and a run is a step of the activations, or changes none.
LEMMA SoundFramesStep ==
  ASSUME RunInv, RunInv', VerifiedInv, [Next]_vars
  PROVE  [G!Next]_SoundActivations
<1>1. CASE CompileStep
  <2>1. phase = "compile" /\ phase' # "running"
    BY <1>1, CompileOnly DEF CompileStep
  <2>2. SoundActivations = <<>> /\ SoundActivations' = <<>>
    BY <2>1 DEF SoundActivations
  <2> QED
    BY <2>2
<1>2. CASE Start
  BY <1>2, SoundFramesStart DEF G!Next
<1>3. CASE RunStep
  BY <1>3, SoundFramesCycle
<1>4. CASE UNCHANGED vars
  <2>1. /\ phase' = phase /\ program' = program /\ UNCHANGED vmVars
    BY <1>4 DEF vars, runVars, compilerVars, vmVars
  <2>2. SoundProgram' <=> SoundProgram
    BY <2>1 DEF SoundProgram, Narrow, MainId
  <2>3. Activations' = Activations
    BY <2>1 DEF Activations, Slots, Depth, vmVars
  <2> QED
    BY <2>1, <2>2, <2>3 DEF SoundActivations
<1> QED
  BY <1>1, <1>2, <1>3, <1>4 DEF Next

\* The shared stack of what interpret() runs implements one stack per activation, for
\* every sound program: calls and returns of generated code (visit_call_expr and
\* visit_return_stmt in codegen.rs) fit the frames that runtime.rs makes of them.
THEOREM SoundFramesRefinement == Spec => SoundFramesImplemented
<1>1. Init => G!Init
  <2>1. Init => SoundActivations = <<>>
    BY DEF Init, CompilerInit, SoundActivations
  <2> QED
    BY <2>1 DEF G!Init
<1>2. RunInv /\ RunInv' /\ VerifiedInv /\ [Next]_vars => [G!Next]_SoundActivations
  BY SoundFramesStep
<1> QED
  BY <1>1, <1>2, RunInvariant, VerifiedHolds, PTL DEF Spec, SoundFramesImplemented, G!Spec
===============================================================================
