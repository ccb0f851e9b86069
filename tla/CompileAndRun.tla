---------------------------- MODULE CompileAndRun ----------------------------
(***************************************************************************)
(* interpret() of runtime.rs: a program is compiled, then the machine runs *)
(* what came out.  A behaviour of this module chooses a program, one       *)
(* statement at a time, and then runs it on every input.                   *)
(***************************************************************************)
EXTENDS Compiler, VM, Verifier

runVars == <<call_stack, stack, heap, status>>
vars == <<compilerVars, runVars>>

Init ==
    /\ CompilerInit
    /\ call_stack = <<>> /\ stack = <<>> /\ heap = <<>>
    /\ status = "idle"

CompileStep == Compile /\ UNCHANGED runVars

Start ==
    /\ phase = "compiled"
    /\ phase' = "running"
    /\ call_stack' = FirstFrame(MainId)
    /\ stack' = NativeValues
    /\ heap' = <<>>
    /\ status' = "running"
    /\ UNCHANGED <<contexts, global_bindings, program, left, declared>>

RunStep ==
    /\ phase = "running"
    /\ Cycle
    /\ UNCHANGED <<contexts, global_bindings, phase, left, declared>>

Next == CompileStep \/ Start \/ RunStep

\* interpret() goes on from the generated code to the machine, and run() calls
\* cycle() again as long as it says Continue.
Spec == Init /\ [][Next]_vars /\ WF_vars(Start) /\ WF_vars(RunStep)

(***************************************************************************)
(* The types.                                                              *)
(***************************************************************************)
TypeOK == CompilerTypeOK /\ (phase = "running" => VMTypeOK)

(***************************************************************************)
(* Two passes, one layout.                                                 *)
(***************************************************************************)
\* The values in a frame below the first variable its code declares.
Base(isMain, params) == IF isMain THEN Len(Natives) ELSE 1 + Len(params)

\* The analysis numbers slots by counting declarations, the generator counts
\* the variables it codes, and neither ever sees the other's count.  They agree
\* at every statement, so the slot that a name is bound to is the place where
\* the generator's code leaves the value.
SlotsAgree ==
    \A i \in DOMAIN contexts :
        LET gen == contexts[i].gen
            res == contexts[i].res
            isMain == i = 1
            inProgress == IF isMain /\ Level = 2 THEN 1 ELSE 0
        IN Base(isMain, gen.params) + gen.stack_size + inProgress
             = Len(res.local_bindings) + (IF isMain THEN Len(global_bindings) ELSE 0)

\* Every loop that the analysis counts is one whose start the generator keeps,
\* and a break waits for a loop that is still open.
LoopsAgree ==
    \A i \in DOMAIN contexts :
        LET gen == contexts[i].gen
        IN /\ contexts[i].res.loop_depth = Len(gen.loop_starts)
           /\ \A b \in gen.break_backlog : b.loop \in 0..(Len(gen.loop_starts) - 1)

(***************************************************************************)
(* The code that was generated.                                            *)
(***************************************************************************)
TargetOf(f, at) == at + 2 + Signed16(f.code[at + 1], f.code[at + 2])

\* A break ends at the first instruction after the loop it names, a continue at
\* that loop's condition, however the loops are nested and repeated.
ExitsLand ==
    phase = "compiled" =>
        \A i \in DOMAIN program : \A e \in program[i].exits :
            e.goal # Unknown /\ TargetOf(program[i], e.at) = e.goal

\* The places where an instruction of a function starts, and the end of its code
\* if it is where the last one ends: found[n] are those up to n.
InstructionStarts(f) ==
    LET ends(ip) == IF IsOp(f.code[ip + 1]) THEN ip + Width(Decode(f.code[ip + 1])) ELSE -1
        found[n \in 0..Len(f.code)] ==
            IF n = 0 THEN {0}
            ELSE LET before == found[n - 1]
                 IN before \cup {m \in {n} : \E ip \in before : ends(ip) = n}
    IN found[Len(f.code)]

\* Code is whole instructions; every offset in it was in the range the generator
\* can write, and leads to the start of an instruction or to the end of the code.
JumpsLand ==
    phase = "compiled" =>
        \A i \in DOMAIN program :
            LET f == program[i]
                starts == InstructionStarts(f)
            IN /\ Len(f.code) \in starts
               /\ \A ip \in starts \ {Len(f.code)} :
                     Decode(f.code[ip + 1]) \in ShortOps =>
                        /\ TargetOf(f, ip + 1) \in starts
                        /\ FitsJump(TargetOf(f, ip + 1) - (ip + 3))

\* Every slot that a function declares can be written as one byte; slots beyond
\* are cut off (`as u8` in visit_variable_expr).
FitsIndex(isMain, f) == \A h \in f.heights : Base(isMain, f.params) + h[2] <= IndexWidth
Narrow(i) == FitsIndex(i = MainId, program[i])

\* What the generator gets wrong is confined to five constructs: a break or
\* continue out of a block with locals, a function whose end is left open, a
\* return without a value in a function that returns an any, a call in the
\* main script of a function declared in a block, and more variables at a time
\* than slots that can be written.
Sound(f) == ~f.leaky /\ f.covered /\ ~f.untyped /\ ~f.misplaced
SoundProgram == \A i \in DOMAIN program : Sound(program[i]) /\ Narrow(i)

GlobalTypes == [i \in DOMAIN global_bindings |-> global_bindings[i].type]

\* Any other program's code is accepted by the bytecode verifier.
CompiledVerifies ==
    phase = "compiled" /\ SoundProgram => Verifies(GlobalTypes)

(***************************************************************************)
(* The run.                                                                *)
(***************************************************************************)
IsRunning == phase = "running" /\ status = "running"

\* Such a program never meets one of the machine's unchecked assumptions.
SoundNeverFaults == SoundProgram => status \notin Faults

\* A return without a value in a function of type any costs one thing: where the
\* result of a call is an argument of a native function that takes an any, the
\* None that was never wrapped makes it panic.  Nothing else goes wrong in a
\* program that has none of the other four constructs, which uses the value of a
\* call as such an argument or drops it.
NoneForAny ==
    /\ phase = "running" /\ status \in Faults
    /\ \A i \in DOMAIN program : Sound([program[i] EXCEPT !.untyped = FALSE]) /\ Narrow(i)
    => /\ \E i \in DOMAIN program : program[i].untyped
       /\ status = "native_panic"
       /\ LET takes == Natives[Callee.v].takes
          IN /\ Len(Args) = Len(takes)
             /\ \A i \in DOMAIN takes :
                   Args[i].t # takes[i] => Args[i] = NoneVal /\ takes[i] = "Any"

\* A run goes past the end of a function only if the generator took the last
\* byte of its code for a Return that ends every path.
RunsOffOnlyUncovered ==
    phase = "running" /\ status = "off_code" => ~Fn.covered

\* Between two statements of the running function its frame holds what the
\* generator counts; in a main script that calls no other, also more where a
\* break or continue left locals behind.
HeightKept ==
    IsRunning /\ (SoundProgram \/ Len(program) = 1) =>
        \A h \in Fn.heights :
            h[1] = Top.ip =>
                LET counted == Base(Top.function = MainId, Fn.params) + h[2]
                    height == Len(stack) - Top.stack_bottom
                IN IF Fn.leaky THEN height >= counted ELSE height = counted

\* A name reads the value of the variable it means, whatever was declared,
\* shadowed and popped since, up to the last slot that fits an operand; slots
\* beyond it read another.
ReadsOwn ==
    IsRunning /\ (\A i \in DOMAIN program : /\ ~program[i].leaky /\ ~program[i].misplaced
                                           /\ Narrow(i)) =>
        \A r \in Fn.reads :
            r[1] = Top.ip /\ Problem = "none" =>
                LET slot == IF Op = "GetLocal" THEN LocalSlot ELSE Arg
                IN stack[slot + 1] = Val("Int", r[2])

\* The native functions stay where the generated code looks for them.
NativesKept ==
    [][phase = "running" =>
         SubSeq(stack', 1, Len(Natives)) = SubSeq(stack, 1, Len(Natives))]_vars

\* The shared stack gives every activation slots of its own.
F == INSTANCE Frames WITH acts <- Activations
FramesImplemented == F!Spec

(***************************************************************************)
(* What the repository says of the program and the code does not do.       *)
(***************************************************************************)
\* codegen.rs 548, "pop locals": the variables of a block are gone where it
\* ends.  A break or continue jumps over the Pop instructions.
LocalsPopped ==
    IsRunning =>
        \A h \in Fn.heights :
            h[1] = Top.ip =>
                Len(stack) - Top.stack_bottom
                    = Base(Top.function = MainId, Fn.params) + h[2]

\* codegen.rs 489, "This extra check is more to reduce visual noise over saving
\* two bytes": leaving the epilogue out changes nothing.  When the last byte
\* ends only one of several paths, the run goes past the code.
EpilogueOnlyNoise == status # "off_code"

\* analysis.rs 201, "The main script needs to account for globals in the stack":
\* a call in the main script finds the function it names.  The slot of one that
\* is declared in a block does not account for them.
CallsFindCallee == status # "internal_error"

(***************************************************************************)
(* Progress.                                                               *)
(***************************************************************************)
\* Without a loop a run ends: code only jumps forward, and a recursion that
\* does not stop exhausts the machine's stack.
RunEnds == phase = "running" ~> status # "running"
==============================================================================
