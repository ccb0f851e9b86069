---------------------------- MODULE BytecodeProofs -----------------------------
(***************************************************************************)
(* Theorems of the machine on any bytecode: its values are values; a       *)
(* program that the verifier accepts never ends in a panic of the machine; *)
(* and the shared stack gives each of its activations slots of its own.    *)
(***************************************************************************)
EXTENDS Bytecode, MachineProofs

\* The inductive invariant: the machine's values are values, and for an accepted
\* program there are tables that every activation agrees with, as long as it runs.
BytecodeInv ==
    /\ MachineOK
    /\ verified => /\ status \notin Faults
                   /\ \E tables, needs : status = "running" => Accepted(Globals, tables, needs)

\* The verdict of the verifier says that there are tables.
LEMMA VerdictIs ==
  ASSUME NEW globals, Verifies(globals)
  PROVE  \E tables, needs : TablesOK(globals, tables) /\ NeedsOK(globals, tables, needs)
BY DEF Verifies

\* It holds when the run starts.
LEMMA BytecodeStarts == ASSUME Init PROVE BytecodeInv
<1>1. IsProgram(program) /\ Boot(MainId) /\ verified = Verifies(Globals)
  BY BytecodeAssumption DEF Init
<1>2. MachineOK
  BY <1>1, BootHolds
<1>3. status \notin Faults
  BY <1>1 DEF Boot, Faults
<1>4. ASSUME verified PROVE \E tables, needs : Accepted(Globals, tables, needs)
  <2>1. PICK tables, needs : TablesOK(Globals, tables) /\ NeedsOK(Globals, tables, needs)
    BY <1>1, <1>4, VerdictIs
  <2> QED
    BY <1>1, <2>1, BootAccepted
<1> QED
  BY <1>2, <1>3, <1>4 DEF BytecodeInv

\* Every step keeps it.
LEMMA BytecodeSteps == ASSUME BytecodeInv, [Next]_vars PROVE BytecodeInv'
<1>1. CASE Next
  <2>1. Cycle /\ verified' = verified /\ status = "running" /\ MachineOK
    BY <1>1, CycleRuns DEF Next, BytecodeInv
  <2>2. MachineOK'
    BY <2>1, CycleKeeps
  <2>3. ASSUME verified
        PROVE  /\ status' \notin Faults
               /\ \E tables, needs : status' = "running" => Accepted(Globals, tables, needs)'
    <3>1. PICK tables, needs : Accepted(Globals, tables, needs)
      BY <2>1, <2>3 DEF BytecodeInv
    <3> QED
      BY <2>1, <3>1, CycleAccepted
  <2> QED
    BY <2>1, <2>2, <2>3 DEF BytecodeInv
<1>2. CASE UNCHANGED vars
  <2>1. UNCHANGED vmVars /\ verified' = verified
    BY <1>2 DEF vars, vmVars
  <2>2. status' = status /\ MachineOK'
    BY <2>1, StutterKeeps DEF vmVars, BytecodeInv
  <2>3. ASSUME NEW tables, NEW needs, Accepted(Globals, tables, needs) PROVE Accepted(Globals, tables, needs)'
    BY <2>1, <2>3, StutterAccepted
  <2> QED
    BY <2>1, <2>2, <2>3 DEF BytecodeInv
<1> QED
  BY <1>1, <1>2

\* So it always holds.
THEOREM BytecodeInvariant == Spec => []BytecodeInv
<1>1. Init => BytecodeInv
  BY BytecodeStarts
<1>2. BytecodeInv /\ [Next]_vars => BytecodeInv'
  BY BytecodeSteps
<1> QED
  BY <1>1, <1>2, PTL DEF Spec

\* The values, frames and objects of every program stay well-formed, whatever its
\* bytecode: a run that goes wrong ends, and never goes on with something else.
THEOREM MachineIsTyped == Spec => []VMTypeOK
<1>1. BytecodeInv => VMTypeOK
  BY MachineTypes DEF BytecodeInv
<1> QED
  BY <1>1, BytecodeInvariant, PTL

\* The verifier is sound: the machine's unchecked reads never fail for a program that
\* it accepts (the panics of vm_stack_pop!, vm_pop_val! and read_byte in runtime.rs).
THEOREM VerifierIsSound == Spec => []VerifiedNeverFaults
<1>1. BytecodeInv => VerifiedNeverFaults
  BY DEF BytecodeInv, VerifiedNeverFaults
<1> QED
  BY <1>1, BytecodeInvariant, PTL

(***************************************************************************)
(* The refinement: the shared stack with its bottoms implements one stack  *)
(* per activation.                                                         *)
(***************************************************************************)
\* A step of the activations of a program that the verifier accepts is one of Frames.
LEMMA OwnIsFrames ==
  ASSUME verified, verified', Own!Next
  PROVE  F!Next
<1>1. PICK acts, next : acts = Activations /\ next = Activations'
  OBVIOUS
<1>2. acts = (IF verified THEN Activations ELSE <<>>) /\ next = (IF verified THEN Activations ELSE <<>>)'
  BY <1>1
<1>3. CASE Own!Start
  BY <1>1, <1>2, <1>3 DEF Own!Start, F!Next, F!Start
<1>4. CASE Own!Work
  BY <1>1, <1>2, <1>4 DEF Own!Work, Own!Running, Own!OneGlobalAtMost, Own!Differ,
                          F!Next, F!Work, F!Running, F!OneGlobalAtMost, F!Differ
<1>5. CASE Own!Call
  BY <1>1, <1>2, <1>5 DEF Own!Call, Own!Running, F!Next, F!Call, F!Running
<1>6. CASE Own!Leave
  BY <1>1, <1>2, <1>6 DEF Own!Leave, Own!Running, Own!Front, Own!Last, F!Next, F!Leave, F!Running, F!Front, F!Last
<1> QED
  BY <1>3, <1>4, <1>5, <1>6 DEF Own!Next

\* A run starts with no activation, or with that of the main script.
LEMMA FramesStart == ASSUME Init PROVE F!Init
<1>1. PICK acts : acts = IF verified THEN Activations ELSE <<>>
  OBVIOUS
<1>2. CASE verified
  <2>1. MachineOK /\ Boot(MainId)
    BY BytecodeStarts DEF BytecodeInv, Init
  <2>2. Depth = 1
    BY <2>1 DEF Boot, FirstFrame, Depth
  <2>3. Len(Activations) = 1
    BY <2>1, <2>2, ActsAre DEF ActsOK
  <2> QED
    BY <1>2, <2>3 DEF F!Init
<1>3. CASE ~verified
  BY <1>3 DEF F!Init
<1> QED
  BY <1>2, <1>3

\* Every step is one of theirs, or leaves the activations alone.
LEMMA FramesStep ==
  ASSUME BytecodeInv, BytecodeInv', [Next]_vars
  PROVE  [F!Next]_(IF verified THEN Activations ELSE <<>>)
<1>1. CASE UNCHANGED vars
  <2>1. verified' = verified /\ call_stack' = call_stack /\ stack' = stack
    BY <1>1 DEF vars, vmVars
  <2>2. Activations' = Activations
    BY <2>1 DEF Activations, Slots, Depth
  <2> QED
    BY <2>1, <2>2
<1>2. ASSUME Next, ~verified PROVE UNCHANGED (IF verified THEN Activations ELSE <<>>)
  BY <1>2 DEF Next
<1>3. ASSUME Next, verified PROVE F!Next \/ UNCHANGED (IF verified THEN Activations ELSE <<>>)
  <2>1. Cycle /\ verified' /\ verified' = verified /\ status = "running" /\ MachineOK'
    BY <1>3, CycleRuns DEF Next, BytecodeInv
  <2>2. PICK tables, needs : Accepted(Globals, tables, needs)
    BY <1>3, <2>1 DEF BytecodeInv
  <2>3. Own!Next \/ UNCHANGED Activations
    BY <2>1, <2>2, CycleImplemented
  <2> QED
    BY <1>3, <2>1, <2>3, OwnIsFrames
<1> QED
  BY <1>1, <1>2, <1>3

\* The shared stack of an accepted program implements one stack per activation: its
\* bottoms keep the slots of the waiting activations apart (runtime.rs 256-273, 319-333).
THEOREM FramesRefinement == Spec => FramesImplemented
<1>1. Init => F!Init
  BY FramesStart
<1>2. BytecodeInv /\ BytecodeInv' /\ [Next]_vars => [F!Next]_(IF verified THEN Activations ELSE <<>>)
  BY FramesStep
<1> QED
  BY <1>1, <1>2, BytecodeInvariant, PTL DEF Spec, FramesImplemented, F!Spec
===============================================================================
