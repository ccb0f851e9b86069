------------------------------- MODULE Bytecode -------------------------------
(***************************************************************************)
(* The machine on any bytecode, also what the generator would never write: *)
(* what a program must satisfy for the machine's unchecked reads to be     *)
(* safe, and for the shared stack to give every activation its own.        *)
(***************************************************************************)
EXTENDS VM, Verifier

CONSTANTS
    Programs,   \* bytecode
    Globals     \* the types that the verifier is told of the script's globals

VARIABLE verified   \* the verdict of the verifier, taken once

vars == <<vmVars, verified>>

ASSUME BytecodeAssumption == \A p \in Programs : IsProgram(p)

Init ==
    /\ program \in Programs
    /\ Boot(MainId)
    /\ verified = Verifies(Globals)

Next == Cycle /\ UNCHANGED verified

Spec == Init /\ [][Next]_vars

(***************************************************************************)
(* Properties.                                                             *)
(***************************************************************************)
\* A program that the verifier accepts never reads outside its code, its
\* constants or the stack and never hands an instruction or a native function a
\* value of a wrong variant: the panics of vm_stack_pop!, vm_pop_val! and
\* read_byte (runtime.rs 16-54, 439) need a program that the verifier refuses.
VerifiedNeverFaults == verified => status \notin Faults

\* The stack of every activation of an accepted program is its own: the shared
\* stack with its bottoms implements one stack per activation.
F == INSTANCE Frames WITH acts <- IF verified THEN Activations ELSE <<>>
FramesImplemented == F!Spec
==============================================================================
