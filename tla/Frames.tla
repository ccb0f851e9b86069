------------------------------- MODULE Frames --------------------------------
(***************************************************************************)
(* What the machine promises to the code of a function, without its shared *)
(* stack: every activation has slots of its own, the first of which is the *)
(* function it runs.  A call moves the callee and its arguments out of the *)
(* caller's slots into a new activation; a return hands exactly one value  *)
(* back; and while an activation works, the slots of those below it keep   *)
(* their values, except that the running code may overwrite one slot of    *)
(* the first activation, where the globals live.                           *)
(*                                                                         *)
(* The module says what a step may do to acts; a machine that implements   *)
(* it decides which step is taken.                                         *)
(***************************************************************************)
EXTENDS Integers, Sequences, SequencesExt

VARIABLE acts   \* <<[function, slots], ...>>, the running activation last

Running == Len(acts)

\* Before the main script starts there is no activation, then there is one.
Init == Len(acts) <= 1

Start ==
    /\ acts = <<>>
    /\ Len(acts') = 1

Differ(old, new) == {i \in DOMAIN old : new[i] # old[i]}
OneGlobalAtMost(old, new) ==
    /\ Len(new) = Len(old)
    /\ \A i, j \in Differ(old, new) : i = j

\* An instruction of the running activation.
Work ==
    /\ acts # <<>>
    /\ Len(acts') = Running
    /\ \A i \in 1..Running : acts'[i].function = acts[i].function
    /\ \A i \in 2..(Running - 1) : acts'[i].slots = acts[i].slots
    /\ Running > 1 => OneGlobalAtMost(acts[1].slots, acts'[1].slots)

\* The topmost n + 1 slots, a function and its arguments, become an activation.
Call ==
    /\ acts # <<>>
    /\ \E n \in 0..(Len(acts[Running].slots) - 1) :
          LET slots == acts[Running].slots
              kept == Len(slots) - n - 1
              moved == SubSeq(slots, kept + 1, Len(slots))
          IN acts' = Append([acts EXCEPT ![Running].slots = SubSeq(slots, 1, kept)],
                            [function |-> moved[1].v, slots |-> moved])

\* The running activation ends; its topmost slot goes to its caller.
Leave ==
    /\ Running > 1
    /\ acts[Running].slots # <<>>
    /\ acts' = [Front(acts) EXCEPT ![Running - 1].slots =
                   Append(@, Last(acts[Running].slots))]

Next == Start \/ Work \/ Call \/ Leave

Spec == Init /\ [][Next]_acts
==============================================================================
