------------------------------- MODULE Program -------------------------------
(***************************************************************************)
(* What the generator hands to the machine: the compiled functions, each   *)
(* with the bytes of its code, its pool of constants, its parameter types  *)
(* and its return type.  In the code a function is reached through a       *)
(* counted pointer among the constants of the one that declares it; here   *)
(* it is named by its index; the main script is the last.                  *)
(***************************************************************************)
EXTENDS Registry

CONSTANT InputType   \* the variant of the values that the tests feed in

VARIABLE program   \* <<[code, constants, params, ret_type, ...], ...>>

MainId == Len(program)
==============================================================================
