------------------------------ MODULE Registry -------------------------------
(***************************************************************************)
(* The native functions of standard_library/registry.rs.  They are the     *)
(* first globals of every program: the analysis declares them, the machine *)
(* pushes them, and both count on the same order.  A function without a    *)
(* name can only be called by code that the generator writes itself.       *)
(***************************************************************************)
EXTENDS OpCodes

CONSTANTS
    Natives,   \* GLOBAL_FUNCS: <<[name, takes, gives, builds], ...>>
    NewObj     \* the index of new_obj, which takes any values and builds an object

Unnamed == ""

Native == [name : STRING, takes : Seq(Types), gives : Types, builds : BOOLEAN]

ASSUME RegistryAssumption ==
    /\ Natives \in Seq(Native)
    /\ NewObj \in DOMAIN Natives
    /\ Natives[NewObj].builds
    /\ \A i \in DOMAIN Natives :
          /\ Natives[i].gives \notin {"Function", "NativeFunc"}
          /\ Natives[i].builds <=> Natives[i].gives = "Object"
==============================================================================
