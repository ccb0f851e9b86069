------------------------------ MODULE MCResolver ------------------------------
(***************************************************************************)
(* Values for the constants of Resolver, and the symmetry of names.        *)
(***************************************************************************)
EXTENDS Resolver

CONSTANT print

MCNatives == <<print>>
MCNone == {<<>>}
MCOverloads == {<<"Int">>, <<"Any">>}
MCArguments == {<<"Int">>, <<"Bool">>}
NameSymmetry == Permutations(FuncNames \ {print})
==============================================================================
