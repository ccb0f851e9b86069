--------------------------- MODULE MCCompileAndRun ---------------------------
(***************************************************************************)
(* Values for the constants of CompileAndRun.  Two native functions stand  *)
(* for the twenty of the registry: one that programs call by name and the  *)
(* one behind struct names.                                                *)
(***************************************************************************)
EXTENDS CompileAndRun

MCNatives == << [name |-> "print", takes |-> <<"Any">>, gives |-> "None", builds |-> FALSE],
                [name |-> "", takes |-> <<>>, gives |-> "Object", builds |-> TRUE] >>
MCInputs == {BoolVal(TRUE), BoolVal(FALSE)}
MCFuncNames == <<"f", "g">>
MCParamNames == <<"p", "q">>
\* The fourth literal is coded as the byte of Return.
MCTags == <<1, 2, 3, -123>>
==============================================================================
