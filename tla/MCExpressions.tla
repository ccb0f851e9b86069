---------------------------- MODULE MCExpressions ----------------------------
(***************************************************************************)
(* Expressions of three operands at most over one variable of every sort:  *)
(* an any that holds an integer, a list, an object whose struct declares a *)
(* field twice, an integer, and a variable without a type, as `true ? 1.0  *)
(* : true` gives it.                                                       *)
(***************************************************************************)
EXTENDS Expressions

MCLiterals ==
    { Number(0), Number(7), Floating(0), Truth(TRUE), Truth(FALSE), Character(100),
      StringOf(<<Character(99), Character(100)>>), NoneValue }

MCVariables ==
    << [name |-> "a", type |-> Of("Any"), value |-> InAny(Number(-1))],
       [name |-> "l", type |-> ListOf(Of("Int")), value |-> ListAt(1)],
       [name |-> "p", type |-> Of("UserType"), value |-> TypedValue("Object", 2, <<>>)],
       [name |-> "i", type |-> Of("Int"), value |-> Number(1)],
       [name |-> "u", type |-> Unchecked, value |-> Floating(1)] >>

MCFirstHeap == << <<Number(1), Number(2)>>, <<Number(3), Floating(2)>> >>

MCStructFields == << [name |-> "x", type |-> Of("Int")], [name |-> "x", type |-> Of("Float")] >>

MCBinaryOps == {"+", "-", "/", "<<", "|", "<", "<=", ">=", "==", "!=", ".."}
MCFields == {"len", "end", "x"}
MCCastTypes == {Of("Int"), Of("Float"), Of("Bool"), Of("Any"), ListOf(Of("Int"))}
==============================================================================
