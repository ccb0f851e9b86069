------------------------------- MODULE MCLexer --------------------------------
(***************************************************************************)
(* Sources for Lexer: short ones of every character, longer ones of those  *)
(* that belong together.                                                   *)
(***************************************************************************)
EXTENDS Lexer

Upto(n, chars) == UNION {[1..k -> chars] : k \in 0..n}

\* A character that is not ASCII is two bytes.
Bytes(chars) == FlattenSeq([i \in DOMAIN chars |->
                              IF chars[i] = "lead" THEN <<"lead", "tail">> ELSE <<chars[i]>>])

MCSources ==
    {Bytes(s) : s \in Upto(3, Letters \cup Digits \cup Others \cup {"lead"})}
        \cup Upto(7, {"quote", "backslash", "newline", "a"})
        \cup Upto(7, {"/", "*", "backslash", "newline"})
        \cup Upto(6, {"0", "x", "b", "9", "."})
        \cup Upto(6, {"'", "backslash", "a", "newline"})
        \cup Upto(5, {"/", "*", "blank", "quote", "backslash", "newline"})
==============================================================================
