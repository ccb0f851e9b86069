------------------------------- MODULE MCParser -------------------------------
(***************************************************************************)
(* Values for the constants of ReadAhead, which are the parser's: one      *)
(* operator of each kind; short sources of every kind of token, and longer *)
(* ones of brackets, blocks, conditionals and newlines.                    *)
(***************************************************************************)
EXTENDS ReadAhead

MCLevels == << [ops |-> {"||"}, boolean |-> TRUE], [ops |-> {"-"}, boolean |-> FALSE] >>

Nesting == {"newline", "{", "}", "(", ")", "[", "]", "?", ":"}
AllTokens ==
    Nesting \cup {";", ",", "-", ".", "=", "||", "func", "new", "struct", "summon", "as", "if", "else", "while",
                 "for", "in", "return", "type", "literal", "bad_literal", "error"}

MCSources == {[tokens |-> AllTokens, length |-> 4], [tokens |-> Nesting, length |-> 7]}
==============================================================================
