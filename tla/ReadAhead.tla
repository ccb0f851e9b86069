------------------------------- MODULE ReadAhead -------------------------------
(***************************************************************************)
(* The parser with a history variable.  One token is always read ahead,    *)
(* and whether a newline before it was passed over was decided when it was *)
(* read, by the setting of ignore_newlines at that moment.  The setting    *)
(* may be another when the token is looked at.                             *)
(***************************************************************************)
EXTENDS Parser

VARIABLE
    ahead   \* what ignore_newlines was when cur was read

readAheadVars == <<vars, ahead>>

\* At the end of the source, where no newline is left, a token may follow itself.
Reads == cur' # cur \/ left' # left

ReadAheadInit == Init /\ ahead = FALSE

ReadAheadNext == Next /\ ahead' = IF Reads THEN ignore_newlines ELSE ahead

\* As in Parser, a parse goes on until it has ended.
ReadAheadSpec ==
    ReadAheadInit /\ [][ReadAheadNext]_readAheadVars /\ WF_readAheadVars(ReadAheadNext)

\* Where a newline matters it has not been passed over: where the parser asks for
\* the end of a statement, for the body behind a condition, or for the next
\* declaration, the token in view was read while newlines counted.  The setting
\* must be back before the last token of an expression, or the bracket that
\* closes it, is consumed (expression() and advance()).  After an error a newline
\* may be lost with the rest of its statement.
NewlinesReadOutside ==
    \A step \in {"stmt_end", "body", "synchronize", "declaration"} :
        Doing(step) /\ ~failed => ~ahead
==============================================================================
