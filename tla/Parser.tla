-------------------------------- MODULE Parser --------------------------------
(***************************************************************************)
(* The recursive descent of parsing.rs, with two tokens in view.  todo     *)
(* stands for the call stack: what the method on top and those below it    *)
(* have still to do, in that order.  A method is the sequence of steps it  *)
(* calls; a step is a pair of a name and an argument.  Every step consumes *)
(* at most one token, and the source is chosen as it is consumed.          *)
(*                                                                         *)
(* The syntax tree that is built is left out, but not the tokens that      *)
(* become part of it: take_prev() hands out the token consumed last, and   *)
(* nothing but the order of the calls makes it the right one.              *)
(***************************************************************************)
EXTENDS Integers, Sequences, SequencesExt

CONSTANTS
    Identifiers,   \* names
    Sources,       \* classes of sources: sets of [tokens, length], the kinds of token,
                   \* other than names, that a source may have, and how many of them
    Levels,        \* binary operators by precedence: <<[ops, boolean], ...>>
    UnaryOps       \* unary operators

Operators == {"="} \cup UnaryOps \cup (UNION {Levels[l].ops : l \in DOMAIN Levels})

\* Names, operators, literals and brackets are tokens of different kinds.
ASSUME ParserAssumption ==
    /\ \A s \in Sources :
          /\ s.length \in Nat
          /\ "EOF" \notin s.tokens /\ Identifiers \cap s.tokens = {}
    /\ Levels \in Seq(Range(Levels)) /\ Levels # <<>>
    /\ {"literal", "bad_literal", "func", "(", ")", "[", "]", "{", "}"}
          \cap (Identifiers \cup Operators) = {}

VARIABLES
    todo,
    cur,               \* the token to be consumed next
    prev,              \* the token consumed last, "taken" once it is handed out
    tokens,            \* the kinds of token of the source
    left,              \* how many tokens the source may still have
    ignore_newlines,
    panic_mode,        \* errors are dropped until the next synchronize()
    user_types,        \* names of structs
    failed,            \* whether an error was reported
    status,            \* "parsing", or how it ended
    opens,             \* brackets consumed and not closed, until the first error
    odd                \* roles in which take_prev() gave an unfit token, until then

source == <<cur, prev, left, tokens>>
errors == <<panic_mode, failed>>
vars == <<todo, source, ignore_newlines, errors, user_types, status, opens, odd>>

(***************************************************************************)
(* Tokens.                                                                 *)
(***************************************************************************)
StmtEnds == {"newline", ";", "EOF"}
StmtStarts == {"new", "struct", "summon", "func", "if", "for", "while", "return"}
AtEnd == cur = "EOF"

Is(kind) == IF kind = "identifier" THEN cur \in Identifiers ELSE cur = kind

\* Symbols have no lexeme, and neither has the token that take_prev() makes up.
HasLexeme(token) == token \in Identifiers \cup StmtStarts

\* The tokens that a part of the syntax tree is made for.
Fit(role) ==
    CASE role \in {"name", "property"} -> Identifiers
      [] role \in {"binary", "unary"} -> Operators
      [] role = "keyword" -> {"return"}
      [] role = "type" -> Identifiers \cup {"type"}
      [] role = "literal" -> {"literal", "bad_literal"}

(***************************************************************************)
(* Steps.                                                                  *)
(***************************************************************************)
Do(step) == <<step, "">>
Skip == Do("skip")
Expect(kind) == <<"expect", kind>>
Take(role) == <<"take", role>>
Expression(ignore) == <<"expression", ignore>>
Series(level) == <<"series", level>>

Doing(step) == status = "parsing" /\ todo # <<>> /\ Head(todo)[1] = step
Arg == Head(todo)[2]
Then(steps) == todo' = steps \o Tail(todo)

\* What the properties know of the source ends with the first error.
Record(error, opened, unfit) ==
    /\ failed' = (failed \/ error)
    /\ opens' = IF failed' THEN <<>> ELSE opened
    /\ odd' = IF failed' THEN {} ELSE unfit

Report(error) == panic_mode' = (panic_mode \/ error)

\* The brackets before the token to be consumed and that one: the brace of a
\* struct is told apart from that of a block, and one that closes nothing stays.
Opened ==
    IF cur = "{" /\ Len(todo) > 1 /\ todo[2] = Do("fields") THEN "struct" ELSE cur
Pairs == {<<"(", ")">>, <<"[", "]">>, <<"{", "}">>, <<"struct", "}">>}
Brackets ==
    IF cur \in {"(", "[", "{"} THEN Append(opens, Opened)
    ELSE IF cur \notin {")", "]", "}"} THEN opens
    ELSE IF opens # <<>> /\ <<Last(opens), cur>> \in Pairs THEN Front(opens)
    ELSE Append(opens, cur)

\* Following for a lexer that does not stop at the end.
FollowingPastEnd == (tokens \cup Identifiers) \ {"error"}

\* Tokens that may come next: any, but newlines where they are ignored.
Following ==
    IF left = 0 THEN {"EOF"}
    ELSE ((tokens \cup Identifiers \cup {"EOF"}) \ {"error"})
           \ (IF ignore_newlines THEN {"newline"} ELSE {})

\* advance(): tokens that the lexer could not make out are reported and passed
\* over.  error says whether the caller reports an error as well.
Advance(error) ==
    \E unreadable \in {FALSE} \cup {"error" \in tokens /\ ~AtEnd} :
        /\ prev' = cur
        /\ cur' \in Following
        /\ left' = IF cur' = "EOF" THEN 0 ELSE left - 1
        /\ UNCHANGED tokens
        /\ Report(error \/ unreadable)
        /\ Record(error \/ unreadable, Brackets, odd)

Quietly == UNCHANGED <<ignore_newlines, user_types, status>>
Consume(steps) == Advance(FALSE) /\ Then(steps) /\ Quietly
Go(steps) == Then(steps) /\ Quietly /\ UNCHANGED <<source, errors, opens, odd>>
Fail(steps) ==
    /\ Report(TRUE) /\ Record(TRUE, opens, odd)
    /\ Then(steps) /\ Quietly /\ UNCHANGED source

\* try_consume, and one of two ways to go on.
Try(kind, found, otherwise) == IF Is(kind) THEN Consume(found) ELSE Go(otherwise)

SkipNewlines == Doing("skip") /\ Try("newline", <<Skip>>, <<>>)

ExpectBecause ==
    /\ Doing("expect")
    /\ IF cur = "newline" THEN Consume(<<Expect(Arg)>>)
       ELSE IF Is(Arg) THEN Consume(<<>>)
       ELSE Fail(<<>>)

TakePrev ==
    /\ Doing("take")
    /\ prev' = "taken"
    /\ Record(FALSE, opens, IF prev \in Fit(Arg) THEN odd ELSE odd \cup {Arg})
    /\ Then(<<>>) /\ Quietly /\ UNCHANGED <<cur, left, tokens, panic_mode>>

ErrorAt == Doing("error") /\ Fail(<<>>)

ExpectBinding == <<Expect("identifier"), Take("name")>>
ExpectType == <<Skip, Do("need_type")>>

(***************************************************************************)
(* Declarations.                                                           *)
(***************************************************************************)
Parse ==
    /\ Doing("program")
    /\ IF AtEnd
       THEN /\ status' = IF failed THEN "refused" ELSE "accepted"
            /\ todo' = <<>>
            /\ UNCHANGED <<source, errors, ignore_newlines, user_types, opens, odd>>
       ELSE Go(<<Do("declaration"), Skip, Do("program")>>)

FirstAdvance == Doing("advance") /\ Consume(<<>>)

FunctionDef ==
    ExpectBinding \o <<Expect("("), Do("params"), Do("ret_type"), Expect("{"), Do("block")>>
VarDef == <<Do("try_type")>> \o ExpectBinding \o <<Do("initializer")>>
Import == <<Expect("identifier"), Take("name"), Do("path"), Do("alias")>>
StructDef == <<Expect("identifier"), Do("struct_name")>>

Declaration == Doing("declaration") /\ Go(<<Skip, Do("declare"), Do("synchronize")>>)
Declare ==
    /\ Doing("declare")
    /\ CASE cur = "func" -> Consume(FunctionDef)
         [] cur = "new" -> Consume(VarDef)
         [] cur = "summon" -> Consume(Import)
         [] cur = "struct" -> Consume(StructDef)
         [] OTHER -> Go(<<Do("statement")>>)

Param == ExpectType \o ExpectBinding \o <<Do("more_params")>>
Params == Doing("params") /\ Go(IF Is(")") THEN <<Expect(")")>> ELSE Param)
MoreParams == Doing("more_params") /\ Try(",", Param, <<Expect(")")>>)
RetType == Doing("ret_type") /\ Try(":", ExpectType, <<>>)
Initializer == Doing("initializer") /\ Try("=", <<Expression(FALSE)>>, <<>>)
Path == Doing("path") /\ Try(".", <<Expect("identifier"), Take("name"), Do("path")>>, <<>>)
Alias == Doing("alias") /\ Try("as", ExpectBinding, <<>>)

\* The name is kept while the fields are parsed.
StructName ==
    /\ Doing("struct_name")
    /\ prev' = "taken"
    /\ Then(<<Expect("{"), Do("fields"), <<"user_type", prev>>>>)
    /\ Quietly /\ UNCHANGED <<cur, left, tokens, errors, opens, odd>>
Fields == Doing("fields") /\ Try("}", <<>>, <<Do("field")>>)
Field ==
    /\ Doing("field")
    /\ Go(IF AtEnd THEN <<>>
          ELSE ExpectType \o ExpectBinding \o <<Skip, Do("fields")>>)
\* Only an identifier is ever looked up; a token without a lexeme panics.
UserType ==
    /\ Doing("user_type")
    /\ user_types' = user_types \cup ({Arg} \cap Identifiers)
    /\ status' = IF HasLexeme(Arg) THEN status ELSE "panicked"
    /\ Then(<<>>)
    /\ UNCHANGED <<source, errors, ignore_newlines, opens, odd>>

(***************************************************************************)
(* Types.                                                                  *)
(***************************************************************************)
StartsType == cur \in {"type", "func"} \cup user_types
ConsumeType ==
    IF cur = "func"
    THEN Consume(<<Expect("("), Do("type_params"), Do("ret_type")>>)
    ELSE Consume(<<Take("type"), Do("list_type")>>)

TryConsumeType == Doing("try_type") /\ IF StartsType THEN ConsumeType ELSE Go(<<>>)
NeedType == Doing("need_type") /\ IF StartsType THEN ConsumeType ELSE Fail(<<>>)
ListType == Doing("list_type") /\ Try("[", <<Expect("]"), Do("list_type")>>, <<>>)
TypeParams ==
    /\ Doing("type_params")
    /\ Go(IF Is(")") THEN <<Expect(")")>> ELSE ExpectType \o <<Do("more_types")>>)
MoreTypes ==
    Doing("more_types") /\ Try(",", ExpectType \o <<Do("more_types")>>, <<Expect(")")>>)

(***************************************************************************)
(* Statements.                                                             *)
(***************************************************************************)
IfStmt == <<Expression(FALSE), Do("body"), Skip, Do("else")>>
WhileLoop == <<Expression(FALSE), Do("body")>>
ForLoop == ExpectBinding \o <<Expect("in"), Expression(FALSE), Do("body")>>
KeywordStmt == <<Take("keyword"), Do("argument"), Do("stmt_end")>>
ExpressionStmt == <<Expression(FALSE), Do("stmt_end")>>

Statement == Doing("statement") /\ Go(<<Skip, Do("statement_kind")>>)
StatementKind ==
    /\ Doing("statement_kind")
    /\ CASE cur = "{" -> Consume(<<Do("block")>>)
         [] cur = "if" -> Consume(IfStmt)
         [] cur = "while" -> Consume(WhileLoop)
         [] cur = "for" -> Consume(ForLoop)
         [] cur = "return" -> Consume(KeywordStmt)
         [] OTHER -> Go(ExpressionStmt)

\* Block that takes the end of the source for the brace.
BlockToTheEnd ==
    /\ Doing("block")
    /\ IF AtEnd \/ Is("}") THEN Try("}", <<>>, <<>>)
       ELSE Go(<<Do("declaration"), Skip, Do("block")>>)

Block ==
    /\ Doing("block")
    /\ Go(IF AtEnd \/ Is("}") THEN <<Expect("}")>>
          ELSE <<Do("declaration"), Skip, Do("block")>>)
Body ==
    /\ Doing("body")
    /\ CASE cur \in {"newline", ":"} -> Consume(<<Do("statement")>>)
         [] cur = "{" -> Consume(<<Do("block")>>)
         [] OTHER -> Fail(<<>>)
Else == Doing("else") /\ Try("else", <<Do("statement")>>, <<>>)
Argument == Doing("argument") /\ Go(IF cur \in StmtEnds THEN <<>> ELSE <<Expression(FALSE)>>)
StmtEnd == Doing("stmt_end") /\ IF cur \in StmtEnds THEN Consume(<<>>) ELSE Fail(<<>>)

\* Back to the start of a statement; behind a semicolon one token is passed over.
Synchronize ==
    /\ Doing("synchronize")
    /\ panic_mode' = FALSE
    /\ Then(IF panic_mode THEN <<Do("resume")>> ELSE <<>>)
    /\ Quietly /\ UNCHANGED <<source, failed, opens, odd>>

\* Resume that leaves the token where parsing stopped.
ResumeInPlace == Doing("resume") /\ IF prev = ";" THEN Consume(<<>>) ELSE Go(<<>>)

Resume ==
    /\ Doing("resume")
    /\ IF AtEnd THEN Go(<<>>)
       ELSE IF prev = ";" THEN Consume(<<>>)
       ELSE IF cur \in StmtStarts THEN Go(<<>>)
       ELSE Consume(<<Do("resume")>>)

(***************************************************************************)
(* Expressions.                                                            *)
(***************************************************************************)
\* In brackets newlines are passed over, from the second token on.
StartExpression ==
    /\ Doing("expression")
    /\ Go(<<Skip, <<"assign", Arg>>>>)

Assign ==
    /\ Doing("assign")
    /\ ignore_newlines' = Arg
    /\ Then(<<Do("ternary"), Do("assignment"), <<"restore", ignore_newlines>>>>)
    /\ UNCHANGED <<source, errors, user_types, status, opens, odd>>
Restore ==
    /\ Doing("restore")
    /\ ignore_newlines' = Arg
    /\ Then(<<>>)
    /\ UNCHANGED <<source, errors, user_types, status, opens, odd>>

Assignment ==
    Doing("assignment") /\ Try("=", <<Take("binary"), Expression(FALSE)>>, <<>>)
Ternary == Doing("ternary") /\ Go(<<Series(1), Do("conditional")>>)

\* Conditional that passes over newlines in its last part, too.
ConditionalIgnoring ==
    Doing("conditional") /\ Try("?", <<Expression(TRUE), Expect(":"), Expression(TRUE)>>, <<>>)

Conditional ==
    Doing("conditional") /\ Try("?", <<Expression(TRUE), Expect(":"), Expression(FALSE)>>, <<>>)

Operand(level) == IF level = Len(Levels) THEN Do("cast") ELSE Series(level + 1)

\* An operator without a left operand is consumed; after that a series of
\* booleans is parsed as one of other operators, which loops.
MissingLeft(level) == cur \in Levels[level].ops \ UnaryOps
StartSeries ==
    /\ Doing("series")
    /\ IF MissingLeft(Arg)
       THEN Advance(TRUE) /\ Then(<< <<"loop_series", Arg>> >>) /\ Quietly
       ELSE Go(<<Operand(Arg), <<IF Levels[Arg].boolean THEN "boolean" ELSE "loop", Arg>> >>)
LoopSeries ==
    /\ Doing("loop_series")
    /\ IF MissingLeft(Arg)
       THEN Advance(TRUE) /\ Then(<< <<"loop_series", Arg>> >>) /\ Quietly
       ELSE Go(<<Operand(Arg), <<"loop", Arg>> >>)
\* More that skips newlines before it takes the operator.
MoreSkippingFirst ==
    /\ Doing("loop")
    /\ IF cur \in Levels[Arg].ops
       THEN Consume(<<Skip, Take("binary"), Operand(Arg), <<"loop", Arg>> >>)
       ELSE Go(<<>>)

More ==
    /\ Doing("loop")
    /\ IF cur \in Levels[Arg].ops
       THEN Consume(<<Take("binary"), Skip, Operand(Arg), <<"loop", Arg>> >>)
       ELSE Go(<<>>)
MoreBoolean ==
    /\ Doing("boolean")
    /\ IF cur \in Levels[Arg].ops
       THEN Consume(<<Take("binary"), Skip, Series(Arg)>>)
       ELSE Go(<<>>)

Cast == Doing("cast") /\ Go(<<Do("unary"), Do("as")>>)
AsType == Doing("as") /\ Try("as", ExpectType, <<>>)

\* The newlines are skipped before the operator is taken.
Unary ==
    /\ Doing("unary")
    /\ IF cur \in UnaryOps THEN Consume(<<Skip, Take("unary"), Do("unary")>>)
       ELSE Go(<<Do("primary"), Do("suffix")>>)

Suffix ==
    /\ Doing("suffix")
    /\ CASE cur = "(" -> Consume(<< <<"expr_list", ")">>, Do("suffix")>>)
         [] cur = "." -> Consume(<<Expect("identifier"), Take("property"), Do("suffix")>>)
         [] cur = "[" -> Consume(<<Expression(TRUE), Expect("]"), Do("suffix")>>)
         [] OTHER -> Go(<<>>)
ExprList ==
    /\ Doing("expr_list")
    /\ Go(IF Is(Arg) THEN <<Expect(Arg)>> ELSE <<Expression(TRUE), <<"more_exprs", Arg>> >>)
MoreExprs ==
    /\ Doing("more_exprs")
    /\ Try(",", <<Expression(TRUE), <<"more_exprs", Arg>> >>, <<Expect(Arg)>>)

\* The value of a literal may be out of range.  Functions without a name are a
\* todo!().
Primary ==
    /\ Doing("primary")
    /\ CASE cur = "literal" -> Consume(<<Take("literal")>>)
         [] cur = "bad_literal" -> Consume(<<Take("literal"), Do("error")>>)
         [] cur = "(" -> Consume(<<Expression(TRUE), Expect(")")>>)
         [] cur = "[" -> Consume(<< <<"expr_list", "]">> >>)
         [] cur \in Identifiers -> Consume(<<Take("name")>>)
         [] cur = "func" -> Consume(<<Do("todo")>>)
         [] OTHER -> Fail(<<>>)
Todo ==
    /\ Doing("todo")
    /\ status' = "todo"
    /\ Then(<<>>)
    /\ UNCHANGED <<source, errors, ignore_newlines, user_types, opens, odd>>

(***************************************************************************)
(* The parser.                                                             *)
(***************************************************************************)
Init ==
    /\ todo = <<Do("advance"), Do("program")>>
    /\ cur = "taken" /\ prev = "taken"
    /\ \E s \in Sources : tokens = s.tokens /\ left = s.length
    /\ ignore_newlines = FALSE /\ panic_mode = FALSE /\ user_types = {}
    /\ failed = FALSE /\ status = "parsing"
    /\ opens = <<>> /\ odd = {}

DeclarationStep ==
    \/ Parse \/ FirstAdvance \/ Declaration \/ Declare \/ Params \/ MoreParams \/ RetType
    \/ Initializer \/ Path \/ Alias \/ StructName \/ Fields \/ Field \/ UserType
    \/ TryConsumeType \/ NeedType \/ ListType \/ TypeParams \/ MoreTypes
StatementStep ==
    \/ Statement \/ StatementKind \/ Block \/ Body \/ Else \/ Argument \/ StmtEnd
    \/ Synchronize \/ Resume
ExpressionStep ==
    \/ StartExpression \/ Assign \/ Restore \/ Assignment \/ Ternary \/ Conditional
    \/ StartSeries \/ LoopSeries \/ More \/ MoreBoolean \/ Cast \/ AsType \/ Unary
    \/ Suffix \/ ExprList \/ MoreExprs \/ Primary \/ Todo
HelperStep == SkipNewlines \/ ExpectBecause \/ TakePrev \/ ErrorAt

Next == DeclarationStep \/ StatementStep \/ ExpressionStep \/ HelperStep

\* parse() calls its methods until it returns.
Spec == Init /\ [][Next]_vars /\ WF_vars(Next)

(***************************************************************************)
(* Properties.                                                             *)
(***************************************************************************)
Kinds == tokens \cup Identifiers \cup {"EOF", "taken"}

\* The variables have their types: the parser never asks for a token beyond the
\* end of the source, and its types are names of structs.
ParserTypeOK ==
    /\ cur \in Kinds /\ prev \in Kinds
    /\ \E s \in Sources : tokens = s.tokens /\ left \in 0..s.length
    /\ ignore_newlines \in BOOLEAN /\ panic_mode \in BOOLEAN /\ failed \in BOOLEAN
    /\ user_types \subseteq Identifiers
    /\ status \in {"parsing", "accepted", "refused", "panicked", "todo"}

\* Where a declaration begins newlines end statements again, however many
\* brackets were opened, and left open, before it (expression() and its flag).
NewlinesCount == todo # <<>> /\ Head(todo)[1] = "declaration" => ~ignore_newlines

\* Before the first error, what take_prev() hands to the tree is what was meant
\* to be: a name is a name and an operator an operator; but for a unary operator
\* that a newline follows.
TakesWhatFits == odd \subseteq {"unary"}

\* A source without errors closes the brackets that it opens, in their order,
\* unless it ends among the fields of a struct (struct_def() asks for no brace
\* at the end of the source).
AcceptedIsBalanced == status = "accepted" => opens \in {<<>>, <<"struct">>}

\* Every source is parsed to an end, with or without errors (synchronize()),
\* except that the loop over the fields of a struct (struct_def()), which does
\* not consume what is not a field, may go on for ever.
ParseEnds == <>(status # "parsing") \/ []<>Doing("field")
==============================================================================
