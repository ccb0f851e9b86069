-------------------------------- MODULE Lexer ---------------------------------
(***************************************************************************)
(* The lexer of lexing.rs: a cursor over the bytes of a source.  A loop    *)
(* that passes over one class of characters is the place where it ends;    *)
(* the loops of skip_ignored() and of strings are one step an iteration.   *)
(*                                                                         *)
(* A byte is a character of a few that stand for their class, or half of   *)
(* one that is not ASCII: "lead" and then "tail".  cur and start are the   *)
(* code's, so they count from 0.                                           *)
(***************************************************************************)
EXTENDS Integers, Sequences, SequencesExt, FiniteSets

CONSTANT Sources

Letters == {"a", "b", "x"}
Digits == {"0", "9"}
Others == {"blank", "newline", "/", "*", "'", "quote", "backslash", ".", "<", "=", "(", "#"}

ASSUME LexerAssumption ==
    \A s \in Sources :
        /\ s \in Seq(Letters \cup Digits \cup Others \cup {"lead", "tail"})
        /\ \A i \in DOMAIN s : (s[i] = "lead") <=> (i < Len(s) /\ s[i + 1] = "tail")
        /\ s # <<>> => Head(s) # "tail" /\ Last(s) # "lead"

VARIABLES
    source,
    cur,       \* the byte to be consumed next
    start,     \* the first byte of the token
    line,
    mode,      \* where scan_token() is
    caller,    \* who called skip_ignored(): "token" or "backslash"
    tokens     \* what was scanned so far

vars == <<source, cur, start, line, mode, caller, tokens>>

(***************************************************************************)
(* Looking ahead.                                                          *)
(***************************************************************************)
AtEnd == cur >= Len(source)
CharAt(i) == IF i >= Len(source) THEN "end" ELSE source[i + 1]
Peek == CharAt(cur)
PeekAhead(offset) == CharAt(cur + offset)

\* peek_substring, with the cursor at i, is those characters.
Substring(i, chars) ==
    i + Len(chars) <= Len(source) /\ \A k \in DOMAIN chars : source[i + k] = chars[k]

\* Where a loop that advances until the condition holds leaves the cursor.
Until(i, P(_)) ==
    CHOOSE j \in i..(i + Len(source)) :
        /\ j >= Len(source) \/ P(j)
        /\ \A k \in i..(j - 1) : k < Len(source) /\ ~P(k)

IsDigit(base, c) ==
    c \in CASE base = 2 -> {"0"} [] base = 10 -> Digits [] base = 16 -> Digits \cup {"a", "b"}
PastDigits(base, i) == Until(i, LAMBDA j : ~IsDigit(base, CharAt(j)))

(***************************************************************************)
(* Tokens.                                                                 *)
(***************************************************************************)
IntLiterals == {"DecInt", "HexInt", "BinInt"}
Literals == IntLiterals \cup {"Float", "Char", "String"}
Spelled == Literals \cup {"Identifier", "Error"}

\* A slice out of range, or whose ends have changed places, is a panic; one
\* that cuts a character in two is an error.
InRange(from, to) == from <= to /\ to <= Len(source)
ValidUtf8(text) == text # <<>> => Head(text) # "tail" /\ Last(text) # "lead"

\* make_token: symbols have no lexeme, and neither has one that is not UTF-8.
Token(kind, from, to, error) ==
    LET text == SubSeq(source, from + 1, to)
        cut == kind \in Spelled /\ ~ValidUtf8(text)
    IN [kind |-> IF cut THEN "Error" ELSE kind,
        lexeme |-> IF kind \in Spelled /\ ~cut THEN text ELSE <<>>,
        error |-> IF error # "none" THEN error ELSE IF cut THEN "Utf8Error" ELSE "none",
        line |-> line, at |-> start, end |-> 0]

\* The token whose lexeme is from..to; the cursor goes to next.
EmitSlice(kind, from, to, next, error) ==
    IF kind \in Spelled /\ ~InRange(from, to)
    THEN mode' = "panicked" /\ UNCHANGED <<cur, tokens>>
    ELSE /\ tokens' = Append(tokens, [Token(kind, from, to, error) EXCEPT !.end = next])
         /\ cur' = next
         /\ mode' = "skip"

Emit(kind, next) == EmitSlice(kind, start, next, next, "none")
\* EmitError by make_token, which knows no reason.
EmitErrorUnexplained(next, error) == EmitSlice("Error", start, next, next, "none")
EmitError(next, error) == EmitSlice("Error", start, next, next, error)

(***************************************************************************)
(* skip_ignored()                                                          *)
(***************************************************************************)
Skipping == mode = "skip" /\ UNCHANGED <<source, start, line, caller, tokens>>
SkipTo(next) == cur' = next /\ UNCHANGED mode

SkipBlank == Skipping /\ Peek = "blank" /\ SkipTo(cur + 1)

SkipLineComment ==
    /\ Skipping /\ Substring(cur, <<"/", "/">>)
    /\ SkipTo(Until(cur, LAMBDA j : CharAt(j) = "newline"))

\* EndOfBlockComment of a lexer that looks at one character only.
EndOfBlockCommentShort(i) == Until(i, LAMBDA j : Substring(j, <<"*">>)) + 2
\* A comment without an end takes the cursor past the end of the source.
EndOfBlockComment(i) == Until(i, LAMBDA j : Substring(j, <<"*", "/">>)) + 2
SkipBlockComment ==
    /\ Skipping /\ Substring(cur, <<"/", "*">>)
    /\ SkipTo(EndOfBlockComment(cur))

\* Ignored of a loop that does not return at a slash.
IgnoredSlash == Peek \in {"blank", "/"}
\* A slash alone is not ignored.
Ignored == Peek = "blank" \/ (Peek = "/" /\ PeekAhead(1) \in {"/", "*"})
SkipReturns ==
    /\ mode = "skip" /\ ~Ignored
    /\ mode' = caller
    /\ caller' = "token"
    /\ start' = IF caller = "token" THEN cur ELSE start
    /\ UNCHANGED <<source, cur, line, tokens>>

(***************************************************************************)
(* scan_token(), from where it advances past the first character.          *)
(***************************************************************************)
Scanning == mode = "token" /\ UNCHANGED <<source, start>>
InLine == UNCHANGED <<line, caller>>

EndOfSource ==
    /\ Scanning /\ InLine /\ AtEnd
    /\ mode' = "done"
    /\ UNCHANGED <<cur, tokens>>

\* The keywords are not told apart from other names.
Identifier ==
    /\ Scanning /\ InLine /\ Peek \in Letters
    /\ Emit("Identifier", Until(cur, LAMBDA j : CharAt(j) \notin Letters \cup Digits))

\* The base, and where the digits begin.
Base == IF Peek = "0" /\ PeekAhead(1) = "x" THEN 16
        ELSE IF Peek = "0" /\ PeekAhead(1) = "b" THEN 2 ELSE 10
Prefix == IF Base = 10 THEN 1 ELSE 2

\* IsFraction without a look behind the dot.
IsFractionDot(i) == CharAt(i) = "."
\* 10.method() is not a fraction.
IsFraction(i) == CharAt(i) = "." /\ CharAt(i + 1) \in Digits
Number ==
    /\ Scanning /\ InLine /\ Peek \in Digits
    /\ LET whole == PastDigits(Base, cur + Prefix)
       IN IF IsFraction(whole) THEN Emit("Float", PastDigits(16, whole + 1))
          ELSE Emit(CASE Base = 10 -> "DecInt" [] Base = 16 -> "HexInt" [] Base = 2 -> "BinInt",
                    whole)

\* The second characters that make one symbol with the first.
Pairs == [c \in {".", "<", "="} |-> IF c = "<" THEN {"=", "<"} ELSE {c}]
Symbol ==
    /\ Scanning /\ InLine /\ Peek \in {"(", "/", "*"} \cup DOMAIN Pairs
    /\ Emit("Symbol", IF Peek \in DOMAIN Pairs /\ PeekAhead(1) \in Pairs[Peek]
                      THEN cur + 2 ELSE cur + 1)

Newline ==
    /\ Scanning /\ UNCHANGED caller /\ Peek = "newline"
    /\ Emit("Newline", cur + 1)
    /\ line' = line + 1

Unexpected ==
    /\ Scanning /\ InLine /\ Peek \in {"#", "lead", "tail"}
    /\ EmitError(cur + 1, "UnexpectedChar")

\* A character of any kind, also a newline or a quote, or a backslash and one.
CharLiteral ==
    /\ Scanning /\ InLine /\ Peek = "'"
    /\ IF PeekAhead(2) = "'" THEN Emit("Char", cur + 3)
       ELSE IF PeekAhead(1) # "backslash" THEN EmitError(cur + 2, "UnterminatedChar")
       ELSE IF PeekAhead(3) = "'" THEN Emit("Char", cur + 4)
       ELSE EmitError(cur + 3, "UnterminatedChar")

(***************************************************************************)
(* Strings.                                                                *)
(***************************************************************************)
OpenString ==
    /\ Scanning /\ InLine /\ Peek = "quote"
    /\ cur' = cur + 1
    /\ mode' = IF Substring(cur + 1, <<"quote", "quote">>) THEN "triple" ELSE "string"
    /\ UNCHANGED tokens

InString(kind) == mode = kind /\ UNCHANGED <<source, caller>>

\* The character behind a backslash is skipped, whatever it is.
StringChar ==
    /\ InString("string") /\ ~AtEnd /\ Peek \notin {"quote", "newline"}
    /\ cur' = IF Peek = "backslash" THEN cur + 2 ELSE cur + 1
    /\ UNCHANGED <<start, line, mode, tokens>>

\* A newline that ends a string is not consumed.
CloseString ==
    /\ InString("string") /\ Peek \in {"quote", "newline", "end"}
    /\ IF Peek = "quote" THEN Emit("String", cur + 1) ELSE EmitError(cur, "UnterminatedString")
    /\ UNCHANGED <<start, line>>

ThreeQuotes == <<"quote", "quote", "quote">>
\* CountLine of a string that does not look at newlines.
CountNoLine == line
CountLine == IF Peek = "newline" THEN line + 1 ELSE line
TripleChar ==
    /\ InString("triple") /\ ~AtEnd /\ ~Substring(cur, ThreeQuotes)
    /\ line' = CountLine
    /\ cur' = IF PeekAhead(1) = "backslash" THEN cur + 2 ELSE cur + 1
    /\ UNCHANGED <<start, mode, tokens>>

\* EndOfOpenTriple of a lexer that looks for quotes at the end of the source.
EndOfOpenTripleQuotes == cur + 2
EndOfOpenTriple == cur

\* Two quotes at each end are trimmed, so that the lexeme is that of a string
\* on one line.
CloseTriple ==
    /\ InString("triple") /\ UNCHANGED line
    /\ \/ /\ Substring(cur, ThreeQuotes)
          /\ start' = start + 2
          /\ EmitSlice("String", start + 2, cur + 1, cur + 3, "none")
       \/ /\ AtEnd
          /\ EmitError(EndOfOpenTriple, "UnterminatedString")
          /\ UNCHANGED start

(***************************************************************************)
(* A backslash joins the next line to this one.                            *)
(***************************************************************************)
Backslash ==
    /\ Scanning /\ UNCHANGED <<line, tokens>> /\ Peek = "backslash"
    /\ cur' = cur + 1
    /\ mode' = "skip"
    /\ caller' = "backslash"

Joining == mode = "backslash" /\ UNCHANGED <<source, start, caller>>

\* What follows the newline is scanned in its place.
JoinLines ==
    /\ Joining /\ Peek = "newline"
    /\ cur' = cur + 1
    /\ line' = line + 1
    /\ mode' = "skip"
    /\ UNCHANGED tokens

\* The rest of the line, and the newline, are passed over.
StrayBackslash ==
    /\ Joining /\ Peek # "newline"
    /\ LET rest == Until(cur, LAMBDA j : CharAt(j) = "newline")
       IN EmitSlice("Error", start, cur, IF rest < Len(source) THEN rest + 1 ELSE rest, "UnexpectedChar")
    /\ UNCHANGED line

(***************************************************************************)
(* The specification: to_vec() scans until the end.                        *)
(***************************************************************************)
Init ==
    /\ source \in Sources
    /\ cur = 0 /\ start = 0 /\ line = 1
    /\ mode = "skip" /\ caller = "token"
    /\ tokens = <<>>

Next ==
    \/ SkipBlank \/ SkipLineComment \/ SkipBlockComment \/ SkipReturns
    \/ EndOfSource \/ Identifier \/ Number \/ Symbol \/ Newline \/ Unexpected \/ CharLiteral
    \/ OpenString \/ StringChar \/ CloseString \/ TripleChar \/ CloseTriple
    \/ Backslash \/ JoinLines \/ StrayBackslash

Spec == Init /\ [][Next]_vars /\ WF_vars(Next)

(***************************************************************************)
(* The types.                                                              *)
(***************************************************************************)
\* The variables have their types: the cursor never goes further than two bytes
\* past the source (advance_cursor() does not look), a token is at least one
\* byte, and it is an error exactly if it says why (error_token()).
LexTypeOK ==
    /\ cur \in 0..(Len(source) + 2) /\ start \in 0..(Len(source) + 2) /\ line \in 1..(Len(source) + 1)
    /\ mode \in {"skip", "token", "backslash", "string", "triple", "done", "panicked"}
    /\ caller \in {"token", "backslash"}
    /\ \A k \in DOMAIN tokens :
          /\ tokens[k].kind \in Spelled \cup {"Symbol", "Newline"}
          /\ (tokens[k].error # "none") <=> (tokens[k].kind = "Error")
          /\ tokens[k].at < tokens[k].end

(***************************************************************************)
(* What the tokens say of the source.                                      *)
(***************************************************************************)
\* A blank, or a comment that is closed, as a definition on its own.
IsIgnored(i, j) ==
    \/ CharAt(i) = "blank" /\ j = i + 1
    \/ /\ Substring(i, <<"/", "/">>) /\ CharAt(j) \in {"newline", "end"}
       /\ \A k \in i..(j - 1) : CharAt(k) # "newline"
    \/ /\ Substring(i, <<"/", "*">>) /\ j > i + 2 /\ Substring(j - 2, <<"*", "/">>)
       /\ \A k \in (i + 1)..(j - 3) : ~Substring(k, <<"*", "/">>)

\* Blanks, comments, and newlines each of which has a backslash before it: what
\* a piece of these reaches, with how many backslashes that wait for a newline.
IsGap(from, to, waiting) ==
    LET gap[j \in from..to] ==
            {w \in {0, 1} :
                \/ j = from /\ w = 0
                \/ \E i \in from..(j - 1) : IsIgnored(i, j) /\ w \in gap[i]
                \/ j > from /\ w = 1 /\ CharAt(j - 1) = "backslash" /\ 0 \in gap[j - 1]
                \/ j > from /\ w = 0 /\ CharAt(j - 1) = "newline" /\ 1 \in gap[j - 1]}
    IN waiting \in gap[to]

\* Tokens do not overlap, and nothing but blanks, comments and joined lines
\* lies between two of them: skip_ignored() and the cursor that each method
\* leaves behind lose no character and read none twice.
NothingSkipped ==
    tokens # <<>> =>
        LET from == IF Len(tokens) = 1 THEN 0 ELSE tokens[Len(tokens) - 1].end
        IN from <= Last(tokens).at /\ IsGap(from, Last(tokens).at, 0)

\* How many quotes stand at a place.
Quotes(i) == Until(i, LAMBDA j : CharAt(j) # "quote") - i

\* Whether the character at k of a lexeme is behind an odd number of backslashes.
IsEscaped(text, k) ==
    \E i \in 1..(k - 1) :
        /\ \A j \in i..(k - 1) : text[j] = "backslash"
        /\ i = 1 \/ text[i - 1] # "backslash"
        /\ (k - i) % 2 = 1

\* What the parser takes for granted when it slices and indexes the lexeme of a
\* literal without a test: a number has its digits or its prefix, a string both
\* of its quotes and none between them, a character as many characters as it is
\* read for.  Four quotes and more are the exception: they are a string whose
\* end overlaps its start.
Fits(kind, text, at) ==
    LET size == Len(text)
        quotes == {k \in DOMAIN text : text[k] = "quote" /\ ~IsEscaped(text, k)}
    IN /\ kind = "DecInt" => size > 0 /\ \A k \in 1..size : text[k] \in Digits
       /\ kind \in {"HexInt", "BinInt"} => size >= 2 /\ text[2] \in {"x", "b"}
       /\ kind = "Float" =>
             Cardinality({k \in 2..(size - 1) : text[k] = "." /\ text[k + 1] \in Digits}) = 1
       /\ kind = "Char" => size >= 3 /\ Last(text) = "'"
       /\ kind = "String" =>
             \/ Quotes(at) = 2 /\ size = 2
             \/ Quotes(at) = 1 /\ size > 2 /\ quotes = {1, size}
             \/ Quotes(at) = 3 /\ size > 2 /\ text[1] = "quote" /\ text[size] = "quote"
             \/ Quotes(at) > 3 /\ size = 0

\* Every token has the lexeme that its kind promises to the parser.
LexemesFit ==
    tokens # <<>> => Fits(Last(tokens).kind, Last(tokens).lexeme, Last(tokens).at)

\* Newlines that do not count: those of characters and of strings on one
\* line, the one that ends a line with a stray backslash, and those in
\* comments.
Hidden(p) ==
    LET inside == {k \in DOMAIN tokens : tokens[k].at <= p /\ p < tokens[k].end}
        from == CHOOSE i \in {0} \cup {tokens[k].end : k \in DOMAIN tokens} :
                    i <= p /\ \A k \in DOMAIN tokens : tokens[k].end <= p => tokens[k].end <= i
        triple(k) == tokens[k].kind \in {"String", "Error"} /\ Quotes(tokens[k].at) >= 3
    IN IF inside # {}
       THEN \A k \in inside : tokens[k].kind # "Newline" /\ ~triple(k)
       ELSE \E i \in from..(p - 1) :
              /\ Substring(i, <<"/", "*">>)
              /\ \E waiting \in {0, 1} : IsGap(from, i, waiting)
              /\ \A j \in (i + 1)..(p - 1) : ~Substring(j, <<"*", "/">>)

\* Between two tokens, the line is that of the cursor, less the newlines that
\* do not count.  An error is reported on the line of a token.
LinesCounted ==
    mode = "token" =>
        line = 1 + Cardinality({p \in 0..(cur - 1) : CharAt(p) = "newline" /\ ~Hidden(p)})

\* The lexer slices its source out of range only where the source ends within
\* a character, a string or, behind a backslash, a comment.
PanicsAtOpenEnd ==
    mode = "panicked" =>
        CASE CharAt(start) = "'" -> Last(source) \in {"'", "backslash"}
          [] CharAt(start) = "quote" -> Last(source) = "backslash"
          [] CharAt(start) = "backslash" ->
               \E i \in start..Len(source) :
                  /\ Substring(i, <<"/", "*">>)
                  /\ \A j \in (i + 1)..Len(source) : ~Substring(j, <<"*", "/">>)
          [] OTHER -> FALSE

\* Every source is scanned to its end, or to the slice that is out of range:
\* each token takes the cursor on.
LexEnds == <>(mode \in {"done", "panicked"})
==============================================================================
