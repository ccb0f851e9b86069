------------------------------ MODULE LexerProofs ------------------------------
(***************************************************************************)
(* The theorems about the lexer, for every set of sources.                 *)
(***************************************************************************)
EXTENDS Lexer, SharedFacts, FiniteSetTheorems

\* Chars is what a source is made of.
Chars == Letters \cup Digits \cup Others \cup {"lead", "tail"}

(***************************************************************************)
(* Looking at the source.                                                  *)
(***************************************************************************)
\* A source is a sequence of characters, halves of two bytes side by side.
LEMMA SourceWell ==
  ASSUME source \in Sources
  PROVE  /\ Len(source) \in Nat /\ IsSequence(source) /\ DOMAIN source = 1..Len(source)
         /\ \A i \in 1..Len(source) : source[i] \in Chars
         /\ \A i \in 1..Len(source) :
               (source[i] = "lead") <=> (i < Len(source) /\ source[i + 1] = "tail")
         /\ source # <<>> => Head(source) # "tail" /\ Last(source) # "lead"
<1>1. source \in Seq(Chars)
  BY LexerAssumption DEF Chars
<1>2. IsSequence(source) /\ Len(source) \in Nat /\ DOMAIN source = 1..Len(source)
  BY <1>1, SeqIsSequence, Places
<1>3. \A i \in 1..Len(source) : source[i] \in Chars
  BY <1>1, ElementOfSeq
<1>4. \A i \in DOMAIN source : (source[i] = "lead") <=> (i < Len(source) /\ source[i + 1] = "tail")
  BY LexerAssumption
<1>5. source # <<>> => Head(source) # "tail" /\ Last(source) # "lead"
  BY LexerAssumption
<1> QED
  BY <1>2, <1>3, <1>4, <1>5

\* There is no character "end" within the source, and only that behind it.
LEMMA CharWithin ==
  ASSUME source \in Sources, NEW i \in Nat
  PROVE  /\ (CharAt(i) = "end") <=> (i >= Len(source))
         /\ i < Len(source) => CharAt(i) = source[i + 1] /\ CharAt(i) \in Chars
<1>1. Len(source) \in Nat /\ \A k \in 1..Len(source) : source[k] \in Chars
  BY SourceWell
<1>2. "end" \notin Chars
  BY DEF Chars, Letters, Digits, Others
<1>3. i < Len(source) => i + 1 \in 1..Len(source)
  BY <1>1
<1> QED
  BY <1>1, <1>2, <1>3 DEF CharAt

\* Two characters, one behind the other.
LEMMA TwoChars ==
  ASSUME source \in Sources, NEW i \in Nat, NEW a \in Chars, NEW b \in Chars
  PROVE  Substring(i, <<a, b>>) <=> (CharAt(i) = a /\ CharAt(i + 1) = b)
<1>1. Len(source) \in Nat /\ "end" \notin Chars
  BY SourceWell DEF Chars, Letters, Digits, Others
<1>2. Len(<<a, b>>) = 2 /\ DOMAIN <<a, b>> = {1, 2} /\ <<a, b>>[1] = a /\ <<a, b>>[2] = b
  OBVIOUS
<1>3. Substring(i, <<a, b>>) <=> (i + 2 <= Len(source) /\ source[i + 1] = a /\ source[i + 2] = b)
  BY <1>1, <1>2 DEF Substring
<1>4. (CharAt(i) = a) <=> (i < Len(source) /\ source[i + 1] = a)
  BY <1>1 DEF CharAt
<1>5. (CharAt(i + 1) = b) <=> (i + 1 < Len(source) /\ source[i + 2] = b)
  BY <1>1 DEF CharAt
<1> QED
  BY <1>1, <1>3, <1>4, <1>5

\* And three.
LEMMA ThreeChars ==
  ASSUME source \in Sources, NEW i \in Nat
  PROVE  Substring(i, ThreeQuotes) <=>
            (CharAt(i) = "quote" /\ CharAt(i + 1) = "quote" /\ CharAt(i + 2) = "quote")
<1>1. Len(source) \in Nat
  BY SourceWell
<1>2. /\ Len(ThreeQuotes) = 3 /\ DOMAIN ThreeQuotes = {1, 2, 3}
      /\ ThreeQuotes[1] = "quote" /\ ThreeQuotes[2] = "quote" /\ ThreeQuotes[3] = "quote"
  BY DEF ThreeQuotes
<1>3. Substring(i, ThreeQuotes) <=>
         (i + 3 <= Len(source) /\ source[i + 1] = "quote" /\ source[i + 2] = "quote"
            /\ source[i + 3] = "quote")
  BY <1>1, <1>2 DEF Substring
<1>4. (CharAt(i) = "quote") <=> (i < Len(source) /\ source[i + 1] = "quote")
  BY <1>1 DEF CharAt
<1>5. (CharAt(i + 1) = "quote") <=> (i + 1 < Len(source) /\ source[i + 2] = "quote")
  BY <1>1 DEF CharAt
<1>6. (CharAt(i + 2) = "quote") <=> (i + 2 < Len(source) /\ source[i + 3] = "quote")
  BY <1>1 DEF CharAt
<1> QED
  BY <1>1, <1>3, <1>4, <1>5, <1>6

\* What begins with a slash is a comment, of one kind.
LEMMA Slashes ==
  ASSUME source \in Sources, NEW i \in Nat
  PROVE  /\ Substring(i, <<"/", "*">>) => CharAt(i) = "/" /\ ~Substring(i, <<"/", "/">>) /\ i < Len(source)
         /\ Substring(i, <<"/", "/">>) => CharAt(i) = "/" /\ i < Len(source)
         /\ Substring(i, <<"*", "/">>) => CharAt(i) = "*" /\ CharAt(i + 1) = "/"
<1>1. Len(source) \in Nat /\ "/" \in Chars /\ "*" \in Chars
  BY SourceWell DEF Chars, Others
<1>2. CharAt(i) = "/" => i < Len(source)
  BY <1>1, CharWithin
<1> QED
  BY <1>1, <1>2, TwoChars

\* An open comment at or behind a place.
OpenComment(from) ==
    \E i \in from..Len(source) :
        /\ Substring(i, <<"/", "*">>)
        /\ \A j \in (i + 1)..Len(source) : ~Substring(j, <<"*", "/">>)

\* No step changes the source, so none changes what stands in it.
LEMMA SourceStays ==
  ASSUME source' = source
  PROVE  /\ Len(source)' = Len(source)
         /\ \A i : CharAt(i)' = CharAt(i)
         /\ \A i, chars : Substring(i, chars)' <=> Substring(i, chars)
         /\ \A i : OpenComment(i)' <=> OpenComment(i)
<1>1. Len(source)' = Len(source) /\ (\A i : CharAt(i)' = CharAt(i))
  BY DEF CharAt
<1>2. \A i, chars : Substring(i, chars)' <=> Substring(i, chars)
  BY DEF Substring
<1>3. \A i : OpenComment(i)' <=> OpenComment(i)
  BY DEF Substring, OpenComment
<1> QED
  BY <1>1, <1>2, <1>3

(***************************************************************************)
(* Where the loops end.                                                    *)
(***************************************************************************)
\* The first place at or behind i that is behind the end or in T.
LEMMA Stop ==
  ASSUME NEW n \in Nat, NEW i \in Nat, NEW T
  PROVE  \E j \in i..(i + n) : /\ j >= n \/ j \in T
                               /\ \A k \in i..(j - 1) : k < n /\ k \notin T
<1> DEFINE S == {j \in Nat : j >= i /\ (j >= n \/ j \in T)}
<1>1. i + n \in S
  OBVIOUS
<1>2. PICK j \in S : \A m \in S : j <= m
  <2>1. S \subseteq Nat /\ S # {}
    BY <1>1
  <2> HIDE DEF S
  <2> QED
    BY <2>1, Least
<1>3. j \in i..(i + n) /\ (j >= n \/ j \in T)
  BY <1>1, <1>2
<1>4. ASSUME NEW k \in i..(j - 1) PROVE k < n /\ k \notin T
  <2>1. k \in Nat /\ k >= i /\ k < j
    BY <1>3
  <2> QED
    BY <2>1, <1>2
<1> QED
  BY <1>3, <1>4

\* Stops(i, j, T) says that a loop from i that looks for T ends at j.
Stops(i, j, T) ==
    /\ j \in Nat /\ i <= j /\ (i <= Len(source) => j <= Len(source)) /\ (j >= Len(source) \/ j \in T)
    /\ \A k \in i..(j - 1) : k < Len(source) /\ k \notin T

\* What a loop that advances until T stops at.
LEMMA StopWithin ==
  ASSUME Len(source) \in Nat, NEW i \in Nat, NEW T, NEW j \in i..(i + Len(source)),
         j >= Len(source) \/ j \in T,
         \A k \in i..(j - 1) : k < Len(source) /\ k \notin T
  PROVE  Stops(i, j, T)
<1>1. j \in Nat /\ i <= j
  OBVIOUS
<1>2. CASE j = i
  BY <1>1, <1>2 DEF Stops
<1>3. CASE j # i
  <2>1. j - 1 \in i..(j - 1)
    BY <1>1, <1>3
  <2>2. j - 1 < Len(source)
    BY <2>1
  <2> QED
    BY <1>1, <2>2 DEF Stops
<1> QED
  BY <1>2, <1>3

\* A line, and what is left of it.
LEMMA UntilNewline ==
  ASSUME NEW i \in Nat, Len(source) \in Nat
  PROVE  Stops(i, Until(i, LAMBDA k : CharAt(k) = "newline"), {k \in Nat : CharAt(k) = "newline"})
<1> DEFINE T == {k \in Nat : CharAt(k) = "newline"}
           U == Until(i, LAMBDA k : CharAt(k) = "newline")
<1>1. PICK j \in i..(i + Len(source)) :
         /\ j >= Len(source) \/ j \in T
         /\ \A k \in i..(j - 1) : k < Len(source) /\ k \notin T
  BY Stop
<1>2. (j >= Len(source) \/ CharAt(j) = "newline")
         /\ \A k \in i..(j - 1) : k < Len(source) /\ CharAt(k) # "newline"
  BY <1>1
<1>3. U \in i..(i + Len(source)) /\ (U >= Len(source) \/ CharAt(U) = "newline")
         /\ \A k \in i..(U - 1) : k < Len(source) /\ CharAt(k) # "newline"
  BY <1>2 DEF Until
<1> HIDE DEF U
<1>4. U >= Len(source) \/ U \in T
  BY <1>3
<1>5. \A k \in i..(U - 1) : k < Len(source) /\ k \notin T
  BY <1>3
<1> HIDE DEF T
<1>6. Stops(i, U, T)
  BY <1>3, <1>4, <1>5, StopWithin
<1> QED
  BY <1>6 DEF T, U

\* A comment.
LEMMA UntilClosed ==
  ASSUME NEW i \in Nat, Len(source) \in Nat
  PROVE  Stops(i, Until(i, LAMBDA k : Substring(k, <<"*", "/">>)), {k \in Nat : Substring(k, <<"*", "/">>)})
<1> DEFINE T == {k \in Nat : Substring(k, <<"*", "/">>)}
           U == Until(i, LAMBDA k : Substring(k, <<"*", "/">>))
<1>1. PICK j \in i..(i + Len(source)) :
         /\ j >= Len(source) \/ j \in T
         /\ \A k \in i..(j - 1) : k < Len(source) /\ k \notin T
  BY Stop
<1>2. (j >= Len(source) \/ Substring(j, <<"*", "/">>))
         /\ \A k \in i..(j - 1) : k < Len(source) /\ ~(Substring(k, <<"*", "/">>))
  BY <1>1
<1>3. U \in i..(i + Len(source)) /\ (U >= Len(source) \/ Substring(U, <<"*", "/">>))
         /\ \A k \in i..(U - 1) : k < Len(source) /\ ~(Substring(k, <<"*", "/">>))
  BY <1>2 DEF Until
<1> HIDE DEF U
<1>4. U >= Len(source) \/ U \in T
  BY <1>3
<1>5. \A k \in i..(U - 1) : k < Len(source) /\ k \notin T
  BY <1>3
<1> HIDE DEF T
<1>6. Stops(i, U, T)
  BY <1>3, <1>4, <1>5, StopWithin
<1> QED
  BY <1>6 DEF T, U

\* A name.
LEMMA UntilSpelled ==
  ASSUME NEW i \in Nat, Len(source) \in Nat
  PROVE  Stops(i, Until(i, LAMBDA k : CharAt(k) \notin Letters \cup Digits),
               {k \in Nat : CharAt(k) \notin Letters \cup Digits})
<1> DEFINE T == {k \in Nat : CharAt(k) \notin Letters \cup Digits}
           U == Until(i, LAMBDA k : CharAt(k) \notin Letters \cup Digits)
<1>1. PICK j \in i..(i + Len(source)) :
         /\ j >= Len(source) \/ j \in T
         /\ \A k \in i..(j - 1) : k < Len(source) /\ k \notin T
  BY Stop
<1>2. (j >= Len(source) \/ CharAt(j) \notin Letters \cup Digits)
         /\ \A k \in i..(j - 1) : k < Len(source) /\ ~(CharAt(k) \notin Letters \cup Digits)
  BY <1>1
<1>3. U \in i..(i + Len(source)) /\ (U >= Len(source) \/ CharAt(U) \notin Letters \cup Digits)
         /\ \A k \in i..(U - 1) : k < Len(source) /\ ~(CharAt(k) \notin Letters \cup Digits)
  BY <1>2 DEF Until
<1> HIDE DEF U
<1>4. U >= Len(source) \/ U \in T
  BY <1>3
<1>5. \A k \in i..(U - 1) : k < Len(source) /\ k \notin T
  BY <1>3
<1> HIDE DEF T
<1>6. Stops(i, U, T)
  BY <1>3, <1>4, <1>5, StopWithin
<1> QED
  BY <1>6 DEF T, U

\* Digits.
LEMMA UntilNoDigit ==
  ASSUME NEW i \in Nat, Len(source) \in Nat, NEW base
  PROVE  Stops(i, PastDigits(base, i), {k \in Nat : ~IsDigit(base, CharAt(k))})
<1> DEFINE T == {k \in Nat : ~IsDigit(base, CharAt(k))}
           U == PastDigits(base, i)
<1>1. PICK j \in i..(i + Len(source)) :
         /\ j >= Len(source) \/ j \in T
         /\ \A k \in i..(j - 1) : k < Len(source) /\ k \notin T
  BY Stop
<1>2. (j >= Len(source) \/ ~IsDigit(base, CharAt(j)))
         /\ \A k \in i..(j - 1) : k < Len(source) /\ ~(~IsDigit(base, CharAt(k)))
  BY <1>1
<1>3. U \in i..(i + Len(source)) /\ (U >= Len(source) \/ ~IsDigit(base, CharAt(U)))
         /\ \A k \in i..(U - 1) : k < Len(source) /\ ~(~IsDigit(base, CharAt(k)))
  BY <1>2 DEF Until, PastDigits
<1> HIDE DEF U
<1>4. U >= Len(source) \/ U \in T
  BY <1>3
<1>5. \A k \in i..(U - 1) : k < Len(source) /\ k \notin T
  BY <1>3
<1> HIDE DEF T
<1>6. Stops(i, U, T)
  BY <1>3, <1>4, <1>5, StopWithin
<1> QED
  BY <1>6 DEF T, U

\* Quotes.
LEMMA UntilNoQuote ==
  ASSUME NEW i \in Nat, Len(source) \in Nat
  PROVE  Stops(i, Until(i, LAMBDA k : CharAt(k) # "quote"), {k \in Nat : CharAt(k) # "quote"})
<1> DEFINE T == {k \in Nat : CharAt(k) # "quote"}
           U == Until(i, LAMBDA k : CharAt(k) # "quote")
<1>1. PICK j \in i..(i + Len(source)) :
         /\ j >= Len(source) \/ j \in T
         /\ \A k \in i..(j - 1) : k < Len(source) /\ k \notin T
  BY Stop
<1>2. (j >= Len(source) \/ CharAt(j) # "quote")
         /\ \A k \in i..(j - 1) : k < Len(source) /\ ~(CharAt(k) # "quote")
  BY <1>1
<1>3. U \in i..(i + Len(source)) /\ (U >= Len(source) \/ CharAt(U) # "quote")
         /\ \A k \in i..(U - 1) : k < Len(source) /\ ~(CharAt(k) # "quote")
  BY <1>2 DEF Until
<1> HIDE DEF U
<1>4. U >= Len(source) \/ U \in T
  BY <1>3
<1>5. \A k \in i..(U - 1) : k < Len(source) /\ k \notin T
  BY <1>3
<1> HIDE DEF T
<1>6. Stops(i, U, T)
  BY <1>3, <1>4, <1>5, StopWithin
<1> QED
  BY <1>6 DEF T, U

(***************************************************************************)
(* Where the cursor, the start of the token and the line can be.           *)
(***************************************************************************)
\* What is scanned so far: a token is an error exactly if it says why,
Kinds == Spelled \cup {"Symbol", "Newline"}
TokensNamed ==
    \A k \in DOMAIN tokens :
        tokens[k].kind \in Kinds /\ ((tokens[k].error # "none") <=> (tokens[k].kind = "Error"))

\* and is not empty, nor behind the cursor.
TokensPlaced ==
    \A k \in DOMAIN tokens :
        /\ tokens[k].at \in Nat /\ tokens[k].end \in Nat
        /\ tokens[k].at < tokens[k].end /\ tokens[k].end <= cur

TokensWell == IsSequence(tokens) /\ TokensNamed /\ TokensPlaced

\* The cursor is past the end only where a comment or an escape was open, and
\* within a token it is behind its first character.
Placed ==
    /\ cur \in 0..(Len(source) + 2) /\ start \in 0..(Len(source) + 2)
    /\ line \in 1..(Len(source) + 1) /\ line <= cur + 1
    /\ mode \in {"skip", "token", "backslash", "string", "triple", "done", "panicked"}
    /\ caller \in {"token", "backslash"}
    /\ caller = "backslash" => mode = "skip"
    /\ mode = "token" => start = cur

\* Behind a backslash,
BehindBackslash ==
    caller = "backslash" \/ mode = "backslash" =>
        start < cur /\ CharAt(start) = "backslash" /\ (cur > Len(source) => OpenComment(start))

\* and within a string.
InStrings ==
    /\ mode = "string" =>
          /\ start < cur /\ CharAt(start) = "quote"
          /\ cur <= Len(source) \/ (cur = Len(source) + 1 /\ CharAt(cur - 2) = "backslash")
    /\ mode = "triple" => start < cur /\ cur <= Len(source) /\ Substring(start, ThreeQuotes)

Typed == source \in Sources /\ Placed /\ BehindBackslash /\ InStrings /\ TokensWell

\* One token more, where the cursor is behind it.
LEMMA OneMore ==
  ASSUME TokensWell, cur \in Nat, cur' \in Nat, cur' >= cur,
         NEW t, tokens' = Append(tokens, t),
         t.kind \in Kinds, (t.error # "none") <=> (t.kind = "Error"),
         t.at \in Nat, t.end \in Nat, t.at < t.end, t.end <= cur'
  PROVE  TokensWell'
<1>1. /\ IsSequence(tokens') /\ DOMAIN tokens' = 1..(Len(tokens) + 1)
      /\ \A k \in 1..Len(tokens) : tokens'[k] = tokens[k]
      /\ tokens'[Len(tokens) + 1] = t
      /\ DOMAIN tokens = 1..Len(tokens) /\ Len(tokens) \in Nat
  BY Appended, Places DEF TokensWell
<1>2. TokensNamed'
  <2>1. SUFFICES ASSUME NEW k \in DOMAIN tokens'
                 PROVE  tokens'[k].kind \in Kinds
                          /\ ((tokens'[k].error # "none") <=> (tokens'[k].kind = "Error"))
    BY DEF TokensNamed
  <2>2. CASE k \in DOMAIN tokens
    <3>1. tokens'[k] = tokens[k]
      BY <1>1, <2>2
    <3> QED
      BY <2>2, <3>1 DEF TokensWell, TokensNamed
  <2>3. CASE k = Len(tokens) + 1
    BY <1>1, <2>3
  <2> QED
    BY <1>1, <2>1, <2>2, <2>3
<1>3. TokensPlaced'
  <2>1. SUFFICES ASSUME NEW k \in DOMAIN tokens'
                 PROVE  /\ tokens'[k].at \in Nat /\ tokens'[k].end \in Nat
                        /\ tokens'[k].at < tokens'[k].end /\ tokens'[k].end <= cur'
    BY DEF TokensPlaced
  <2>2. CASE k \in DOMAIN tokens
    <3>1. tokens'[k] = tokens[k]
      BY <1>1, <2>2
    <3>2. /\ tokens[k].at \in Nat /\ tokens[k].end \in Nat
          /\ tokens[k].at < tokens[k].end /\ tokens[k].end <= cur
      BY <2>2 DEF TokensWell, TokensPlaced
    <3> QED
      BY <3>1, <3>2
  <2>3. CASE k = Len(tokens) + 1
    BY <1>1, <2>3
  <2> QED
    BY <1>1, <2>1, <2>2, <2>3
<1> QED
  BY <1>1, <1>2, <1>3 DEF TokensWell

\* And none, where the cursor does not go back.
LEMMA NoMore ==
  ASSUME TokensWell, tokens' = tokens, cur \in Nat, cur' \in Nat, cur' >= cur
  PROVE  TokensWell'
<1>1. TokensNamed'
  BY DEF TokensWell, TokensNamed
<1>2. TokensPlaced'
  BY DEF TokensWell, TokensPlaced
<1> QED
  BY <1>1, <1>2 DEF TokensWell

\* A token that is emitted, or a panic that leaves everything where it is.
LEMMA Emitted ==
  ASSUME TokensWell, cur \in Nat, start \in Nat, NEW kind, NEW from, NEW to, NEW next \in Nat, NEW error,
         EmitSlice(kind, from, to, next, error), next >= cur, start < next,
         kind \in Kinds, (error # "none") <=> (kind = "Error")
  PROVE  /\ TokensWell'
         /\ \/ mode' = "panicked" /\ cur' = cur /\ tokens' = tokens /\ kind \in Spelled
                 /\ ~InRange(from, to)
            \/ mode' = "skip" /\ cur' = next /\ (kind \in Spelled => InRange(from, to))
                 /\ tokens' = Append(tokens, [Token(kind, from, to, error) EXCEPT !.end = next])
<1>1. CASE kind \in Spelled /\ ~InRange(from, to)
  <2>1. mode' = "panicked" /\ cur' = cur /\ tokens' = tokens
    BY <1>1 DEF EmitSlice
  <2>2. cur' \in Nat /\ cur' >= cur
    BY <2>1
  <2>3. TokensWell'
    BY <2>1, <2>2, NoMore
  <2> QED
    BY <1>1, <2>1, <2>3
<1>2. CASE ~(kind \in Spelled /\ ~InRange(from, to))
  <2> DEFINE t == [Token(kind, from, to, error) EXCEPT !.end = next]
  <2>1. mode' = "skip" /\ cur' = next /\ tokens' = Append(tokens, t)
    BY <1>2 DEF EmitSlice
  <2>2. t.kind \in Kinds /\ ((t.error # "none") <=> (t.kind = "Error"))
    BY DEF Token, Spelled, Kinds
  <2>3. t.at = start /\ t.end = next
    BY DEF Token
  <2> HIDE DEF t
  <2>4. cur' \in Nat /\ cur' >= cur
    BY <2>1
  <2>5. t.at \in Nat /\ t.end \in Nat /\ t.at < t.end /\ t.end <= cur'
    BY <2>1, <2>3
  <2>6. TokensWell'
    BY <2>1, <2>2, <2>4, <2>5, OneMore
  <2> QED
    BY <1>2, <2>1, <2>6 DEF t
<1> QED
  BY <1>1, <1>2

\* Nothing is scanned at first.
LEMMA InitTyped ==
  ASSUME Init
  PROVE  Typed
<1>1. source \in Sources /\ cur = 0 /\ start = 0 /\ line = 1 /\ mode = "skip" /\ caller = "token"
        /\ tokens = <<>>
  BY DEF Init
<1>2. Len(source) \in Nat
  BY <1>1, SourceWell
<1>3. IsSequence(tokens) /\ DOMAIN tokens = {}
  BY <1>1, SmallSequences
<1>4. Placed
  BY <1>1, <1>2 DEF Placed
<1>5. BehindBackslash /\ InStrings
  BY <1>1 DEF BehindBackslash, InStrings
<1> QED
  BY <1>1, <1>3, <1>4, <1>5 DEF Typed, TokensWell, TokensNamed, TokensPlaced

\* No step changes the source, and a step that is not within a string or
\* behind a backslash afterwards has little to show.
LEMMA Calm ==
  ASSUME Typed, source' = source, Placed', TokensWell',
         mode' \in {"skip", "token", "done", "panicked"}, caller' = "token"
  PROVE  Typed'
<1>1. BehindBackslash' /\ InStrings'
  BY DEF BehindBackslash, InStrings
<1> QED
  BY <1>1 DEF Typed

\* A token that is emitted.
LEMMA EmittedTyped ==
  ASSUME Typed, source' = source, caller = "token", caller' = "token",
         start' \in 0..(Len(source) + 2), line' \in 1..(Len(source) + 1),
         NEW kind \in Kinds, NEW from, NEW to, NEW next \in Nat, NEW error,
         EmitSlice(kind, from, to, next, error), next >= cur, start < next,
         (error # "none") <=> (kind = "Error"),
         (kind \in Spelled => InRange(from, to)) => next <= Len(source) + 2 /\ line' <= next + 1,
         kind \in Spelled => line' <= cur + 1
  PROVE  /\ Typed'
         /\ mode' = "panicked" => kind \in Spelled /\ ~InRange(from, to)
<1>1. /\ TokensWell /\ cur \in Nat /\ start \in Nat /\ Len(source) \in Nat
      /\ cur \in 0..(Len(source) + 2)
  <2>1. source \in Sources /\ TokensWell /\ Placed
    BY DEF Typed
  <2> QED
    BY <2>1, SourceWell DEF Placed
<1>2. /\ TokensWell'
      /\ \/ mode' = "panicked" /\ cur' = cur /\ kind \in Spelled /\ ~InRange(from, to)
         \/ mode' = "skip" /\ cur' = next /\ (kind \in Spelled => InRange(from, to))
  BY <1>1, Emitted
<1>3. cur' \in 0..(Len(source) + 2) /\ line' <= cur' + 1
  BY <1>1, <1>2
<1>4. Placed'
  BY <1>1, <1>2, <1>3 DEF Placed
<1>5. mode' \in {"skip", "token", "done", "panicked"}
  BY <1>2
<1>6. Typed'
  BY <1>2, <1>4, <1>5, Calm
<1> QED
  BY <1>2, <1>6

\* What holds wherever the lexer is.
LEMMA TypedFacts ==
  ASSUME Typed
  PROVE  /\ source \in Sources /\ Len(source) \in Nat /\ TokensWell
         /\ cur \in Nat /\ start \in Nat /\ line \in Nat
         /\ cur <= Len(source) + 2 /\ start <= Len(source) + 2 /\ line <= Len(source) + 1 /\ line >= 1
         /\ line <= cur + 1
<1>1. source \in Sources /\ TokensWell /\ Placed
  BY DEF Typed
<1>2. Len(source) \in Nat
  BY <1>1, SourceWell
<1> QED
  BY <1>1, <1>2 DEF Placed

\* A step that only moves the cursor while blanks are skipped.
LEMMA SkipTyped ==
  ASSUME Typed, Skipping, NEW next \in Nat, cur' = next, mode' = mode,
         cur <= next, next <= Len(source) + 2,
         caller = "backslash" => (next > Len(source) => OpenComment(start))
  PROVE  Typed' /\ mode' = "skip"
<1>1. /\ mode = "skip" /\ source' = source /\ start' = start /\ line' = line /\ caller' = caller
      /\ tokens' = tokens
  BY DEF Skipping
<1>2. source \in Sources /\ Placed /\ BehindBackslash /\ TokensWell
  BY DEF Typed
<1>3. Len(source) \in Nat /\ cur \in Nat
  BY TypedFacts
<1>4. TokensWell'
  BY <1>1, <1>2, <1>3, NoMore
<1>5. Placed'
  BY <1>1, <1>2, <1>3 DEF Placed
<1>6. BehindBackslash'
  <2>1. CharAt(start)' = CharAt(start) /\ (OpenComment(start)' <=> OpenComment(start))
    <3>1. PICK s : s = start /\ s = start'
      BY <1>1
    <3>2. CharAt(s)' = CharAt(s) /\ (OpenComment(s)' <=> OpenComment(s))
      BY <1>1, SourceStays
    <3> QED
      BY <3>1, <3>2 DEF CharAt, OpenComment, Substring
  <2>2. start \in Nat
    BY TypedFacts
  <2> QED
    BY <1>1, <1>2, <1>3, <2>1, <2>2 DEF BehindBackslash
<1>7. InStrings'
  BY <1>1 DEF InStrings
<1> QED
  BY <1>1, <1>2, <1>4, <1>5, <1>6, <1>7 DEF Typed

\* A blank is one character on.
LEMMA SkipBlankTyped ==
  ASSUME Typed, SkipBlank
  PROVE  Typed' /\ mode' = "skip"
<1>1. Skipping /\ CharAt(cur) = "blank" /\ cur' = cur + 1 /\ mode' = mode
  BY DEF SkipBlank, SkipTo, Peek
<1>2. source \in Sources /\ cur \in Nat /\ Len(source) \in Nat
  BY TypedFacts
<1>3. cur < Len(source)
  BY <1>1, <1>2, CharWithin
<1>4. PICK next \in Nat : next = cur + 1
  BY <1>2
<1>5. /\ cur' = next /\ cur <= next /\ next <= Len(source) + 2
      /\ caller = "backslash" => (next > Len(source) => OpenComment(start))
  BY <1>1, <1>2, <1>3, <1>4
<1> QED
  BY <1>1, <1>5, SkipTyped

\* A comment on a line ends within the source.
LEMMA SkipLineCommentTyped ==
  ASSUME Typed, SkipLineComment
  PROVE  Typed' /\ mode' = "skip"
<1>1. PICK next : next = Until(cur, LAMBDA k : CharAt(k) = "newline")
  OBVIOUS
<1>2. Skipping /\ Substring(cur, <<"/", "/">>) /\ cur' = next /\ mode' = mode
  BY <1>1 DEF SkipLineComment, SkipTo
<1>3. source \in Sources /\ cur \in Nat /\ Len(source) \in Nat
  BY TypedFacts
<1>4. CharAt(cur) = "/"
  BY <1>2, <1>3, TwoChars DEF Chars, Others
<1>5. cur < Len(source)
  BY <1>3, <1>4, CharWithin
<1>6. Stops(cur, next, {k \in Nat : CharAt(k) = "newline"})
  BY <1>1, <1>3, UntilNewline
<1>7. next \in Nat /\ cur <= next /\ next <= Len(source)
  BY <1>3, <1>5, <1>6 DEF Stops
<1>8. /\ next <= Len(source) + 2
      /\ caller = "backslash" => (next > Len(source) => OpenComment(start))
  BY <1>3, <1>7
<1> QED
  BY <1>2, <1>7, <1>8, SkipTyped

\* A comment that is not closed is the only one that ends behind the source.
LEMMA SkipBlockCommentTyped ==
  ASSUME Typed, SkipBlockComment
  PROVE  Typed' /\ mode' = "skip"
<1>1. PICK u : u = Until(cur, LAMBDA k : Substring(k, <<"*", "/">>))
  OBVIOUS
<1>2. Skipping /\ Substring(cur, <<"/", "*">>) /\ cur' = u + 2 /\ mode' = mode
  BY <1>1 DEF SkipBlockComment, SkipTo, EndOfBlockComment
<1>3. source \in Sources /\ cur \in Nat /\ Len(source) \in Nat
  BY TypedFacts
<1>4. CharAt(cur) = "/"
  BY <1>2, <1>3, TwoChars DEF Chars, Others
<1>5. cur < Len(source)
  BY <1>3, <1>4, CharWithin
<1>6. Stops(cur, u, {k \in Nat : Substring(k, <<"*", "/">>)})
  BY <1>1, <1>3, UntilClosed
<1>7. u \in Nat /\ cur <= u /\ u <= Len(source)
  BY <1>3, <1>5, <1>6 DEF Stops
<1>8. PICK next \in Nat : next = u + 2
  BY <1>7
<1>9. caller = "backslash" => (next > Len(source) => OpenComment(start))
  <2>1. SUFFICES ASSUME caller = "backslash", next > Len(source) PROVE OpenComment(start)
    OBVIOUS
  <2>2. start \in Nat /\ start < cur
    BY <2>1, TypedFacts DEF Typed, BehindBackslash
  <2>3. ASSUME NEW j \in (cur + 1)..Len(source) PROVE ~Substring(j, <<"*", "/">>)
    <3>1. CASE j < u
      <4>1. j \in cur..(u - 1) /\ j \in Nat
        BY <1>3, <1>7, <3>1
      <4> QED
        BY <4>1, <1>6 DEF Stops
    <3>2. CASE j >= u
      <4>1. j \in Nat /\ j + 1 \in Nat /\ j + 1 >= Len(source)
        BY <1>3, <1>7, <1>8, <2>1, <3>2
      <4>2. CharAt(j + 1) = "end"
        BY <4>1, <1>3, CharWithin
      <4>3. Substring(j, <<"*", "/">>) => CharAt(j + 1) = "/"
        BY <4>1, <1>3, TwoChars DEF Chars, Others
      <4> QED
        BY <4>2, <4>3
    <3> QED
      BY <1>3, <1>7, <3>1, <3>2
  <2>4. cur \in start..Len(source)
    BY <1>3, <1>5, <2>2
  <2> QED
    BY <1>2, <2>3, <2>4 DEF OpenComment
<1>10. cur' = next /\ cur <= next /\ next <= Len(source) + 2
  BY <1>2, <1>3, <1>7, <1>8
<1> QED
  BY <1>2, <1>9, <1>10, SkipTyped

\* Behind what is ignored there is a token, or the newline of a backslash.
LEMMA SkipReturnsTyped ==
  ASSUME Typed, SkipReturns
  PROVE  Typed' /\ mode' # "panicked"
<1>1. /\ mode = "skip" /\ mode' = caller /\ caller' = "token"
      /\ start' = IF caller = "token" THEN cur ELSE start
      /\ source' = source /\ cur' = cur /\ line' = line /\ tokens' = tokens
  BY DEF SkipReturns
<1>2. source \in Sources /\ Placed /\ BehindBackslash /\ TokensWell
  BY DEF Typed
<1>3. Len(source) \in Nat /\ cur \in Nat /\ caller \in {"token", "backslash"} /\ start \in Nat
  BY <1>2, TypedFacts DEF Placed
<1>4. cur' \in Nat /\ cur' >= cur
  BY <1>1, <1>3
<1>5. TokensWell'
  BY <1>1, <1>2, <1>3, <1>4, NoMore
<1>6. Placed'
  BY <1>1, <1>2, <1>3 DEF Placed
<1>7. CASE caller = "token"
  BY <1>1, <1>2, <1>5, <1>6, <1>7, Calm
<1>8. CASE caller = "backslash"
  <2>1. CharAt(start)' = CharAt(start) /\ (OpenComment(start)' <=> OpenComment(start))
    <3>1. PICK s : s = start /\ s = start'
      BY <1>1, <1>8
    <3>2. CharAt(s)' = CharAt(s) /\ (OpenComment(s)' <=> OpenComment(s))
      BY <1>1, SourceStays
    <3> QED
      BY <3>1, <3>2 DEF CharAt, OpenComment, Substring
  <2>2. BehindBackslash' /\ InStrings'
    BY <1>1, <1>2, <1>8, <2>1 DEF BehindBackslash, InStrings
  <2> QED
    BY <1>1, <1>2, <1>5, <1>6, <1>8, <2>2 DEF Typed
<1> QED
  BY <1>3, <1>7, <1>8

\* While a token begins.
LEMMA ScanningFacts ==
  ASSUME Typed, Scanning
  PROVE  start = cur /\ caller = "token" /\ source' = source /\ start' = start
BY DEF Typed, Placed, Scanning

\* There the lexer stops.
LEMMA EndOfSourceTyped ==
  ASSUME Typed, EndOfSource
  PROVE  Typed' /\ mode' # "panicked"
<1>1. Scanning /\ mode' = "done" /\ cur' = cur /\ tokens' = tokens /\ line' = line /\ caller' = caller
  BY DEF EndOfSource, InLine
<1>2. /\ start = cur /\ caller = "token" /\ source' = source /\ start' = start
      /\ source \in Sources /\ Placed /\ TokensWell /\ cur \in Nat
  BY <1>1, ScanningFacts, TypedFacts DEF Typed
<1>3. cur' \in Nat /\ cur' >= cur
  BY <1>1, <1>2
<1>4. TokensWell'
  BY <1>1, <1>2, <1>3, NoMore
<1>5. Placed'
  BY <1>1, <1>2 DEF Placed
<1>6. mode' \in {"skip", "token", "done", "panicked"} /\ caller' = "token" /\ mode' # "panicked"
  BY <1>1, <1>2
<1> QED
  BY <1>2, <1>4, <1>5, <1>6, Calm

\* A token that ends within the source.
LEMMA EmitWithin ==
  ASSUME Typed, Scanning, caller' = caller, NEW kind \in Kinds, kind # "Error",
         NEW next \in Nat, Emit(kind, next), cur < next, next <= Len(source),
         line' = line \/ (kind = "Newline" /\ line' = line + 1)
  PROVE  Typed' /\ mode' # "panicked"
<1>1. /\ start = cur /\ caller = "token" /\ source' = source /\ start' = start
      /\ source \in Sources /\ cur \in Nat /\ Len(source) \in Nat /\ line \in Nat
      /\ line >= 1 /\ line <= cur + 1 /\ line <= Len(source) + 1
  BY ScanningFacts, TypedFacts
<1>2. EmitSlice(kind, start, next, next, "none")
  BY DEF Emit
<1>3. start' \in 0..(Len(source) + 2) /\ line' \in 1..(Len(source) + 1)
  BY <1>1
<1>4. "Newline" \notin Spelled /\ (("none" # "none") <=> (kind = "Error"))
  BY DEF Spelled, Literals, IntLiterals
<1>5. kind \in Spelled => line' <= cur + 1
  BY <1>1, <1>4
<1>6. InRange(start, next)
  BY <1>1 DEF InRange
<1>7. next <= Len(source) + 2 /\ line' <= next + 1
  BY <1>1
<1>8. next >= cur /\ start < next /\ caller' = "token"
  BY <1>1
<1>9. Typed' /\ (mode' = "panicked" => kind \in Spelled /\ ~InRange(start, next))
  BY <1>1, <1>2, <1>3, <1>4, <1>5, <1>7, <1>8, EmittedTyped
<1> QED
  BY <1>6, <1>9

\* A name is a letter at least.
LEMMA IdentifierTyped ==
  ASSUME Typed, Identifier
  PROVE  Typed' /\ mode' # "panicked"
<1>1. PICK next : next = Until(cur, LAMBDA k : CharAt(k) \notin Letters \cup Digits)
  OBVIOUS
<1>2. Scanning /\ line' = line /\ caller' = caller /\ CharAt(cur) \in Letters /\ Emit("Identifier", next)
  BY <1>1 DEF Identifier, InLine, Peek
<1>3. source \in Sources /\ cur \in Nat /\ Len(source) \in Nat
  BY TypedFacts
<1>4. cur < Len(source)
  BY <1>2, <1>3, CharWithin DEF Letters
<1>5. Stops(cur, next, {k \in Nat : CharAt(k) \notin Letters \cup Digits})
  BY <1>1, <1>3, UntilSpelled
<1>6. next \in Nat /\ cur <= next /\ next <= Len(source) /\ next # cur
  BY <1>2, <1>3, <1>4, <1>5 DEF Stops
<1>7. cur < next
  BY <1>3, <1>6
<1>8. "Identifier" \in Kinds /\ "Identifier" # "Error"
  BY DEF Kinds, Spelled
<1> QED
  BY <1>2, <1>6, <1>7, <1>8, EmitWithin

\* The prefix of a number, and its digits up to a point or to the end.
LEMMA WholePart ==
  ASSUME Typed, CharAt(cur) \in Digits
  PROVE  LET base == Base
             whole == PastDigits(Base, cur + Prefix)
         IN /\ base \in {2, 10, 16} /\ Prefix = (IF base = 10 THEN 1 ELSE 2)
            /\ base = 16 => CharAt(cur) = "0" /\ CharAt(cur + 1) = "x"
            /\ base = 2 => CharAt(cur) = "0" /\ CharAt(cur + 1) = "b"
            /\ whole \in Nat /\ cur + Prefix <= whole /\ whole <= Len(source)
            /\ whole >= Len(source) \/ ~IsDigit(base, CharAt(whole))
            /\ \A k \in (cur + Prefix)..(whole - 1) : k < Len(source) /\ IsDigit(base, CharAt(k))
<1>1. source \in Sources /\ cur \in Nat /\ Len(source) \in Nat
  BY TypedFacts
<1>2. PICK base, p, whole : base = Base /\ p = Prefix /\ whole = PastDigits(Base, cur + Prefix)
  OBVIOUS
<1>3. /\ base \in {2, 10, 16} /\ p = (IF base = 10 THEN 1 ELSE 2)
      /\ base = 16 => CharAt(cur) = "0" /\ CharAt(cur + 1) = "x"
      /\ base = 2 => CharAt(cur) = "0" /\ CharAt(cur + 1) = "b"
  BY <1>2 DEF Base, Prefix, Peek, PeekAhead
<1>4. cur < Len(source)
  BY <1>1, CharWithin DEF Digits
<1>5. base # 10 => cur + 1 < Len(source)
  <2>1. base # 10 => CharAt(cur + 1) # "end"
    BY <1>3
  <2> QED
    BY <1>1, <2>1, CharWithin
<1>6. cur + p \in Nat /\ cur + p <= Len(source)
  BY <1>1, <1>3, <1>4, <1>5
<1>7. PICK i \in Nat : i = cur + p
  BY <1>6
<1>8. Stops(i, whole, {k \in Nat : ~IsDigit(base, CharAt(k))})
  BY <1>1, <1>2, <1>7, UntilNoDigit
<1>9. /\ whole \in Nat /\ i <= whole /\ whole <= Len(source)
      /\ whole >= Len(source) \/ ~IsDigit(base, CharAt(whole))
      /\ \A k \in i..(whole - 1) : k < Len(source) /\ IsDigit(base, CharAt(k))
  BY <1>6, <1>7, <1>8 DEF Stops
<1> QED
  BY <1>2, <1>3, <1>7, <1>9

\* The digits behind the point.
LEMMA FractionPart ==
  ASSUME source \in Sources, NEW whole \in Nat, IsFraction(whole)
  PROVE  LET next == PastDigits(16, whole + 1)
         IN /\ next \in Nat /\ whole + 1 < next /\ next <= Len(source)
            /\ CharAt(whole) = "." /\ CharAt(whole + 1) \in Digits
            /\ \A k \in (whole + 1)..(next - 1) : k < Len(source) /\ IsDigit(16, CharAt(k))
<1>1. PICK next, i : i = whole + 1 /\ next = PastDigits(16, i)
  OBVIOUS
<1>2. CharAt(whole) = "." /\ CharAt(i) \in Digits /\ Len(source) \in Nat /\ i \in Nat
  BY <1>1, SourceWell DEF IsFraction
<1>3. i < Len(source)
  BY <1>2, CharWithin DEF Digits
<1>4. Stops(i, next, {k \in Nat : ~IsDigit(16, CharAt(k))})
  BY <1>1, <1>2, UntilNoDigit
<1>5. /\ next \in Nat /\ i <= next /\ next <= Len(source)
      /\ \A k \in i..(next - 1) : k < Len(source) /\ IsDigit(16, CharAt(k))
  BY <1>2, <1>3, <1>4 DEF Stops
<1>6. IsDigit(16, CharAt(i))
  BY <1>2 DEF IsDigit
<1>7. next # i
  BY <1>3, <1>4, <1>6 DEF Stops
<1> QED
  BY <1>1, <1>2, <1>5, <1>7

\* A number ends within the source, with a point or without.
LEMMA NumberTyped ==
  ASSUME Typed, Number
  PROVE  Typed' /\ mode' # "panicked"
<1>1. PICK whole : whole = PastDigits(Base, cur + Prefix)
  OBVIOUS
<1>2. /\ Scanning /\ line' = line /\ caller' = caller /\ CharAt(cur) \in Digits
      /\ IF IsFraction(whole) THEN Emit("Float", PastDigits(16, whole + 1))
         ELSE Emit(CASE Base = 10 -> "DecInt" [] Base = 16 -> "HexInt" [] Base = 2 -> "BinInt", whole)
  BY <1>1 DEF Number, InLine, Peek
<1>3. source \in Sources /\ cur \in Nat /\ Len(source) \in Nat
  BY TypedFacts
<1>4. whole \in Nat /\ cur < whole /\ whole <= Len(source) /\ Base \in {2, 10, 16}
  <2>1. PICK p : p = Prefix
    OBVIOUS
  <2>2. p \in {1, 2} /\ whole \in Nat /\ cur + p <= whole /\ whole <= Len(source) /\ Base \in {2, 10, 16}
    BY <1>1, <1>2, <2>1, WholePart
  <2> QED
    BY <1>3, <2>2
<1>5. {"Float", "DecInt", "HexInt", "BinInt"} \subseteq Kinds
  BY DEF Kinds, Spelled, Literals, IntLiterals
<1>6. CASE IsFraction(whole)
  <2>1. PICK next : next = PastDigits(16, whole + 1)
    OBVIOUS
  <2>2. next \in Nat /\ whole + 1 < next /\ next <= Len(source)
    BY <1>3, <1>4, <1>6, <2>1, FractionPart
  <2>3. Emit("Float", next) /\ cur < next
    BY <1>2, <1>3, <1>4, <1>6, <2>1, <2>2
  <2>4. "Float" \in Kinds /\ "Float" # "Error"
    BY <1>5
  <2> QED
    BY <1>2, <2>2, <2>3, <2>4, EmitWithin
<1>7. CASE ~IsFraction(whole)
  <2>1. PICK kind : kind = CASE Base = 10 -> "DecInt" [] Base = 16 -> "HexInt" [] Base = 2 -> "BinInt"
    OBVIOUS
  <2>2. Emit(kind, whole)
    BY <1>2, <1>7, <2>1
  <2>3. kind \in {"DecInt", "HexInt", "BinInt"}
    BY <1>4, <2>1
  <2>4. kind \in Kinds /\ kind # "Error"
    BY <1>5, <2>3
  <2> QED
    BY <1>2, <1>4, <2>2, <2>4, EmitWithin
<1> QED
  BY <1>6, <1>7

\* The second character of a symbol is one of the source.
LEMMA SymbolTyped ==
  ASSUME Typed, Symbol
  PROVE  Typed' /\ mode' # "panicked"
<1>1. source \in Sources /\ cur \in Nat /\ Len(source) \in Nat
  BY TypedFacts
<1>2. PICK next : next = IF Peek \in DOMAIN Pairs /\ PeekAhead(1) \in Pairs[Peek] THEN cur + 2 ELSE cur + 1
  OBVIOUS
<1>3. /\ Scanning /\ line' = line /\ caller' = caller /\ Emit("Symbol", next)
      /\ CharAt(cur) \in {"(", "/", "*"} \cup DOMAIN Pairs
  BY <1>2 DEF Symbol, InLine, Peek
<1>4. CharAt(cur) # "end" /\ (next = cur + 2 => CharAt(cur + 1) # "end")
  BY <1>1, <1>2, <1>3 DEF Pairs, Peek, PeekAhead
<1>5. cur < Len(source) /\ (next = cur + 2 => cur + 1 < Len(source))
  BY <1>1, <1>4, CharWithin
<1>6. next \in Nat /\ cur < next /\ next <= Len(source)
  BY <1>1, <1>2, <1>5
<1>7. "Symbol" \in Kinds /\ "Symbol" # "Error"
  BY DEF Kinds
<1> QED
  BY <1>3, <1>6, <1>7, EmitWithin

\* A newline is a token of one character on a new line.
LEMMA NewlineTyped ==
  ASSUME Typed, Newline
  PROVE  Typed' /\ mode' # "panicked"
<1>1. source \in Sources /\ cur \in Nat /\ Len(source) \in Nat
  BY TypedFacts
<1>2. PICK next \in Nat : next = cur + 1
  BY <1>1
<1>3. Scanning /\ line' = line + 1 /\ caller' = caller /\ Emit("Newline", next) /\ CharAt(cur) = "newline"
  BY <1>2 DEF Newline, Peek
<1>4. cur < Len(source)
  BY <1>1, <1>3, CharWithin
<1>5. cur < next /\ next <= Len(source)
  BY <1>1, <1>2, <1>4
<1>6. "Newline" \in Kinds /\ "Newline" # "Error"
  BY DEF Kinds
<1> QED
  BY <1>3, <1>5, <1>6, EmitWithin

\* What the lexer panics at: the source ends within a character, behind a
\* backslash in a string, or in a comment behind a backslash.
OpenEnd(at) ==
    \/ CharAt(at) = "'" /\ Last(source) \in {"'", "backslash"}
    \/ CharAt(at) = "quote" /\ Last(source) = "backslash"
    \/ CharAt(at) = "backslash" /\ OpenComment(at)

\* The last character of a source.
LEMMA LastChar ==
  ASSUME source \in Sources, NEW i \in Nat, i + 1 = Len(source)
  PROVE  Last(source) = CharAt(i)
BY SourceWell, CharWithin DEF Last

\* An error, which may be cut off by the end of the source.
LEMMA ErrorTyped ==
  ASSUME Typed, source' = source, start' = start, caller = "token", caller' = "token", line' = line,
         NEW next \in Nat, NEW error, error # "none", EmitError(next, error),
         cur <= next, start < next
  PROVE  Typed' /\ (mode' = "panicked" => next > Len(source))
<1>1. source \in Sources /\ cur \in Nat /\ start \in Nat /\ Len(source) \in Nat /\ line \in Nat
        /\ line >= 1 /\ line <= cur + 1 /\ line <= Len(source) + 1 /\ start <= Len(source) + 2
  BY TypedFacts
<1>2. EmitSlice("Error", start, next, next, error)
  BY DEF EmitError
<1>3. "Error" \in Kinds /\ ((error # "none") <=> ("Error" = "Error"))
  BY DEF Kinds, Spelled
<1>4. InRange(start, next) <=> next <= Len(source)
  BY <1>1 DEF InRange
<1>5. start' \in 0..(Len(source) + 2) /\ line' \in 1..(Len(source) + 1)
  BY <1>1
<1>6. "Error" \in Spelled => line' <= cur + 1
  BY <1>1
<1>7. ("Error" \in Spelled => InRange(start, next)) => next <= Len(source) + 2 /\ line' <= next + 1
  BY <1>1, <1>4 DEF Spelled
<1>8. Typed' /\ (mode' = "panicked" => "Error" \in Spelled /\ ~InRange(start, next))
  BY <1>1, <1>2, <1>3, <1>5, <1>6, <1>7, EmittedTyped
<1> QED
  BY <1>1, <1>4, <1>8

\* What starts no token is an error of one character.
LEMMA UnexpectedTyped ==
  ASSUME Typed, Unexpected
  PROVE  Typed' /\ mode' # "panicked"
<1>1. source \in Sources /\ cur \in Nat /\ Len(source) \in Nat
  BY TypedFacts
<1>2. PICK next \in Nat : next = cur + 1
  BY <1>1
<1>3. /\ Scanning /\ line' = line /\ caller' = caller /\ EmitError(next, "UnexpectedChar")
      /\ CharAt(cur) \in {"#", "lead", "tail"}
  BY <1>2 DEF Unexpected, InLine, Peek
<1>4. start = cur /\ caller = "token" /\ source' = source /\ start' = start /\ caller' = "token"
  BY <1>3, ScanningFacts
<1>5. cur < Len(source)
  BY <1>1, <1>3, CharWithin
<1>6. cur <= next /\ start < next /\ next <= Len(source) /\ "UnexpectedChar" # "none"
  BY <1>1, <1>2, <1>4, <1>5
<1>7. Typed' /\ (mode' = "panicked" => next > Len(source))
  BY <1>3, <1>4, <1>6, ErrorTyped
<1> QED
  BY <1>1, <1>6, <1>7

\* A character looks up to three bytes ahead, so that it is sliced out of range.
LEMMA CharLiteralTyped ==
  ASSUME Typed, CharLiteral
  PROVE  Typed' /\ (mode' = "panicked" => OpenEnd(start) /\ start' = start)
<1>1. source \in Sources /\ cur \in Nat /\ Len(source) \in Nat
  BY TypedFacts
<1>2. Scanning /\ line' = line /\ caller' = caller /\ CharAt(cur) = "'"
  BY DEF CharLiteral, InLine, Peek
<1>3. start = cur /\ caller = "token" /\ source' = source /\ start' = start /\ caller' = "token"
  BY <1>2, ScanningFacts
<1>4. "Char" \in Kinds /\ "Char" # "Error" /\ "UnterminatedChar" # "none"
  BY DEF Kinds, Spelled, Literals
<1>5. cur < Len(source)
  BY <1>1, <1>2, CharWithin
<1>6. CASE CharAt(cur + 2) = "'"
  <2>1. PICK next \in Nat : next = cur + 3
    BY <1>1
  <2>2. Emit("Char", next)
    BY <1>6, <2>1 DEF CharLiteral, PeekAhead
  <2>3. cur + 2 < Len(source)
    BY <1>1, <1>6, CharWithin
  <2>4. cur < next /\ next <= Len(source)
    BY <1>1, <2>1, <2>3
  <2> QED
    BY <1>2, <1>4, <2>2, <2>4, EmitWithin
<1>7. CASE CharAt(cur + 2) # "'" /\ CharAt(cur + 1) # "backslash"
  <2>1. PICK next \in Nat : next = cur + 2
    BY <1>1
  <2>2. EmitError(next, "UnterminatedChar")
    BY <1>7, <2>1 DEF CharLiteral, PeekAhead
  <2>3. cur <= next /\ start < next
    BY <1>1, <1>3, <2>1
  <2>4. Typed' /\ (mode' = "panicked" => next > Len(source))
    BY <1>2, <1>3, <1>4, <2>2, <2>3, ErrorTyped
  <2>5. next > Len(source) => Last(source) = "'"
    <3>1. next > Len(source) => cur + 1 = Len(source)
      BY <1>1, <1>5, <2>1
    <3> QED
      BY <1>1, <1>2, <3>1, LastChar
  <2> QED
    BY <1>2, <1>3, <2>4, <2>5 DEF OpenEnd
<1>8. CASE CharAt(cur + 2) # "'" /\ CharAt(cur + 1) = "backslash" /\ CharAt(cur + 3) = "'"
  <2>1. PICK next \in Nat : next = cur + 4
    BY <1>1
  <2>2. Emit("Char", next)
    BY <1>8, <2>1 DEF CharLiteral, PeekAhead
  <2>3. cur + 3 < Len(source)
    BY <1>1, <1>8, CharWithin
  <2>4. cur < next /\ next <= Len(source)
    BY <1>1, <2>1, <2>3
  <2> QED
    BY <1>2, <1>4, <2>2, <2>4, EmitWithin
<1>9. CASE CharAt(cur + 2) # "'" /\ CharAt(cur + 1) = "backslash" /\ CharAt(cur + 3) # "'"
  <2>1. PICK next \in Nat : next = cur + 3
    BY <1>1
  <2>2. EmitError(next, "UnterminatedChar")
    BY <1>9, <2>1 DEF CharLiteral, PeekAhead
  <2>3. cur <= next /\ start < next
    BY <1>1, <1>3, <2>1
  <2>4. Typed' /\ (mode' = "panicked" => next > Len(source))
    BY <1>2, <1>3, <1>4, <2>2, <2>3, ErrorTyped
  <2>5. next > Len(source) => Last(source) = "backslash"
    <3>1. PICK i \in Nat : i = cur + 1
      BY <1>1
    <3>2. i < Len(source)
      BY <1>1, <1>9, <3>1, CharWithin
    <3>3. next > Len(source) => i + 1 = Len(source)
      BY <1>1, <2>1, <3>1, <3>2
    <3> QED
      BY <1>1, <1>9, <3>1, <3>3, LastChar
  <2> QED
    BY <1>2, <1>3, <2>4, <2>5 DEF OpenEnd
<1> QED
  BY <1>6, <1>7, <1>8, <1>9

\* A step within a string that does not end it.
LEMMA InStringTyped ==
  ASSUME Typed, source' = source, start' = start, caller' = caller, caller = "token", tokens' = tokens,
         mode' \in {"string", "triple"}, NEW next \in Nat, cur' = next, cur < next, start < next,
         line' = line \/ (line' = line + 1 /\ cur < Len(source)),
         mode' = "string" => /\ CharAt(start) = "quote"
                             /\ next <= Len(source)
                                  \/ (next = Len(source) + 1 /\ CharAt(next - 2) = "backslash"),
         mode' = "triple" => next <= Len(source) /\ Substring(start, ThreeQuotes)
  PROVE  Typed'
<1>1. /\ source \in Sources /\ cur \in Nat /\ start \in Nat /\ Len(source) \in Nat /\ line \in Nat
      /\ line >= 1 /\ line <= cur + 1 /\ line <= Len(source) + 1 /\ start <= Len(source) + 2 /\ TokensWell
  BY TypedFacts
<1>2. cur' \in Nat /\ cur' >= cur
  BY <1>1
<1>3. TokensWell'
  BY <1>1, <1>2, NoMore
<1>4. next <= Len(source) + 2
  BY <1>1
<1>5. Placed'
  BY <1>1, <1>4 DEF Placed
<1>6. BehindBackslash'
  BY DEF BehindBackslash
<1>7. InStrings'
  <2>1. PICK s : s = start /\ s = start'
    OBVIOUS
  <2>2. PICK c : c = next - 2
    OBVIOUS
  <2>3. CharAt(s)' = CharAt(s) /\ CharAt(c)' = CharAt(c)
          /\ (Substring(s, ThreeQuotes)' <=> Substring(s, ThreeQuotes))
    <3>1. ThreeQuotes' = ThreeQuotes
      OBVIOUS
    <3>2. PICK q : q = ThreeQuotes
      OBVIOUS
    <3>3. Substring(s, q)' <=> Substring(s, q)
      BY SourceStays
    <3> QED
      BY <3>2, <3>3, SourceStays DEF Substring
  <2>4. CharAt(start)' = CharAt(start)
    BY <2>1, <2>3 DEF CharAt
  <2>5. CharAt(cur - 2)' = CharAt(next - 2)
    BY <2>2, <2>3 DEF CharAt
  <2>6. Substring(start, ThreeQuotes)' <=> Substring(start, ThreeQuotes)
    BY <2>1, <2>3 DEF Substring
  <2> QED
    BY <1>1, <2>4, <2>5, <2>6 DEF InStrings
<1> QED
  BY <1>1, <1>3, <1>5, <1>6, <1>7 DEF Typed

\* A string begins behind its first quote.
LEMMA OpenStringTyped ==
  ASSUME Typed, OpenString
  PROVE  Typed' /\ mode' # "panicked"
<1>1. source \in Sources /\ cur \in Nat /\ Len(source) \in Nat
  BY TypedFacts
<1>2. PICK next \in Nat : next = cur + 1
  BY <1>1
<1>3. /\ Scanning /\ line' = line /\ caller' = caller /\ CharAt(cur) = "quote" /\ cur' = next
      /\ mode' = (IF Substring(next, <<"quote", "quote">>) THEN "triple" ELSE "string")
      /\ tokens' = tokens
  BY <1>2 DEF OpenString, InLine, Peek
<1>4. start = cur /\ caller = "token" /\ source' = source /\ start' = start
  BY <1>3, ScanningFacts
<1>5. cur < Len(source)
  BY <1>1, <1>3, CharWithin
<1>6. next <= Len(source) /\ cur < next /\ start < next
  BY <1>1, <1>2, <1>4, <1>5
<1>7. mode' \in {"string", "triple"} /\ mode' # "panicked"
  BY <1>3
<1>8. mode' = "triple" => Substring(start, ThreeQuotes)
  <2>1. SUFFICES ASSUME Substring(next, <<"quote", "quote">>) PROVE Substring(start, ThreeQuotes)
    BY <1>3
  <2>2. CharAt(next) = "quote" /\ CharAt(next + 1) = "quote"
    BY <1>1, <2>1, TwoChars DEF Chars, Others
  <2> QED
    BY <1>1, <1>2, <1>3, <1>4, <2>2, ThreeChars
<1>9. /\ mode' = "string" => /\ CharAt(start) = "quote"
                             /\ next <= Len(source)
                                  \/ (next = Len(source) + 1 /\ CharAt(next - 2) = "backslash")
      /\ mode' = "triple" => next <= Len(source) /\ Substring(start, ThreeQuotes)
  BY <1>3, <1>4, <1>6, <1>8
<1> QED
  BY <1>3, <1>4, <1>6, <1>7, <1>9, InStringTyped

\* What holds within a string.
LEMMA InStringFacts ==
  ASSUME Typed, mode \in {"string", "triple"}
  PROVE  /\ caller = "token" /\ start < cur
         /\ mode = "string" =>
               /\ CharAt(start) = "quote"
               /\ cur <= Len(source) \/ (cur = Len(source) + 1 /\ CharAt(cur - 2) = "backslash")
         /\ mode = "triple" => cur <= Len(source) /\ Substring(start, ThreeQuotes)
BY DEF Typed, Placed, InStrings

\* An escape at the end of the source takes a string past it.
LEMMA StringCharTyped ==
  ASSUME Typed, StringChar
  PROVE  Typed' /\ mode' # "panicked"
<1>1. source \in Sources /\ cur \in Nat /\ Len(source) \in Nat /\ start \in Nat
  BY TypedFacts
<1>2. PICK next \in Nat : next = IF CharAt(cur) = "backslash" THEN cur + 2 ELSE cur + 1
  BY <1>1
<1>3. /\ mode = "string" /\ mode' = mode /\ source' = source /\ caller' = caller /\ start' = start
      /\ line' = line /\ tokens' = tokens /\ cur' = next /\ cur < Len(source)
  BY <1>1, <1>2 DEF StringChar, InString, Peek, AtEnd
<1>4. caller = "token" /\ start < cur /\ CharAt(start) = "quote"
  BY <1>3, InStringFacts
<1>5. next <= Len(source) \/ (next = Len(source) + 1 /\ CharAt(next - 2) = "backslash")
  BY <1>1, <1>2, <1>3
<1>6. cur < next /\ start < next
  BY <1>1, <1>2, <1>4
<1>7. /\ mode' = "string" => /\ CharAt(start) = "quote"
                             /\ next <= Len(source)
                                  \/ (next = Len(source) + 1 /\ CharAt(next - 2) = "backslash")
      /\ mode' = "triple" => next <= Len(source) /\ Substring(start, ThreeQuotes)
  BY <1>3, <1>4, <1>5
<1>8. mode' \in {"string", "triple"} /\ mode' # "panicked"
  BY <1>3
<1> QED
  BY <1>3, <1>4, <1>6, <1>7, <1>8, InStringTyped

\* A token that ends a string, or a line that a backslash began.
LEMMA EmitInside ==
  ASSUME Typed, source' = source, start' = start, caller = "token", caller' = "token", line' = line,
         NEW kind \in Kinds, kind # "Error", NEW next \in Nat, Emit(kind, next),
         cur < next, start < next, next <= Len(source)
  PROVE  Typed' /\ mode' # "panicked"
<1>1. /\ source \in Sources /\ cur \in Nat /\ start \in Nat /\ Len(source) \in Nat /\ line \in Nat
      /\ line >= 1 /\ line <= cur + 1 /\ line <= Len(source) + 1 /\ start <= Len(source) + 2
  BY TypedFacts
<1>2. EmitSlice(kind, start, next, next, "none")
  BY DEF Emit
<1>3. start' \in 0..(Len(source) + 2) /\ line' \in 1..(Len(source) + 1)
  BY <1>1
<1>4. (("none" # "none") <=> (kind = "Error")) /\ (kind \in Spelled => line' <= cur + 1)
  BY <1>1
<1>5. InRange(start, next) /\ next >= cur
  BY <1>1 DEF InRange
<1>6. next <= Len(source) + 2 /\ line' <= next + 1
  BY <1>1
<1>7. Typed' /\ (mode' = "panicked" => kind \in Spelled /\ ~InRange(start, next))
  BY <1>2, <1>3, <1>4, <1>5, <1>6, EmittedTyped
<1> QED
  BY <1>5, <1>7

\* That is where the slice of a string is out of range.
LEMMA CloseStringTyped ==
  ASSUME Typed, CloseString
  PROVE  Typed' /\ (mode' = "panicked" => OpenEnd(start) /\ start' = start)
<1>1. source \in Sources /\ cur \in Nat /\ Len(source) \in Nat /\ start \in Nat
  BY TypedFacts
<1>2. mode = "string" /\ source' = source /\ caller' = caller /\ start' = start /\ line' = line
  BY DEF CloseString, InString
<1>3. /\ caller = "token" /\ caller' = "token" /\ start < cur /\ CharAt(start) = "quote"
      /\ cur <= Len(source) \/ (cur = Len(source) + 1 /\ CharAt(cur - 2) = "backslash")
  BY <1>2, InStringFacts
<1>4. CASE CharAt(cur) = "quote"
  <2>1. PICK next \in Nat : next = cur + 1
    BY <1>1
  <2>2. Emit("String", next)
    BY <1>4, <2>1 DEF CloseString, Peek
  <2>3. cur < Len(source)
    BY <1>1, <1>4, CharWithin
  <2>4. cur < next /\ start < next /\ next <= Len(source)
    BY <1>1, <1>3, <2>1, <2>3
  <2>5. "String" \in Kinds /\ "String" # "Error"
    BY DEF Kinds, Spelled, Literals
  <2> QED
    BY <1>2, <1>3, <2>2, <2>4, <2>5, EmitInside
<1>5. CASE CharAt(cur) # "quote"
  <2>1. PICK next \in Nat : next = cur
    BY <1>1
  <2>2. EmitError(next, "UnterminatedString")
    BY <1>5, <2>1 DEF CloseString, Peek
  <2>3. cur <= next /\ start < next /\ "UnterminatedString" # "none"
    BY <1>1, <1>3, <2>1
  <2>4. Typed' /\ (mode' = "panicked" => next > Len(source))
    BY <1>2, <1>3, <2>2, <2>3, ErrorTyped
  <2>5. next > Len(source) => Last(source) = "backslash"
    <3>1. SUFFICES ASSUME next > Len(source) PROVE Last(source) = "backslash"
      OBVIOUS
    <3>2. cur = Len(source) + 1 /\ CharAt(cur - 2) = "backslash"
      BY <1>1, <1>3, <2>1, <3>1
    <3>3. CASE cur = 1
      <4>1. start = 0 /\ Len(source) = 0
        BY <1>1, <1>3, <3>2, <3>3
      <4>2. CharAt(0) = "end"
        BY <1>1, <4>1, CharWithin
      <4> QED
        BY <1>3, <4>1, <4>2
    <3>4. CASE cur # 1
      <4>1. cur - 2 \in Nat /\ (cur - 2) + 1 = Len(source)
        BY <1>1, <3>2, <3>4
      <4> QED
        BY <1>1, <3>2, <4>1, LastChar
    <3> QED
      BY <3>3, <3>4
  <2> QED
    BY <1>2, <1>3, <2>4, <2>5 DEF OpenEnd
<1> QED
  BY <1>4, <1>5

\* A string on many lines never passes the end.
LEMMA TripleCharTyped ==
  ASSUME Typed, TripleChar
  PROVE  Typed' /\ mode' # "panicked"
<1>1. source \in Sources /\ cur \in Nat /\ Len(source) \in Nat /\ start \in Nat
  BY TypedFacts
<1>2. PICK next \in Nat : next = IF CharAt(cur + 1) = "backslash" THEN cur + 2 ELSE cur + 1
  BY <1>1
<1>3. /\ mode = "triple" /\ mode' = mode /\ source' = source /\ caller' = caller /\ start' = start
      /\ tokens' = tokens /\ cur' = next /\ cur < Len(source)
      /\ line' = line \/ line' = line + 1
  BY <1>1, <1>2 DEF TripleChar, InString, AtEnd, PeekAhead, CountLine
<1>4. caller = "token" /\ start < cur /\ Substring(start, ThreeQuotes)
  BY <1>3, InStringFacts
<1>5. next <= Len(source)
  <2>1. CharAt(cur + 1) = "backslash" => cur + 1 < Len(source)
    BY <1>1, CharWithin
  <2> QED
    BY <1>1, <1>2, <1>3, <2>1
<1>6. cur < next /\ start < next
  BY <1>1, <1>2, <1>4
<1>7. /\ mode' = "string" => /\ CharAt(start) = "quote"
                             /\ next <= Len(source)
                                  \/ (next = Len(source) + 1 /\ CharAt(next - 2) = "backslash")
      /\ mode' = "triple" => next <= Len(source) /\ Substring(start, ThreeQuotes)
  BY <1>3, <1>4, <1>5
<1>8. mode' \in {"string", "triple"} /\ mode' # "panicked"
      /\ (line' = line \/ (line' = line + 1 /\ cur < Len(source)))
  BY <1>3
<1> QED
  BY <1>3, <1>4, <1>6, <1>7, <1>8, InStringTyped

\* So it is never sliced out of range, also where its ends overlap.
LEMMA CloseTripleTyped ==
  ASSUME Typed, CloseTriple
  PROVE  Typed' /\ mode' # "panicked"
<1>1. /\ source \in Sources /\ cur \in Nat /\ start \in Nat /\ Len(source) \in Nat /\ line \in Nat
      /\ line >= 1 /\ line <= cur + 1 /\ line <= Len(source) + 1 /\ start <= Len(source) + 2
  BY TypedFacts
<1>2. mode = "triple" /\ source' = source /\ caller' = caller /\ line' = line
  BY DEF CloseTriple, InString
<1>3. caller = "token" /\ caller' = "token" /\ start < cur /\ cur <= Len(source)
  BY <1>2, InStringFacts
<1>4. CASE /\ Substring(cur, ThreeQuotes) /\ start' = start + 2
           /\ EmitSlice("String", start + 2, cur + 1, cur + 3, "none")
  <2>1. PICK from, to, next : from = start + 2 /\ to = cur + 1 /\ next = cur + 3 /\ next \in Nat
    BY <1>1
  <2>2. EmitSlice("String", from, to, next, "none")
    BY <1>4, <2>1
  <2>3. CharAt(cur + 2) = "quote"
    BY <1>1, <1>4, ThreeChars
  <2>4. cur + 2 < Len(source)
    BY <1>1, <2>3, CharWithin
  <2>5. /\ start' \in 0..(Len(source) + 2) /\ line' \in 1..(Len(source) + 1)
        /\ next >= cur /\ start < next /\ next <= Len(source) + 2 /\ line' <= next + 1
        /\ line' <= cur + 1
    BY <1>1, <1>2, <1>3, <1>4, <2>1, <2>4
  <2>6. InRange(from, to)
    BY <1>1, <1>3, <2>1, <2>4 DEF InRange
  <2>7. "String" \in Kinds /\ (("none" # "none") <=> ("String" = "Error"))
    BY DEF Kinds, Spelled, Literals
  <2>8. Typed' /\ (mode' = "panicked" => "String" \in Spelled /\ ~InRange(from, to))
    BY <1>2, <1>3, <2>1, <2>2, <2>5, <2>7, EmittedTyped
  <2> QED
    BY <2>6, <2>8
<1>5. CASE AtEnd /\ EmitError(EndOfOpenTriple, "UnterminatedString") /\ start' = start
  <2>1. PICK next \in Nat : next = cur
    BY <1>1
  <2>2. EmitError(next, "UnterminatedString")
    BY <1>5, <2>1 DEF EndOfOpenTriple
  <2>3. cur <= next /\ start < next /\ "UnterminatedString" # "none" /\ next <= Len(source)
    BY <1>1, <1>3, <2>1
  <2>4. Typed' /\ (mode' = "panicked" => next > Len(source))
    BY <1>2, <1>3, <1>5, <2>2, <2>3, ErrorTyped
  <2> QED
    BY <1>1, <2>3, <2>4
<1> QED
  BY <1>4, <1>5 DEF CloseTriple

\* A step behind a backslash that does not emit a token.
LEMMA JoiningTyped ==
  ASSUME Typed, source' = source, start' = start, tokens' = tokens,
         mode' = "skip", caller' \in {"token", "backslash"}, NEW next \in Nat, cur' = next, cur < next,
         next <= Len(source), caller' = "backslash" => start < next /\ CharAt(start) = "backslash",
         line' = line \/ line' = line + 1
  PROVE  Typed'
<1>1. /\ source \in Sources /\ cur \in Nat /\ start \in Nat /\ Len(source) \in Nat /\ line \in Nat
      /\ line >= 1 /\ line <= cur + 1 /\ line <= Len(source) + 1 /\ start <= Len(source) + 2 /\ TokensWell
  BY TypedFacts
<1>2. cur' \in Nat /\ cur' >= cur
  BY <1>1
<1>3. TokensWell'
  BY <1>1, <1>2, NoMore
<1>4. cur' \in 0..(Len(source) + 2) /\ line' \in 1..(Len(source) + 1) /\ line' <= cur' + 1
  BY <1>1
<1>5. Placed'
  BY <1>1, <1>4 DEF Placed
<1>6. CharAt(start)' = CharAt(start)
  BY DEF CharAt
<1>7. ~(cur' > Len(source)')
  BY <1>1
<1>8. BehindBackslash'
  BY <1>6, <1>7 DEF BehindBackslash
<1>9. InStrings'
  BY DEF InStrings
<1> QED
  BY <1>1, <1>3, <1>5, <1>8, <1>9 DEF Typed

\* A backslash is where its token starts.
LEMMA BackslashTyped ==
  ASSUME Typed, Backslash
  PROVE  Typed' /\ mode' # "panicked"
<1>1. source \in Sources /\ cur \in Nat /\ Len(source) \in Nat
  BY TypedFacts
<1>2. PICK next \in Nat : next = cur + 1
  BY <1>1
<1>3. /\ Scanning /\ line' = line /\ tokens' = tokens /\ CharAt(cur) = "backslash"
      /\ cur' = next /\ mode' = "skip" /\ caller' = "backslash"
  BY <1>2 DEF Backslash, Peek
<1>4. start = cur /\ source' = source /\ start' = start
  BY <1>3, ScanningFacts
<1>5. cur < Len(source)
  BY <1>1, <1>3, CharWithin
<1>6. cur < next /\ next <= Len(source) /\ start < next /\ CharAt(start) = "backslash"
  BY <1>1, <1>2, <1>3, <1>4, <1>5
<1>7. caller' \in {"token", "backslash"}
  BY <1>3
<1>8. Typed'
  BY <1>3, <1>4, <1>6, <1>7, JoiningTyped
<1> QED
  BY <1>3, <1>8

\* What holds behind a backslash.
LEMMA JoiningFacts ==
  ASSUME Typed, Joining
  PROVE  /\ source' = source /\ start' = start /\ caller' = caller /\ caller = "token"
         /\ start < cur /\ CharAt(start) = "backslash" /\ (cur > Len(source) => OpenComment(start))
BY DEF Typed, Placed, BehindBackslash, Joining

\* The newline behind it is one character of the source.
LEMMA JoinLinesTyped ==
  ASSUME Typed, JoinLines
  PROVE  Typed' /\ mode' # "panicked"
<1>1. source \in Sources /\ cur \in Nat /\ Len(source) \in Nat
  BY TypedFacts
<1>2. PICK next \in Nat : next = cur + 1
  BY <1>1
<1>3. /\ Joining /\ CharAt(cur) = "newline" /\ cur' = next /\ line' = line + 1 /\ mode' = "skip"
      /\ tokens' = tokens
  BY <1>2 DEF JoinLines, Peek
<1>4. source' = source /\ start' = start /\ caller' = caller /\ caller = "token"
  BY <1>3, JoiningFacts
<1>5. cur < Len(source)
  BY <1>1, <1>3, CharWithin
<1>6. cur < next /\ next <= Len(source)
  BY <1>1, <1>2, <1>5
<1>7. /\ caller' \in {"token", "backslash"}
      /\ (caller' = "backslash" => start < next /\ CharAt(start) = "backslash")
  BY <1>4
<1>8. Typed'
  BY <1>3, <1>4, <1>6, <1>7, JoiningTyped
<1> QED
  BY <1>3, <1>8

\* An error behind it is out of range only where a comment is open.
LEMMA StrayBackslashTyped ==
  ASSUME Typed, StrayBackslash
  PROVE  Typed' /\ (mode' = "panicked" => OpenEnd(start) /\ start' = start)
<1>1. /\ source \in Sources /\ cur \in Nat /\ start \in Nat /\ Len(source) \in Nat /\ line \in Nat
      /\ line >= 1 /\ line <= cur + 1 /\ line <= Len(source) + 1 /\ start <= Len(source) + 2
  BY TypedFacts
<1>2. PICK rest : rest = Until(cur, LAMBDA k : CharAt(k) = "newline")
  OBVIOUS
<1>3. PICK next : next = IF rest < Len(source) THEN rest + 1 ELSE rest
  OBVIOUS
<1>4. /\ Joining /\ line' = line /\ CharAt(cur) # "newline"
      /\ EmitSlice("Error", start, cur, next, "UnexpectedChar")
  BY <1>2, <1>3 DEF StrayBackslash, Peek
<1>5. /\ source' = source /\ start' = start /\ caller' = caller /\ caller = "token" /\ caller' = "token"
      /\ start < cur /\ CharAt(start) = "backslash" /\ (cur > Len(source) => OpenComment(start))
  BY <1>4, JoiningFacts
<1>6. Stops(cur, rest, {k \in Nat : CharAt(k) = "newline"})
  BY <1>1, <1>2, UntilNewline
<1>7. rest \in Nat /\ cur <= rest /\ (cur <= Len(source) => rest <= Len(source))
  BY <1>6 DEF Stops
<1>8. next \in Nat /\ next >= cur /\ start < next /\ (cur <= Len(source) => next <= Len(source))
  BY <1>1, <1>3, <1>5, <1>7
<1>9. InRange(start, cur) <=> cur <= Len(source)
  BY <1>1, <1>5 DEF InRange
<1>10. "Error" \in Kinds /\ "Error" \in Spelled /\ (("UnexpectedChar" # "none") <=> ("Error" = "Error"))
  BY DEF Kinds, Spelled
<1>11. /\ start' \in 0..(Len(source) + 2) /\ line' \in 1..(Len(source) + 1) /\ line' <= cur + 1
       /\ (InRange(start, cur) => next <= Len(source) + 2 /\ line' <= next + 1)
  BY <1>1, <1>4, <1>5, <1>8, <1>9
<1>12. Typed' /\ (mode' = "panicked" => "Error" \in Spelled /\ ~InRange(start, cur))
  BY <1>4, <1>5, <1>8, <1>10, <1>11, EmittedTyped
<1> QED
  BY <1>1, <1>5, <1>9, <1>12 DEF OpenEnd

\* Every step keeps the types, and panics nowhere but at an open end.
LEMMA NextTyped ==
  ASSUME Typed, Next
  PROVE  Typed' /\ (mode' = "panicked" => OpenEnd(start) /\ start' = start)
<1>1. CASE SkipBlank \/ SkipLineComment \/ SkipBlockComment \/ SkipReturns
  BY <1>1, SkipBlankTyped, SkipLineCommentTyped, SkipBlockCommentTyped, SkipReturnsTyped
<1>2. CASE EndOfSource \/ Identifier \/ Number \/ Symbol
  BY <1>2, EndOfSourceTyped, IdentifierTyped, NumberTyped, SymbolTyped
<1>3. CASE Newline \/ Unexpected \/ CharLiteral
  BY <1>3, NewlineTyped, UnexpectedTyped, CharLiteralTyped
<1>4. CASE OpenString \/ StringChar \/ CloseString \/ TripleChar \/ CloseTriple
  BY <1>4, OpenStringTyped, StringCharTyped, CloseStringTyped, TripleCharTyped, CloseTripleTyped
<1>5. CASE Backslash \/ JoinLines \/ StrayBackslash
  BY <1>5, BackslashTyped, JoinLinesTyped, StrayBackslashTyped
<1> QED
  BY <1>1, <1>2, <1>3, <1>4, <1>5 DEF Next

\* A step that does nothing keeps everything.
LEMMA StutterTyped ==
  ASSUME Typed, UNCHANGED vars
  PROVE  Typed'
BY DEF vars, Typed, Placed, BehindBackslash, InStrings, TokensWell, TokensNamed, TokensPlaced,
       CharAt, Substring, OpenComment

\* And at a panic the source has an open end.
PanicsOpen == mode = "panicked" => OpenEnd(start)

\* It is one of the ends that the property names.
LEMMA OpenEndIsOne ==
  ASSUME OpenEnd(start)
  PROVE  CASE CharAt(start) = "'" -> Last(source) \in {"'", "backslash"}
           [] CharAt(start) = "quote" -> Last(source) = "backslash"
           [] CharAt(start) = "backslash" ->
                \E i \in start..Len(source) :
                   /\ Substring(i, <<"/", "*">>)
                   /\ \A j \in (i + 1)..Len(source) : ~Substring(j, <<"*", "/">>)
           [] OTHER -> FALSE
<1>1. CASE CharAt(start) = "'" /\ Last(source) \in {"'", "backslash"}
  BY <1>1
<1>2. CASE CharAt(start) = "quote" /\ Last(source) = "backslash"
  BY <1>2
<1>3. CASE CharAt(start) = "backslash" /\ OpenComment(start)
  BY <1>3 DEF OpenComment
<1> QED
  BY <1>1, <1>2, <1>3 DEF OpenEnd

\* Every step keeps to that.
LEMMA NextPanicsOpen ==
  ASSUME Typed, PanicsOpen, [Next]_vars
  PROVE  PanicsOpen'
<1>1. CASE Next
  <2>1. SUFFICES ASSUME mode' = "panicked" PROVE OpenEnd(start)'
    BY DEF PanicsOpen
  <2>2. OpenEnd(start) /\ start' = start
    BY <1>1, <2>1, NextTyped
  <2>3. source' = source
    BY <1>1 DEF Next, SkipBlank, SkipLineComment, SkipBlockComment, SkipReturns, EndOfSource,
       Identifier, Number, Symbol, Newline, Unexpected, CharLiteral, OpenString, StringChar,
       CloseString, TripleChar, CloseTriple, Backslash, JoinLines, StrayBackslash,
       Skipping, Scanning, InString, Joining
  <2> QED
    BY <2>2, <2>3 DEF OpenEnd, OpenComment, CharAt, Substring
<1>2. CASE UNCHANGED vars
  BY <1>2 DEF vars, PanicsOpen, OpenEnd, OpenComment, CharAt, Substring
<1> QED
  BY <1>1, <1>2

(***************************************************************************)
(* The theorems about the types and about the panics.                      *)
(***************************************************************************)
\* What the two theorems below follow from holds in every state.
THEOREM TypedAlways == Spec => [](Typed /\ PanicsOpen)
<1>1. ASSUME Init PROVE Typed /\ PanicsOpen
  BY <1>1, InitTyped DEF Init, PanicsOpen
<1>2. ASSUME Typed /\ PanicsOpen, [Next]_vars PROVE (Typed /\ PanicsOpen)'
  BY <1>2, NextTyped, StutterTyped, NextPanicsOpen
<1> QED
  BY <1>1, <1>2, PTL DEF Spec

\* The variables keep their types, for every set of sources: the cursor is never
\* more than two bytes past the source, although advance_cursor() does not look,
\* and a token is at least one byte and an error exactly if it says why.
THEOREM LexerTypesHold == Spec => []LexTypeOK
<1>1. ASSUME Typed PROVE LexTypeOK
  BY <1>1 DEF Typed, Placed, TokensWell, TokensNamed, TokensPlaced, Kinds, LexTypeOK
<1> QED
  BY <1>1, TypedAlways, PTL

\* The lexer slices its source out of range only where the source ends within a
\* character, a string or, behind a backslash, a comment.
THEOREM PanicsOnlyAtOpenEnds == Spec => []PanicsAtOpenEnd
<1>1. ASSUME PanicsOpen PROVE PanicsAtOpenEnd
  BY <1>1, OpenEndIsOne DEF PanicsOpen, PanicsAtOpenEnd
<1> QED
  BY <1>1, TypedAlways, PTL

(***************************************************************************)
(* The gaps between two tokens.                                            *)
(***************************************************************************)
\* What the pieces up to j reach, where g says it of the places before j.
Reached(g, from, j) ==
    {w \in {0, 1} :
        \/ j = from /\ w = 0
        \/ \E i \in from..(j - 1) : IsIgnored(i, j) /\ w \in g[i]
        \/ j > from /\ w = 1 /\ CharAt(j - 1) = "backslash" /\ 0 \in g[j - 1]
        \/ j > from /\ w = 0 /\ CharAt(j - 1) = "newline" /\ 1 \in g[j - 1]}

Gaps(from, to) == CHOOSE g : g = [j \in from..to |-> Reached(g, from, j)]

\* Only the places before j matter.
LEMMA ReachedBefore ==
  ASSUME NEW g, NEW h, NEW from \in Nat, NEW j \in Nat, from <= j,
         \A i \in from..(j - 1) : g[i] = h[i]
  PROVE  Reached(g, from, j) = Reached(h, from, j)
<1>1. ASSUME NEW w PROVE w \in Reached(g, from, j) <=> w \in Reached(h, from, j)
  <2>1. (\E i \in from..(j - 1) : IsIgnored(i, j) /\ w \in g[i])
          <=> (\E i \in from..(j - 1) : IsIgnored(i, j) /\ w \in h[i])
    OBVIOUS
  <2>2. j > from => j - 1 \in from..(j - 1)
    OBVIOUS
  <2>3. j > from => g[j - 1] = h[j - 1]
    BY <2>2
  <2> QED
    BY <2>1, <2>3 DEF Reached
<1> QED
  BY <1>1

\* There are such functions,
LEMMA GapsExist ==
  ASSUME NEW from \in Nat, NEW to \in Nat, from <= to
  PROVE  \E g : g = [j \in from..to |-> Reached(g, from, j)]
<1> DEFINE Some(n) == \E g : g = [j \in from..n |-> Reached(g, from, j)]
           Bad == {n \in Nat : n >= from /\ ~Some(n)}
<1>1. SUFFICES ASSUME Bad # {} PROVE FALSE
  OBVIOUS
<1>2. PICK n \in Bad : \A m \in Bad : n <= m
  <2>1. Bad \subseteq Nat
    OBVIOUS
  <2> HIDE DEF Bad
  <2> QED
    BY <1>1, <2>1, Least
<1>3. \E g : \A i \in from..(n - 1) : g[i] = Reached(g, from, i)
  <2>1. CASE n = from
    BY <2>1
  <2>2. CASE n # from
    <3>1. n - 1 \in Nat /\ n - 1 >= from /\ n - 1 \notin Bad
      BY <1>2, <2>2
    <3>2. PICK g : g = [j \in from..(n - 1) |-> Reached(g, from, j)]
      BY <3>1
    <3> QED
      BY <3>2
  <2> QED
    BY <2>1, <2>2
<1>4. PICK g : \A i \in from..(n - 1) : g[i] = Reached(g, from, i)
  BY <1>3
<1> DEFINE h == [j \in from..n |-> Reached(g, from, j)]
<1>5. \A i \in from..(n - 1) : h[i] = g[i]
  BY <1>4, <1>2
<1> HIDE DEF h
<1>6. ASSUME NEW j \in from..n PROVE Reached(g, from, j) = Reached(h, from, j)
  <2>1. j \in Nat /\ from <= j /\ \A i \in from..(j - 1) : g[i] = h[i]
    BY <1>2, <1>5
  <2> QED
    BY <2>1, ReachedBefore
<1>7. h = [j \in from..n |-> Reached(h, from, j)]
  BY <1>6 DEF h
<1> QED
  BY <1>2, <1>7

\* and the one that IsGap looks into is one of them.
LEMMA GapsAre ==
  ASSUME NEW from \in Nat, NEW to \in Nat, from <= to
  PROVE  \A j \in from..to : Gaps(from, to)[j] = Reached(Gaps(from, to), from, j)
<1>1. \E g : g = [j \in from..to |-> Reached(g, from, j)]
  BY GapsExist
<1>2. Gaps(from, to) = [j \in from..to |-> Reached(Gaps(from, to), from, j)]
  BY <1>1 DEF Gaps
<1> QED
  BY <1>2

\* It says the same of a place, however far it goes.
LEMMA GapsAgree ==
  ASSUME NEW from \in Nat, NEW to \in Nat, NEW j \in from..to
  PROVE  Gaps(from, to)[j] = Gaps(from, j)[j]
<1> DEFINE g == Gaps(from, to)
           h == Gaps(from, j)
           Bad == {i \in Nat : i \in from..j /\ g[i] # h[i]}
<1>1. j \in Nat /\ from <= j /\ j <= to
  OBVIOUS
<1>2. (\A i \in from..to : g[i] = Reached(g, from, i)) /\ (\A i \in from..j : h[i] = Reached(h, from, i))
  BY <1>1, GapsAre
<1> HIDE DEF g, h
<1>3. Bad = {}
  <2>1. SUFFICES ASSUME Bad # {} PROVE FALSE
    OBVIOUS
  <2>2. PICK n \in Bad : \A m \in Bad : n <= m
    <3>1. Bad \subseteq Nat
      OBVIOUS
    <3> HIDE DEF Bad
    <3> QED
      BY <2>1, <3>1, Least
  <2>3. n \in Nat /\ from <= n /\ n \in from..j /\ n \in from..to /\ g[n] # h[n]
    BY <1>1, <2>2
  <2>4. \A i \in from..(n - 1) : g[i] = h[i]
    BY <2>2, <2>3
  <2>5. Reached(g, from, n) = Reached(h, from, n)
    BY <2>3, <2>4, ReachedBefore
  <2> QED
    BY <1>2, <2>3, <2>5
<1>4. j \in from..j
  BY <1>1
<1>5. g[j] = h[j]
  BY <1>1, <1>3, <1>4
<1> QED
  BY <1>5 DEF g, h

\* IsGap, one piece at a time.
GapSteps(from, to, w) ==
    \/ to = from /\ w = 0
    \/ \E i \in from..(to - 1) : IsIgnored(i, to) /\ IsGap(from, i, w)
    \/ to > from /\ w = 1 /\ CharAt(to - 1) = "backslash" /\ IsGap(from, to - 1, 0)
    \/ to > from /\ w = 0 /\ CharAt(to - 1) = "newline" /\ IsGap(from, to - 1, 1)

\* The functions are all one, so IsGap is what it is of the places before.
LEMMA GapUnfolds ==
  ASSUME NEW from \in Nat, NEW to \in Nat, from <= to, NEW w \in {0, 1}
  PROVE  IsGap(from, to, w) <=> GapSteps(from, to, w)
<1>1. \A j, v : IsGap(from, j, v) <=> v \in Gaps(from, j)[j]
  BY DEF IsGap, Gaps, Reached
<1> DEFINE g == Gaps(from, to)
<1>2. \A j \in from..to : g[j] = Gaps(from, j)[j]
  BY GapsAgree
<1>3. to \in from..to
  OBVIOUS
<1>4. g[to] = Reached(g, from, to)
  BY <1>3, GapsAre
<1> HIDE DEF g
<1>5. \A j \in from..to : IsGap(from, j, 0) <=> 0 \in g[j]
  BY <1>1, <1>2
<1>6. \A j \in from..to : IsGap(from, j, 1) <=> 1 \in g[j]
  BY <1>1, <1>2
<1>7. \A j \in from..to : IsGap(from, j, w) <=> w \in g[j]
  BY <1>1, <1>2
<1>8. IsGap(from, to, w) <=> w \in Reached(g, from, to)
  BY <1>3, <1>4, <1>7
<1>9. to > from => to - 1 \in from..to
  OBVIOUS
<1>10. (\E i \in from..(to - 1) : IsIgnored(i, to) /\ w \in g[i])
         <=> (\E i \in from..(to - 1) : IsIgnored(i, to) /\ IsGap(from, i, w))
  BY <1>7
<1>11. to > from => (IsGap(from, to - 1, 0) <=> 0 \in g[to - 1])
                      /\ (IsGap(from, to - 1, 1) <=> 1 \in g[to - 1])
  BY <1>5, <1>6, <1>9
<1> QED
  BY <1>8, <1>10, <1>11 DEF Reached, GapSteps

\* So it says in every state, the next one too,
GapsUnfold ==
    \A from, to \in Nat : from <= to =>
        \A w \in {0, 1} : IsGap(from, to, w) <=> GapSteps(from, to, w)

\* In the next state as well.
LEMMA GapUnfoldsNext == GapsUnfold'
<1>1. GapsUnfold
  BY GapUnfolds DEF GapsUnfold
<1> QED
  BY <1>1, PTL

\* and a step does not change it.
LEMMA GapStays ==
  ASSUME source' = source, NEW from \in Nat, NEW to \in Nat, from <= to, NEW w \in {0, 1}
  PROVE  IsGap(from, to, w)' <=> IsGap(from, to, w)
<1> DEFINE Same(n) == \A v \in {0, 1} : IsGap(from, n, v)' <=> IsGap(from, n, v)
           Bad == {n \in Nat : n >= from /\ ~Same(n)}
<1>1. \A i, j : IsIgnored(i, j)' <=> IsIgnored(i, j)
  BY SourceStays DEF IsIgnored
<1>2. \A i : CharAt(i)' = CharAt(i)
  BY SourceStays
<1>3. \A n \in Nat : from <= n => \A v \in {0, 1} : IsGap(from, n, v) <=> GapSteps(from, n, v)
  BY GapUnfolds
<1>4. \A n \in Nat : from <= n => \A v \in {0, 1} : IsGap(from, n, v)' <=> GapSteps(from, n, v)'
  BY GapUnfoldsNext DEF GapsUnfold
<1>5. Bad = {}
  <2>1. SUFFICES ASSUME Bad # {} PROVE FALSE
    OBVIOUS
  <2>2. PICK n \in Bad : \A m \in Bad : n <= m
    <3>1. Bad \subseteq Nat
      OBVIOUS
    <3> HIDE DEF Bad
    <3> QED
      BY <2>1, <3>1, Least
  <2>3. n \in Nat /\ from <= n /\ ~Same(n)
    BY <2>2
  <2>4. \A i \in from..(n - 1) : Same(i)
    BY <2>2, <2>3
  <2>5. n > from => n - 1 \in from..(n - 1)
    BY <2>3
  <2>6. ASSUME NEW v \in {0, 1} PROVE GapSteps(from, n, v)' <=> GapSteps(from, n, v)
    <3>1. (\E i \in from..(n - 1) : IsIgnored(i, n)' /\ IsGap(from, i, v)')
            <=> (\E i \in from..(n - 1) : IsIgnored(i, n) /\ IsGap(from, i, v))
      BY <1>1, <2>4
    <3>2. n > from => (IsGap(from, n - 1, 0)' <=> IsGap(from, n - 1, 0))
                        /\ (IsGap(from, n - 1, 1)' <=> IsGap(from, n - 1, 1))
      BY <2>4, <2>5
    <3> QED
      BY <1>2, <3>1, <3>2 DEF GapSteps
  <2> QED
    BY <1>3, <1>4, <2>3, <2>6
<1> QED
  BY <1>5

\* Where the last token ended, and what is known to be a gap from there on:
\* what is before the cursor, or before the token or the backslash that the
\* cursor is in.
Behind == IF tokens = <<>> THEN 0 ELSE Last(tokens).end

Covered ==
    /\ mode \in {"skip", "token"} /\ caller = "token" /\ cur <= Len(source) => IsGap(Behind, cur, 0)
    /\ caller = "backslash" \/ mode = "backslash" =>
          Behind <= start /\ IsGap(Behind, start, 0) /\ (cur <= Len(source) => IsGap(Behind, cur, 1))
    /\ mode \in {"string", "triple"} => Behind <= start /\ IsGap(Behind, start, 0)

\* The cursor is not before the end of a token.
LEMMA BehindPlaced ==
  ASSUME Typed
  PROVE  Behind \in Nat /\ Behind <= cur /\ cur \in Nat /\ start \in Nat /\ Len(source) \in Nat
<1>1. TokensWell /\ Len(source) \in Nat
  BY SourceWell DEF Typed
<1>2. cur \in Nat /\ start \in Nat
  BY <1>1 DEF Typed, Placed
<1>3. ASSUME tokens # <<>> PROVE Last(tokens).end \in Nat /\ Last(tokens).end <= cur
  <2>1. Len(tokens) \in Nat \ {0} /\ DOMAIN tokens = 1..Len(tokens)
    BY <1>1, <1>3, Popped, Places DEF TokensWell
  <2>2. Len(tokens) \in DOMAIN tokens
    BY <2>1
  <2> QED
    BY <1>1, <2>2 DEF TokensWell, TokensPlaced, Last
<1> QED
  BY <1>1, <1>2, <1>3 DEF Behind

\* A place is a gap from itself.
LEMMA NoGap ==
  ASSUME NEW from \in Nat
  PROVE  IsGap(from, from, 0)
<1>1. GapSteps(from, from, 0)
  BY DEF GapSteps
<1> QED
  BY <1>1, GapUnfolds

\* One piece more.
LEMMA IgnoredGap ==
  ASSUME NEW from \in Nat, NEW i \in Nat, NEW to \in Nat, from <= i, i < to, NEW w \in {0, 1},
         IsGap(from, i, w), IsIgnored(i, to)
  PROVE  IsGap(from, to, w)
<1>1. i \in from..(to - 1)
  OBVIOUS
<1>2. GapSteps(from, to, w)
  BY <1>1 DEF GapSteps
<1> QED
  BY <1>2, GapUnfolds

\* A backslash, and the newline behind it.
LEMMA JoinedGap ==
  ASSUME NEW from \in Nat, NEW i \in Nat, from <= i
  PROVE  /\ IsGap(from, i, 0) /\ CharAt(i) = "backslash" => IsGap(from, i + 1, 1)
         /\ IsGap(from, i, 1) /\ CharAt(i) = "newline" => IsGap(from, i + 1, 0)
<1>1. i + 1 \in Nat /\ from <= i + 1 /\ i + 1 > from /\ (i + 1) - 1 = i
  OBVIOUS
<1>2. IsGap(from, i, 0) /\ CharAt(i) = "backslash" => GapSteps(from, i + 1, 1)
  BY <1>1 DEF GapSteps
<1>3. IsGap(from, i, 1) /\ CharAt(i) = "newline" => GapSteps(from, i + 1, 0)
  BY <1>1 DEF GapSteps
<1>4. /\ IsGap(from, i + 1, 1) <=> GapSteps(from, i + 1, 1)
      /\ IsGap(from, i + 1, 0) <=> GapSteps(from, i + 1, 0)
  BY <1>1, GapUnfolds
<1> QED
  BY <1>2, <1>3, <1>4

\* A step without a token keeps what the tokens say.
LEMMA NoTokenKeeps ==
  ASSUME Typed, NothingSkipped, source' = source, tokens' = tokens
  PROVE  NothingSkipped' /\ Behind' = Behind
<1>1. Behind' = Behind
  BY DEF Behind
<1>2. CASE tokens = <<>>
  BY <1>1, <1>2 DEF NothingSkipped
<1>3. CASE tokens # <<>>
  <2> DEFINE from == IF Len(tokens) = 1 THEN 0 ELSE tokens[Len(tokens) - 1].end
             at == Last(tokens).at
  <2>1. Len(tokens) \in Nat \ {0} /\ DOMAIN tokens = 1..Len(tokens)
    BY <1>3, Popped, Places DEF Typed, TokensWell
  <2>2. Len(tokens) \in DOMAIN tokens /\ (Len(tokens) # 1 => Len(tokens) - 1 \in DOMAIN tokens)
    BY <2>1
  <2>3. from \in Nat /\ at \in Nat
    BY <2>2 DEF Typed, TokensWell, TokensPlaced, Last
  <2>4. from <= at /\ IsGap(from, at, 0)
    BY <1>3 DEF NothingSkipped
  <2>5. PICK f \in Nat, a \in Nat : f = from /\ a = at
    BY <2>3
  <2>6. IsGap(f, a, 0)'
    BY <2>4, <2>5, GapStays
  <2>7. from' = f /\ at' = a
    BY <2>5
  <2>8. f <= a
    BY <2>4, <2>5
  <2>9. (from <= at /\ IsGap(from, at, 0))'
    BY <2>6, <2>7, <2>8
  <2> QED
    BY <1>1, <2>9 DEF NothingSkipped
<1> QED
  BY <1>2, <1>3

\* A token that begins at start and ends at the cursor, or a panic.
EmitsOne ==
    \/ mode' = "panicked" /\ tokens' = tokens
    \/ /\ mode' = "skip"
       /\ \E t : tokens' = Append(tokens, t) /\ t.at = start /\ t.end = cur'

\* Each slice that is emitted is one of the two.
LEMMA SliceEmitsOne ==
  ASSUME NEW kind, NEW from, NEW to, NEW next, NEW error, EmitSlice(kind, from, to, next, error)
  PROVE  EmitsOne
<1>1. CASE kind \in Spelled /\ ~InRange(from, to)
  BY <1>1 DEF EmitSlice, EmitsOne
<1>2. CASE ~(kind \in Spelled /\ ~InRange(from, to))
  <2> DEFINE t == [Token(kind, from, to, error) EXCEPT !.end = next]
  <2>1. mode' = "skip" /\ cur' = next /\ tokens' = Append(tokens, t)
    BY <1>2 DEF EmitSlice
  <2>2. t.at = start /\ t.end = next
    BY DEF Token
  <2> HIDE DEF t
  <2> QED
    BY <2>1, <2>2 DEF EmitsOne
<1> QED
  BY <1>1, <1>2

\* The token begins where a gap ends, and the next gap begins where it ends.
LEMMA EmitsCovered ==
  ASSUME Typed, Typed', NothingSkipped, source' = source, caller' = "token", EmitsOne,
         Behind <= start, IsGap(Behind, start, 0)
  PROVE  (Covered /\ NothingSkipped)'
<1>1. /\ Behind \in Nat /\ start \in Nat /\ IsSequence(tokens)
      /\ Len(tokens) \in Nat /\ DOMAIN tokens = 1..Len(tokens)
  BY BehindPlaced, Places DEF Typed, TokensWell
<1>2. CASE mode' = "panicked" /\ tokens' = tokens
  <2>1. NothingSkipped'
    BY <1>2, NoTokenKeeps
  <2>2. Covered'
    BY <1>2 DEF Covered
  <2> QED
    BY <2>1, <2>2
<1>3. CASE mode' = "skip" /\ \E t : tokens' = Append(tokens, t) /\ t.at = start /\ t.end = cur'
  <2>1. PICK t : tokens' = Append(tokens, t) /\ t.at = start /\ t.end = cur'
    BY <1>3
  <2>2. /\ IsSequence(tokens') /\ Len(tokens') = Len(tokens) + 1
        /\ \A k \in 1..Len(tokens) : tokens'[k] = tokens[k]
        /\ tokens'[Len(tokens) + 1] = t
    BY <1>1, <2>1, Appended
  <2>3. tokens' # <<>>
    BY <1>1, <2>2, SmallSequences
  <2>4. Last(tokens') = t
    BY <2>2 DEF Last
  <2>5. cur' \in Nat
    BY SourceWell DEF Typed, Placed
  <2>6. PICK e \in Nat : e = cur'
    BY <2>5
  <2>7. Behind' = e
    BY <2>1, <2>3, <2>4, <2>6 DEF Behind
  <2>8. IsGap(e, e, 0)
    BY NoGap
  <2>9. IsGap(e, e, 0)'
    BY <2>8, GapStays
  <2>10. Covered'
    BY <1>3, <2>6, <2>7, <2>9 DEF Covered
  <2>11. NothingSkipped'
    <3> DEFINE from == IF Len(tokens) = 1 THEN 0 ELSE tokens[Len(tokens) - 1].end
    <3>1. tokens = <<>> <=> Len(tokens) = 0
      BY <1>1, EmptySeq, SmallSequences DEF IsSequence
    <3>2. Len(tokens) # 0 => Len(tokens) \in 1..Len(tokens)
      BY <1>1
    <3>3. Len(tokens) # 0 => tokens'[Len(tokens)] = tokens[Len(tokens)]
      BY <2>2, <3>2
    <3>4. Len(tokens') - 1 = Len(tokens)
      BY <1>1, <2>2
    <3>5. from' = IF Len(tokens) = 0 THEN 0 ELSE tokens[Len(tokens)].end
      BY <1>1, <2>2, <3>3, <3>4
    <3>6. from' = Behind
      BY <3>1, <3>5 DEF Behind, Last
    <3>7. PICK f \in Nat, a \in Nat : f = Behind /\ a = start
      BY <1>1
    <3>8. f <= a /\ IsGap(f, a, 0)
      BY <3>7
    <3>9. IsGap(f, a, 0)'
      BY <3>8, GapStays
    <3>10. from' = f /\ Last(tokens)'.at = a
      BY <2>1, <2>4, <3>6, <3>7
    <3>11. (from <= Last(tokens).at /\ IsGap(from, Last(tokens).at, 0))'
      BY <3>8, <3>9, <3>10
    <3> QED
      BY <3>11 DEF NothingSkipped
  <2> QED
    BY <2>10, <2>11
<1> QED
  BY <1>2, <1>3 DEF EmitsOne

\* What each kind of action needs of Covered.
LEMMA CoveredFacts ==
  ASSUME Typed, Covered
  PROVE  /\ mode = "token" /\ cur < Len(source) => Behind <= start /\ IsGap(Behind, start, 0)
         /\ mode \in {"string", "triple", "backslash"} => Behind <= start /\ IsGap(Behind, start, 0)
<1>1. Behind <= cur /\ cur \in Nat /\ Len(source) \in Nat
  BY BehindPlaced
<1>2. mode = "token" => start = cur /\ caller = "token"
  BY DEF Typed, Placed
<1> QED
  BY <1>1, <1>2 DEF Covered

\* The actions that end a token.
LEMMA EmittingCovered ==
  ASSUME Typed, Typed', Covered, NothingSkipped,
         \/ Identifier \/ Number \/ Symbol \/ Newline \/ Unexpected \/ CharLiteral
         \/ CloseString \/ CloseTriple \/ StrayBackslash
  PROVE  (Covered /\ NothingSkipped)'
<1>1. source' = source /\ caller' = "token" /\ EmitsOne
  <2>1. CASE Identifier \/ Symbol \/ Newline \/ Unexpected
    BY <2>1, SliceEmitsOne DEF Identifier, Symbol, Newline, Unexpected, Scanning, InLine, Emit, EmitError,
       Typed, Placed
  <2>2. CASE Number
    BY <2>2, SliceEmitsOne DEF Number, Scanning, InLine, Emit, Typed, Placed
  <2>3. CASE CharLiteral
    BY <2>3, SliceEmitsOne DEF CharLiteral, Scanning, InLine, Emit, EmitError, Typed, Placed
  <2>4. CASE CloseString \/ CloseTriple
    BY <2>4, SliceEmitsOne DEF CloseString, CloseTriple, InString, Emit, EmitError, Typed, Placed
  <2>5. CASE StrayBackslash
    BY <2>5, SliceEmitsOne DEF StrayBackslash, Joining, Typed, Placed
  <2> QED
    BY <2>1, <2>2, <2>3, <2>4, <2>5
<1>2. CharAt(cur) = "end" <=> cur >= Len(source)
  BY CharWithin, BehindPlaced DEF Typed
<1>3. Behind <= start /\ IsGap(Behind, start, 0)
  <2>1. CASE mode = "token"
    <3>1. Peek # "end"
      BY <2>1 DEF Identifier, Number, Symbol, Newline, Unexpected, CharLiteral, CloseString,
         CloseTriple, StrayBackslash, InString, Joining, Letters, Digits, Pairs
    <3> QED
      BY <1>2, <2>1, <3>1, BehindPlaced, CoveredFacts DEF Peek
  <2>2. CASE mode \in {"string", "triple", "backslash"}
    BY <2>2, CoveredFacts
  <2> QED
    BY <2>1, <2>2 DEF Identifier, Number, Symbol, Newline, Unexpected, CharLiteral, CloseString,
       CloseTriple, StrayBackslash, InString, Joining, Scanning
<1> QED
  BY <1>1, <1>3, EmitsCovered

\* The actions within a string, and the end of the source.
LEMMA WithinCovered ==
  ASSUME Typed, Typed', Covered, NothingSkipped,
         EndOfSource \/ OpenString \/ StringChar \/ TripleChar
  PROVE  (Covered /\ NothingSkipped)'
<1>1. source' = source /\ caller' = caller /\ start' = start /\ tokens' = tokens
  BY DEF EndOfSource, OpenString, StringChar, TripleChar, Scanning, InLine, InString
<1>2. NothingSkipped' /\ Behind' = Behind
  BY <1>1, NoTokenKeeps
<1>3. CASE EndOfSource
  BY <1>1, <1>2, <1>3 DEF EndOfSource, Scanning, Covered, Typed, Placed
<1>4. CASE OpenString \/ StringChar \/ TripleChar
  <2>1. Behind <= start /\ IsGap(Behind, start, 0)
    <3>1. CASE OpenString
      <4>1. CharAt(cur) = "end" <=> cur >= Len(source)
        BY CharWithin, BehindPlaced DEF Typed
      <4> QED
        BY <3>1, <4>1, BehindPlaced, CoveredFacts DEF OpenString, Scanning, Peek
    <3>2. CASE StringChar \/ TripleChar
      BY <3>2, CoveredFacts DEF StringChar, TripleChar, InString
    <3> QED
      BY <1>4, <3>1, <3>2
  <2>2. PICK f \in Nat, a \in Nat : f = Behind /\ a = start
    BY BehindPlaced
  <2>3. IsGap(f, a, 0)'
    BY <1>1, <2>1, <2>2, GapStays
  <2>4. mode' \in {"string", "triple"} /\ caller' = "token"
    BY <1>1, <1>4 DEF OpenString, StringChar, TripleChar, Scanning, InLine, InString, Typed, Placed
  <2>5. Behind' = f /\ start' = a /\ f <= a
    BY <1>1, <1>2, <2>1, <2>2
  <2>6. (Behind <= start /\ IsGap(Behind, start, 0))'
    BY <2>3, <2>5
  <2> QED
    BY <1>2, <2>4, <2>6 DEF Covered
<1> QED
  BY <1>3, <1>4

\* A piece that skip_ignored() passes over.
LEMMA SkipCovered ==
  ASSUME Typed, Covered, NothingSkipped, Skipping, mode = "skip", mode' = mode,
         cur < Len(source), NEW next \in Nat, cur' = next, cur < next,
         next <= Len(source) => IsIgnored(cur, next)
  PROVE  (Covered /\ NothingSkipped)'
<1>1. source' = source /\ caller' = caller /\ start' = start /\ tokens' = tokens
  BY DEF Skipping
<1>2. NothingSkipped' /\ Behind' = Behind
  BY <1>1, NoTokenKeeps
<1>3. PICK f \in Nat, c \in Nat, a \in Nat, n \in Nat :
        f = Behind /\ c = cur /\ a = start /\ n = Len(source)
  BY BehindPlaced
<1>4. f <= c /\ c < next /\ c < n /\ f <= next
  BY <1>3, BehindPlaced
<1>5. Len(source)' = n
  BY <1>1, <1>3
<1>6. CASE caller = "token"
  <2>1. IsGap(f, c, 0)
    BY <1>3, <1>4, <1>6 DEF Covered
  <2>2. next <= n => IsGap(f, next, 0)
    BY <1>3, <1>4, <2>1, IgnoredGap
  <2>3. next <= n => IsGap(f, next, 0)'
    BY <1>1, <1>4, <2>2, GapStays
  <2>4. Behind' = f /\ cur' = next
    BY <1>2, <1>3
  <2>5. (cur <= Len(source) => IsGap(Behind, cur, 0))'
    BY <1>5, <2>3, <2>4
  <2> QED
    BY <1>1, <1>2, <1>6, <2>5 DEF Covered
<1>7. CASE caller = "backslash"
  <2>1. f <= a /\ IsGap(f, a, 0) /\ IsGap(f, c, 1)
    BY <1>3, <1>4, <1>7 DEF Covered
  <2>2. next <= n => IsGap(f, next, 1)
    BY <1>3, <1>4, <2>1, IgnoredGap
  <2>3. IsGap(f, a, 0)' /\ (next <= n => IsGap(f, next, 1)')
    BY <1>1, <1>4, <2>1, <2>2, GapStays
  <2>4. Behind' = f /\ cur' = next /\ start' = a
    BY <1>1, <1>2, <1>3
  <2>5. (Behind <= start /\ IsGap(Behind, start, 0) /\ (cur <= Len(source) => IsGap(Behind, cur, 1)))'
    BY <1>5, <2>1, <2>3, <2>4
  <2> QED
    BY <1>1, <1>2, <1>7, <2>5 DEF Covered
<1> QED
  BY <1>6, <1>7 DEF Typed, Placed

\* What skip_ignored() passes over at once: a blank or a comment, also one that
\* has no end.
LEMMA Skips ==
  ASSUME Typed, SkipBlank \/ SkipLineComment \/ SkipBlockComment
  PROVE  /\ Skipping /\ mode = "skip" /\ mode' = mode
         /\ cur < Len(source) /\ cur' \in Nat /\ cur < cur'
         /\ cur' <= Len(source) => IsIgnored(cur, cur')
         /\ cur' > Len(source) => /\ Substring(cur, <<"/", "*">>)
                                  /\ \A k \in Nat : k >= cur => ~Substring(k, <<"*", "/">>)
<1>1. source \in Sources /\ cur \in Nat /\ Len(source) \in Nat
  BY TypedFacts
<1>2. Skipping /\ mode = "skip" /\ mode' = mode
  BY DEF SkipBlank, SkipLineComment, SkipBlockComment, Skipping, SkipTo
<1>3. CharAt(cur) \in {"blank", "/"}
  BY <1>1, TwoChars DEF SkipBlank, SkipLineComment, SkipBlockComment, Peek, Chars, Others
<1>4. cur < Len(source)
  BY <1>1, <1>3, CharWithin
<1>5. CASE SkipBlank
  <2>1. cur' = cur + 1 /\ CharAt(cur) = "blank"
    BY <1>5 DEF SkipBlank, SkipTo, Peek
  <2> QED
    BY <1>1, <1>2, <1>4, <2>1 DEF IsIgnored
<1>6. CASE SkipLineComment
  <2>1. PICK next : next = Until(cur, LAMBDA k : CharAt(k) = "newline")
    OBVIOUS
  <2>2. cur' = next /\ Substring(cur, <<"/", "/">>)
    BY <1>6, <2>1 DEF SkipLineComment, SkipTo
  <2>3. Stops(cur, next, {k \in Nat : CharAt(k) = "newline"})
    BY <1>1, <2>1, UntilNewline
  <2>4. /\ next \in Nat /\ cur <= next /\ next <= Len(source)
        /\ next >= Len(source) \/ CharAt(next) = "newline"
        /\ \A k \in cur..(next - 1) : CharAt(k) # "newline"
    BY <1>1, <1>4, <2>3 DEF Stops
  <2>5. CharAt(next) \in {"newline", "end"}
    BY <1>1, <2>4, CharWithin
  <2>6. CharAt(cur) = "/"
    BY <1>1, <2>2, Slashes
  <2>7. cur < next
    BY <1>1, <1>4, <2>4, <2>6
  <2>8. IsIgnored(cur, next)
    BY <2>2, <2>4, <2>5 DEF IsIgnored
  <2> QED
    BY <1>1, <1>2, <1>4, <2>2, <2>4, <2>7, <2>8
<1>7. CASE SkipBlockComment
  <2>1. PICK u : u = Until(cur, LAMBDA k : Substring(k, <<"*", "/">>))
    OBVIOUS
  <2>2. cur' = u + 2 /\ Substring(cur, <<"/", "*">>)
    BY <1>7, <2>1 DEF SkipBlockComment, SkipTo, EndOfBlockComment
  <2>3. Stops(cur, u, {k \in Nat : Substring(k, <<"*", "/">>)})
    BY <1>1, <2>1, UntilClosed
  <2>4. /\ u \in Nat /\ cur <= u /\ (u >= Len(source) \/ Substring(u, <<"*", "/">>))
        /\ \A k \in cur..(u - 1) : ~Substring(k, <<"*", "/">>)
    BY <1>1, <2>3 DEF Stops
  <2>5. CharAt(cur) = "/" /\ ~Substring(cur, <<"*", "/">>)
    BY <1>1, <2>2, Slashes
  <2>6. PICK next \in Nat : next = u + 2
    BY <2>4
  <2>7. cur < next /\ next - 2 = u /\ next - 3 = u - 1
    BY <1>1, <2>4, <2>6
  <2>8. ASSUME next <= Len(source) PROVE IsIgnored(cur, next)
    <3>1. Substring(next - 2, <<"*", "/">>)
      BY <1>1, <2>4, <2>6, <2>7, <2>8
    <3>2. u # cur
      BY <2>5, <2>7, <3>1
    <3>3. next > cur + 2
      BY <1>1, <2>4, <2>6, <3>2
    <3>4. \A k \in (cur + 1)..(next - 3) : ~Substring(k, <<"*", "/">>)
      BY <1>1, <2>4, <2>7
    <3> QED
      BY <2>2, <3>1, <3>3, <3>4 DEF IsIgnored
  <2>9. ASSUME next > Len(source), NEW k \in Nat, k >= cur PROVE ~Substring(k, <<"*", "/">>)
    <3>1. SUFFICES ASSUME Substring(k, <<"*", "/">>) PROVE FALSE
      OBVIOUS
    <3>2. k + 1 < Len(source)
      <4>1. k + 1 \in Nat /\ CharAt(k + 1) = "/"
        BY <1>1, <3>1, Slashes
      <4> QED
        BY <1>1, <4>1, CharWithin
    <3>3. k >= u
      BY <1>1, <2>4, <2>9, <3>1
    <3>4. Substring(u, <<"*", "/">>)
      BY <1>1, <2>4, <3>2, <3>3
    <3>5. u + 1 < Len(source)
      <4>1. u + 1 \in Nat /\ CharAt(u + 1) = "/"
        BY <1>1, <2>4, <3>4, Slashes
      <4> QED
        BY <1>1, <4>1, CharWithin
    <3> QED
      BY <1>1, <2>4, <2>6, <2>9, <3>5
  <2> QED
    BY <1>1, <1>2, <1>4, <2>2, <2>6, <2>7, <2>8, <2>9
<1> QED
  BY <1>5, <1>6, <1>7

\* Blanks and comments.
LEMMA SkippingCovered ==
  ASSUME Typed, Covered, NothingSkipped, SkipBlank \/ SkipLineComment \/ SkipBlockComment
  PROVE  (Covered /\ NothingSkipped)'
<1>1. PICK next \in Nat : next = cur'
  BY Skips
<1>2. /\ Skipping /\ mode = "skip" /\ mode' = mode /\ cur < Len(source) /\ cur < next
      /\ next <= Len(source) => IsIgnored(cur, next)
  BY <1>1, Skips
<1> QED
  BY <1>1, <1>2, SkipCovered

\* The end of skip_ignored().
LEMMA SkipReturnsCovered ==
  ASSUME Typed, Covered, NothingSkipped, SkipReturns
  PROVE  (Covered /\ NothingSkipped)'
<1>1. /\ mode = "skip" /\ mode' = caller /\ caller' = "token"
      /\ start' = IF caller = "token" THEN cur ELSE start
      /\ source' = source /\ cur' = cur /\ tokens' = tokens
  BY DEF SkipReturns
<1>2. NothingSkipped' /\ Behind' = Behind
  BY <1>1, NoTokenKeeps
<1>3. PICK f \in Nat, c \in Nat, a \in Nat, n \in Nat :
        f = Behind /\ c = cur /\ a = start /\ n = Len(source)
  BY BehindPlaced
<1>4. f <= c /\ Len(source)' = n /\ Behind' = f /\ cur' = c
  BY <1>1, <1>2, <1>3, BehindPlaced
<1>5. CASE caller = "token"
  <2>1. c <= n => IsGap(f, c, 0)
    BY <1>1, <1>3, <1>5 DEF Covered
  <2>2. c <= n => IsGap(f, c, 0)'
    BY <1>1, <1>4, <2>1, GapStays
  <2>3. (cur <= Len(source) => IsGap(Behind, cur, 0))'
    BY <1>4, <2>2
  <2> QED
    BY <1>1, <1>2, <1>5, <2>3 DEF Covered
<1>6. CASE caller = "backslash"
  <2>1. f <= a /\ IsGap(f, a, 0) /\ (c <= n => IsGap(f, c, 1))
    BY <1>3, <1>6 DEF Covered
  <2>2. IsGap(f, a, 0)' /\ (c <= n => IsGap(f, c, 1)')
    BY <1>1, <1>4, <2>1, GapStays
  <2>3. start' = a
    BY <1>1, <1>3, <1>6
  <2>4. (Behind <= start /\ IsGap(Behind, start, 0) /\ (cur <= Len(source) => IsGap(Behind, cur, 1)))'
    BY <1>4, <2>1, <2>2, <2>3
  <2> QED
    BY <1>1, <1>2, <1>6, <2>4 DEF Covered
<1> QED
  BY <1>5, <1>6 DEF Typed, Placed

\* A backslash, and the newline that it joins.
LEMMA JoiningCovered ==
  ASSUME Typed, Covered, NothingSkipped, Backslash \/ JoinLines
  PROVE  (Covered /\ NothingSkipped)'
<1>1. /\ source' = source /\ start' = start /\ cur' = cur + 1 /\ mode' = "skip" /\ tokens' = tokens
  BY DEF Backslash, JoinLines, Scanning, Joining
<1>2. NothingSkipped' /\ Behind' = Behind
  BY <1>1, NoTokenKeeps
<1>3. PICK f \in Nat, c \in Nat, a \in Nat, n \in Nat :
        f = Behind /\ c = cur /\ a = start /\ n = Len(source)
  BY BehindPlaced
<1>4. f <= c /\ f <= c + 1 /\ c + 1 \in Nat /\ Behind' = f /\ cur' = c + 1 /\ start' = a
  BY <1>1, <1>2, <1>3, BehindPlaced
<1>5. CharAt(c) = "end" <=> c >= n
  BY <1>3, CharWithin DEF Typed
<1>6. CASE Backslash
  <2>1. mode = "token" /\ caller' = "backslash" /\ CharAt(c) = "backslash"
    BY <1>3, <1>6 DEF Backslash, Scanning, Peek
  <2>2. a = c /\ caller = "token"
    BY <1>3, <2>1 DEF Typed, Placed
  <2>3. IsGap(f, c, 0)
    BY <1>3, <1>5, <2>1, <2>2 DEF Covered
  <2>4. IsGap(f, c + 1, 1)
    BY <1>4, <2>1, <2>3, JoinedGap
  <2>5. IsGap(f, a, 0)' /\ IsGap(f, c + 1, 1)'
    BY <1>1, <1>4, <2>2, <2>3, <2>4, GapStays
  <2>6. (Behind <= start /\ IsGap(Behind, start, 0) /\ IsGap(Behind, cur, 1))'
    BY <1>4, <2>2, <2>5
  <2> QED
    BY <1>1, <1>2, <2>1, <2>6 DEF Covered
<1>7. CASE JoinLines
  <2>1. mode = "backslash" /\ caller' = caller /\ CharAt(c) = "newline"
    BY <1>3, <1>7 DEF JoinLines, Joining, Peek
  <2>2. caller = "token"
    BY <2>1 DEF Typed, Placed
  <2>3. IsGap(f, c, 1)
    BY <1>3, <1>5, <2>1 DEF Covered
  <2>4. IsGap(f, c + 1, 0)
    BY <1>4, <2>1, <2>3, JoinedGap
  <2>5. IsGap(f, c + 1, 0)'
    BY <1>1, <1>4, <2>4, GapStays
  <2>6. IsGap(Behind, cur, 0)'
    BY <1>4, <2>5
  <2> QED
    BY <1>1, <1>2, <2>1, <2>2, <2>6 DEF Covered
<1> QED
  BY <1>6, <1>7

\* A step that does nothing.
LEMMA StutterCovered ==
  ASSUME Typed, Covered, NothingSkipped, UNCHANGED vars
  PROVE  (Covered /\ NothingSkipped)'
<1>1. /\ mode' = mode /\ caller' = caller /\ start' = start /\ cur' = cur
      /\ source' = source /\ tokens' = tokens
  BY DEF vars
<1>2. NothingSkipped' /\ Behind' = Behind
  BY <1>1, NoTokenKeeps
<1>3. PICK f \in Nat, c \in Nat, a \in Nat, n \in Nat :
        f = Behind /\ c = cur /\ a = start /\ n = Len(source)
  BY BehindPlaced
<1>4. f <= c /\ Len(source)' = n /\ Behind' = f /\ cur' = c /\ start' = a
  BY <1>1, <1>2, <1>3, BehindPlaced
<1>5. /\ \A w \in {0, 1} : IsGap(f, c, w)' <=> IsGap(f, c, w)
      /\ f <= a => (IsGap(f, a, 0)' <=> IsGap(f, a, 0))
  BY <1>1, <1>4, GapStays
<1>6. /\ IsGap(Behind, cur, 0)' <=> IsGap(Behind, cur, 0)
      /\ IsGap(Behind, cur, 1)' <=> IsGap(Behind, cur, 1)
  BY <1>3, <1>4, <1>5
<1>7. (Behind <= start /\ IsGap(Behind, start, 0))' <=> (Behind <= start /\ IsGap(Behind, start, 0))
  BY <1>3, <1>4, <1>5
<1> QED
  BY <1>1, <1>2, <1>6, <1>7 DEF Covered

\* So the gaps are covered in every state.
THEOREM CoveredAlways == Spec => [](Covered /\ NothingSkipped)
<1>1. ASSUME Init PROVE Covered /\ NothingSkipped
  <2>1. Behind = 0 /\ cur = 0 /\ tokens = <<>> /\ mode = "skip" /\ caller = "token"
    BY <1>1 DEF Init, Behind
  <2>2. IsGap(0, 0, 0)
    BY NoGap
  <2> QED
    BY <2>1, <2>2 DEF Covered, NothingSkipped
<1>2. ASSUME Typed, Typed', Covered /\ NothingSkipped, [Next]_vars PROVE (Covered /\ NothingSkipped)'
  BY <1>2, EmittingCovered, WithinCovered, SkippingCovered, SkipReturnsCovered, JoiningCovered,
     StutterCovered DEF Next
<1> QED
  BY <1>1, <1>2, TypedAlways, PTL DEF Spec

\* Tokens do not overlap, and nothing but blanks, comments and joined lines is
\* between two of them: no character of any source is lost or read twice.
THEOREM NothingIsSkipped == Spec => []NothingSkipped
BY CoveredAlways, PTL

(***************************************************************************)
(* What a backslash escapes.                                               *)
(***************************************************************************)
\* A character is escaped by a backslash before it that is not escaped.
LEMMA EscapedByOne ==
  ASSUME NEW text, NEW k \in Nat, k > 0
  PROVE  /\ ~IsEscaped(text, 1)
         /\ IsEscaped(text, k + 1) <=> (text[k] = "backslash" /\ ~IsEscaped(text, k))
<1> DEFINE Run(i, n) == (\A j \in i..n : text[j] = "backslash") /\ (i = 1 \/ text[i - 1] # "backslash")
<1>1. ~IsEscaped(text, 1)
  BY DEF IsEscaped
<1>2. ASSUME IsEscaped(text, k + 1) PROVE text[k] = "backslash" /\ ~IsEscaped(text, k)
  <2>1. PICK i \in 1..k : Run(i, k) /\ (k + 1 - i) % 2 = 1
    BY <1>2 DEF IsEscaped
  <2>2. k \in i..k
    OBVIOUS
  <2>3. ASSUME IsEscaped(text, k) PROVE FALSE
    <3>1. PICK m \in 1..(k - 1) : Run(m, k - 1) /\ (k - m) % 2 = 1
      BY <2>3 DEF IsEscaped
    <3>2. CASE i < m
      <4>1. m - 1 \in i..k /\ m # 1
        BY <3>2
      <4> QED
        BY <2>1, <3>1, <4>1
    <3>3. CASE m < i
      <4>1. i - 1 \in m..(k - 1) /\ i # 1
        BY <3>3
      <4> QED
        BY <2>1, <3>1, <4>1
    <3>4. CASE i = m
      BY <2>1, <3>1, <3>4
    <3> QED
      BY <3>2, <3>3, <3>4
  <2> QED
    BY <2>1, <2>2, <2>3
<1>3. ASSUME text[k] = "backslash", ~IsEscaped(text, k) PROVE IsEscaped(text, k + 1)
  <2> DEFINE Starts == {m \in Nat : m \in 1..k /\ \A j \in m..k : text[j] = "backslash"}
  <2>1. k \in Starts
    BY <1>3
  <2>2. PICK i \in Starts : \A m \in Starts : i <= m
    <3>1. Starts \subseteq Nat /\ Starts # {}
      BY <2>1
    <3> HIDE DEF Starts
    <3> QED
      BY <3>1, Least
  <2>3. i \in 1..k /\ \A j \in i..k : text[j] = "backslash"
    BY <2>2
  <2>4. i = 1 \/ text[i - 1] # "backslash"
    <3>1. SUFFICES ASSUME i # 1, text[i - 1] = "backslash" PROVE FALSE
      OBVIOUS
    <3>2. i - 1 \in 1..k /\ i - 1 \in Nat
      BY <2>3, <3>1
    <3>3. ASSUME NEW j \in (i - 1)..k PROVE text[j] = "backslash"
      BY <2>3, <3>1
    <3>4. i - 1 \in Starts
      BY <3>2, <3>3
    <3> HIDE DEF Starts
    <3> QED
      BY <2>2, <2>3, <3>4
  <2>5. CASE i = k
    <3>1. (k + 1 - i) % 2 = 1
      BY <2>5
    <3> QED
      BY <2>3, <2>4, <3>1 DEF IsEscaped
  <2>6. CASE i # k
    <3>1. i \in 1..(k - 1) /\ \A j \in i..(k - 1) : text[j] = "backslash"
      BY <2>3, <2>6
    <3>2. (k - i) % 2 # 1
      BY <1>3, <2>4, <3>1 DEF IsEscaped
    <3>3. (k + 1 - i) % 2 = 1
      BY <2>3, <3>2
    <3> QED
      BY <2>3, <2>4, <3>3 DEF IsEscaped
  <2> QED
    BY <2>5, <2>6
<1> QED
  BY <1>1, <1>2, <1>3

\* What is behind a character is of no matter.
LEMMA EscapedAlike ==
  ASSUME NEW s, NEW t, NEW k \in Nat, \A j \in 1..(k - 1) : s[j] = t[j]
  PROVE  IsEscaped(s, k) <=> IsEscaped(t, k)
<1>1. \A i \in 1..(k - 1) : (\A j \in i..(k - 1) : s[j] = "backslash")
                              <=> (\A j \in i..(k - 1) : t[j] = "backslash")
  OBVIOUS
<1>2. \A i \in 1..(k - 1) : i = 1 \/ i - 1 \in 1..(k - 1)
  OBVIOUS
<1> QED
  BY <1>1, <1>2 DEF IsEscaped

(***************************************************************************)
(* Parts of the source.                                                    *)
(***************************************************************************)
\* What stands between two places.
LEMMA Slice ==
  ASSUME source \in Sources, NEW from \in Nat, NEW to \in Nat, from <= to, to <= Len(source)
  PROVE  LET text == SubSeq(source, from + 1, to)
         IN /\ Len(text) = to - from
            /\ DOMAIN text = 1..(to - from)
            /\ \A k \in 1..(to - from) : text[k] = CharAt(from + k - 1)
<1>1. Len(source) \in Nat /\ \A i \in 1..Len(source) : source[i] \in Chars
  BY SourceWell
<1>2. \A i \in (from + 1)..to : source[i] \in Chars
  BY <1>1
<1> DEFINE text == SubSeq(source, from + 1, to)
<1>3. /\ text \in Seq(Chars)
      /\ Len(text) = IF from + 1 <= to THEN to - (from + 1) + 1 ELSE 0
      /\ \A k \in 1 .. to - (from + 1) + 1 : text[k] = source[from + 1 + k - 1]
  BY <1>2, SubSeqProperties
<1> HIDE DEF text
<1>4. Len(text) = to - from
  BY <1>3
<1>5. DOMAIN text = 1..(to - from)
  BY <1>3, <1>4, SeqIsSequence, Places
<1>6. ASSUME NEW k \in 1..(to - from) PROVE text[k] = CharAt(from + k - 1)
  BY <1>1, <1>3 DEF CharAt
<1> QED
  BY <1>4, <1>5, <1>6 DEF text

\* A row of quotes, as long as it is.
QuoteRow(i, n) ==
    n \in Nat /\ (\A k \in i..(i + n - 1) : CharAt(k) = "quote") /\ CharAt(i + n) # "quote"

\* Quotes counts such a row.
LEMMA QuotesCount ==
  ASSUME source \in Sources, NEW i \in Nat
  PROVE  QuoteRow(i, Quotes(i))
<1>1. PICK u : u = Until(i, LAMBDA k : CharAt(k) # "quote")
  OBVIOUS
<1>2. Len(source) \in Nat
  BY SourceWell
<1>3. Stops(i, u, {k \in Nat : CharAt(k) # "quote"})
  BY <1>1, <1>2, UntilNoQuote
<1>4. /\ u \in Nat /\ i <= u /\ (u >= Len(source) \/ CharAt(u) # "quote")
      /\ \A k \in i..(u - 1) : CharAt(k) = "quote"
  BY <1>3 DEF Stops
<1>5. CharAt(u) # "quote"
  BY <1>2, <1>4, CharWithin
<1>6. Quotes(i) = u - i
  BY <1>1 DEF Quotes
<1>7. u - i \in Nat /\ i + (u - i) = u
  BY <1>4
<1> QED
  BY <1>4, <1>5, <1>6, <1>7 DEF QuoteRow

\* There is one length only.
LEMMA OneRow ==
  ASSUME NEW i \in Nat, NEW m, NEW n, QuoteRow(i, m), QuoteRow(i, n)
  PROVE  m = n
<1>1. m \in Nat /\ n \in Nat
  BY DEF QuoteRow
<1>2. m < n => i + m \in i..(i + n - 1)
  BY <1>1
<1>3. n < m => i + n \in i..(i + m - 1)
  BY <1>1
<1> QED
  BY <1>1, <1>2, <1>3 DEF QuoteRow

\* No step changes it.
QuotesCounted == source \in Sources => \A i \in Nat : QuoteRow(i, Quotes(i))
\* So it does in the next state.
LEMMA QuotesCountNext == QuotesCounted'
<1>1. QuotesCounted
  BY QuotesCount DEF QuotesCounted
<1> QED
  BY <1>1, PTL

\* And as no step changes the source, the count stays.
LEMMA QuotesStay ==
  ASSUME source \in Sources, source' = source, NEW i \in Nat
  PROVE  Quotes(i)' = Quotes(i)
<1>1. QuoteRow(i, Quotes(i))
  BY QuotesCount
<1>2. PICK n : n = Quotes(i)'
  OBVIOUS
<1>3. QuoteRow(i, n)'
  BY <1>2, QuotesCountNext DEF QuotesCounted
<1>4. QuoteRow(i, n)
  BY <1>3, SourceStays DEF QuoteRow
<1> QED
  BY <1>1, <1>2, <1>4, OneRow

\* So what is said of a token stays true.
LEMMA FitsStays ==
  ASSUME source \in Sources, source' = source, NEW kind, NEW text, NEW at \in Nat
  PROVE  Fits(kind, text, at)' <=> Fits(kind, text, at)
<1>1. Quotes(at)' = Quotes(at)
  BY QuotesStay
<1> QED
  BY <1>1 DEF Fits, IsEscaped

\* Without a token nothing changes,
LEMMA NoTokenFits ==
  ASSUME Typed, LexemesFit, source' = source, tokens' = tokens
  PROVE  LexemesFit'
<1>1. CASE tokens = <<>>
  BY <1>1 DEF LexemesFit
<1>2. CASE tokens # <<>>
  <2>1. Len(tokens) \in Nat \ {0} /\ DOMAIN tokens = 1..Len(tokens)
    BY <1>2, Popped, Places DEF Typed, TokensWell
  <2>2. Len(tokens) \in DOMAIN tokens
    BY <2>1
  <2>3. Last(tokens).at \in Nat
    BY <2>2 DEF Typed, TokensWell, TokensPlaced, Last
  <2>4. PICK t : t = Last(tokens)
    OBVIOUS
  <2>5. Fits(t.kind, t.lexeme, t.at)'
    BY <1>2, <2>3, <2>4, FitsStays DEF LexemesFit, Typed
  <2>6. Last(tokens)' = t
    BY <2>4
  <2> QED
    BY <2>5, <2>6 DEF LexemesFit
<1> QED
  BY <1>1, <1>2

\* and with one its kind and its lexeme have to fit.
SliceSays(kind, from, to) ==
    \/ tokens' = tokens
    \/ \E t : /\ tokens' = Append(tokens, t) /\ t.at = start
              /\ t.kind # kind \/ (InRange(from, to) /\ t.lexeme = SubSeq(source, from + 1, to))
              /\ t.kind \in {kind, "Error"}

\* Each slice of a literal says so.
LEMMA SliceSaysSo ==
  ASSUME NEW kind \in Spelled \ {"Error"}, NEW from, NEW to, NEW next, NEW error,
         EmitSlice(kind, from, to, next, error)
  PROVE  SliceSays(kind, from, to)
<1>1. CASE ~InRange(from, to)
  BY <1>1 DEF EmitSlice, SliceSays
<1>2. CASE InRange(from, to)
  <2> DEFINE t == [Token(kind, from, to, error) EXCEPT !.end = next]
  <2>1. tokens' = Append(tokens, t)
    BY <1>2 DEF EmitSlice
  <2>2. /\ t.at = start /\ t.kind \in {kind, "Error"}
        /\ t.kind # "Error" => t.lexeme = SubSeq(source, from + 1, to)
    BY DEF Token
  <2> HIDE DEF t
  <2> QED
    BY <1>2, <2>1, <2>2 DEF SliceSays
<1> QED
  BY <1>1, <1>2

\* A token that fits is all that has to be shown of a step.
LEMMA OneTokenFits ==
  ASSUME Typed, source' = source, NEW t, tokens' = Append(tokens, t), t.at \in Nat,
         Fits(t.kind, t.lexeme, t.at)
  PROVE  LexemesFit'
<1>1. source \in Sources /\ IsSequence(tokens) /\ Len(tokens) \in Nat
  BY TypedFacts, Places DEF TokensWell
<1>2. Len(tokens') = Len(tokens) + 1 /\ tokens'[Len(tokens) + 1] = t
  BY <1>1, Appended
<1>3. Last(tokens)' = t
  BY <1>2 DEF Last
<1>4. Fits(t.kind, t.lexeme, t.at)'
  BY <1>1, FitsStays
<1> QED
  BY <1>3, <1>4 DEF LexemesFit

\* A token that is not a literal has nothing to fit.
LEMMA PlainFits ==
  ASSUME NEW kind, kind \notin Literals, NEW text, NEW at
  PROVE  Fits(kind, text, at)
BY DEF Fits, Literals, IntLiterals

\* So it is of a slice.
LEMMA LiteralFits ==
  ASSUME Typed, LexemesFit, source' = source, NEW kind, NEW from, NEW to,
         SliceSays(kind, from, to),
         InRange(from, to) => Fits(kind, SubSeq(source, from + 1, to), start)
  PROVE  LexemesFit'
<1>1. CASE tokens' = tokens
  BY <1>1, NoTokenFits
<1>2. ASSUME NEW t, tokens' = Append(tokens, t), t.at = start,
             t.kind # kind \/ (InRange(from, to) /\ t.lexeme = SubSeq(source, from + 1, to)),
             t.kind \in {kind, "Error"}
      PROVE  LexemesFit'
  <2>1. "Error" \notin Literals
    BY DEF Literals, IntLiterals
  <2>2. Fits(t.kind, t.lexeme, t.at)
    BY <1>2, <2>1, PlainFits
  <2>3. t.at \in Nat
    BY <1>2, TypedFacts
  <2> QED
    BY <1>2, <2>2, <2>3, OneTokenFits
<1> QED
  BY <1>1, <1>2 DEF SliceSays

\* An emitted token that is not a literal.
LEMMA PlainEmitFits ==
  ASSUME Typed, LexemesFit, source' = source, NEW kind, kind \notin Literals, NEW from, NEW to, NEW next,
         NEW error, EmitSlice(kind, from, to, next, error)
  PROVE  LexemesFit'
<1>1. CASE kind \in Spelled /\ ~InRange(from, to)
  BY <1>1, NoTokenFits DEF EmitSlice
<1>2. CASE ~(kind \in Spelled /\ ~InRange(from, to))
  <2> DEFINE t == [Token(kind, from, to, error) EXCEPT !.end = next]
  <2>1. tokens' = Append(tokens, t)
    BY <1>2 DEF EmitSlice
  <2>2. t.at = start /\ t.kind \in {kind, "Error"}
    BY DEF Token
  <2> HIDE DEF t
  <2>3. t.kind \notin Literals /\ t.at \in Nat
    BY <2>2, TypedFacts DEF Literals, IntLiterals
  <2>4. Fits(t.kind, t.lexeme, t.at)
    BY <2>3, PlainFits
  <2> QED
    BY <2>1, <2>3, <2>4, OneTokenFits
<1> QED
  BY <1>1, <1>2

\* What the digits of a base are.
LEMMA DigitsOf ==
  ASSUME NEW c
  PROVE  /\ IsDigit(10, c) => c \in Digits
         /\ IsDigit(2, c) \/ IsDigit(10, c) \/ IsDigit(16, c) => c # "."
<1>1. IsDigit(2, c) <=> c \in {"0"}
  BY DEF IsDigit
<1>2. IsDigit(10, c) <=> c \in Digits
  BY DEF IsDigit
<1>3. IsDigit(16, c) <=> c \in Digits \cup {"a", "b"}
  BY DEF IsDigit
<1> QED
  BY <1>1, <1>2, <1>3 DEF Digits

\* A number on its own.
LEMMA WholeFits ==
  ASSUME Typed, CharAt(cur) \in Digits, start = cur, NEW whole, whole = PastDigits(Base, cur + Prefix),
         NEW base, base = Base
  PROVE  Fits(CASE base = 10 -> "DecInt" [] base = 16 -> "HexInt" [] base = 2 -> "BinInt",
              SubSeq(source, cur + 1, whole), cur)
<1>1. source \in Sources /\ cur \in Nat /\ Len(source) \in Nat
  BY TypedFacts
<1>2. PICK p : p = Prefix
  OBVIOUS
<1>3. /\ base \in {2, 10, 16} /\ p = (IF base = 10 THEN 1 ELSE 2)
      /\ base = 16 => CharAt(cur + 1) = "x"
      /\ base = 2 => CharAt(cur + 1) = "b"
      /\ whole \in Nat /\ cur + p <= whole /\ whole <= Len(source)
      /\ \A k \in (cur + p)..(whole - 1) : IsDigit(base, CharAt(k))
  BY <1>2, WholePart
<1>4. PICK text : text = SubSeq(source, cur + 1, whole)
  OBVIOUS
<1>5. /\ Len(text) = whole - cur
      /\ \A k \in 1..(whole - cur) : text[k] = CharAt(cur + k - 1)
  <2>1. cur <= whole
    BY <1>1, <1>3
  <2> QED
    BY <1>1, <1>3, <1>4, <2>1, Slice
<1>6. CASE base = 10
  <2>1. ASSUME NEW k \in 1..(whole - cur) PROVE text[k] \in Digits
    <3>1. CASE k = 1
      BY <1>1, <1>5, <3>1
    <3>2. CASE k # 1
      <4>1. cur + k - 1 \in (cur + p)..(whole - 1)
        BY <1>1, <1>3, <1>6, <3>2
      <4> QED
        BY <1>3, <1>5, <1>6, <4>1, DigitsOf
    <3> QED
      BY <3>1, <3>2
  <2>2. Fits("DecInt", text, cur)
    BY <1>1, <1>3, <1>5, <1>6, <2>1 DEF Fits
  <2> QED
    BY <1>4, <1>6, <2>2
<1>7. CASE base \in {2, 16}
  <2>1. 2 \in 1..(whole - cur) /\ cur + 2 - 1 = cur + 1
    BY <1>1, <1>3, <1>7
  <2>2. text[2] \in {"x", "b"} /\ Len(text) >= 2
    BY <1>3, <1>5, <1>7, <2>1
  <2>3. Fits("HexInt", text, cur) /\ Fits("BinInt", text, cur)
    BY <2>2 DEF Fits
  <2>4. CASE base = 2
    BY <1>4, <2>3, <2>4
  <2>5. CASE base = 16
    BY <1>4, <2>3, <2>5
  <2> QED
    BY <1>7, <2>4, <2>5
<1> QED
  BY <1>3, <1>6, <1>7

\* And one with a point.
LEMMA FractionFits ==
  ASSUME Typed, CharAt(cur) \in Digits, NEW whole, whole = PastDigits(Base, cur + Prefix),
         IsFraction(whole), NEW next, next = PastDigits(16, whole + 1)
  PROVE  Fits("Float", SubSeq(source, cur + 1, next), cur)
<1>1. source \in Sources /\ cur \in Nat /\ Len(source) \in Nat
  BY TypedFacts
<1>2. PICK p, base : p = Prefix /\ base = Base
  OBVIOUS
<1>3. /\ base \in {2, 10, 16} /\ p = (IF base = 10 THEN 1 ELSE 2)
      /\ base = 16 => CharAt(cur + 1) = "x"
      /\ base = 2 => CharAt(cur + 1) = "b"
      /\ whole \in Nat /\ cur + p <= whole
      /\ \A k \in (cur + p)..(whole - 1) : IsDigit(base, CharAt(k))
  BY <1>2, WholePart
<1>4. /\ next \in Nat /\ whole + 1 < next /\ next <= Len(source)
      /\ CharAt(whole) = "." /\ CharAt(whole + 1) \in Digits
      /\ \A k \in (whole + 1)..(next - 1) : IsDigit(16, CharAt(k))
  BY <1>1, <1>3, FractionPart
<1>5. ASSUME NEW i \in cur..(next - 1), CharAt(i) = "." PROVE i = whole
  <2>1. CharAt(cur) # "."
    BY DEF Digits
  <2>2. p = 2 => CharAt(cur + 1) # "."
    BY <1>3
  <2>3. i \in (cur + p)..(whole - 1) => CharAt(i) # "."
    BY <1>3, DigitsOf
  <2>4. i \in (whole + 1)..(next - 1) => CharAt(i) # "."
    BY <1>4, DigitsOf
  <2> QED
    BY <1>1, <1>3, <1>4, <1>5, <2>1, <2>2, <2>3, <2>4
<1>6. PICK text : text = SubSeq(source, cur + 1, next)
  OBVIOUS
<1>7. /\ Len(text) = next - cur
      /\ \A k \in 1..(next - cur) : text[k] = CharAt(cur + k - 1)
  <2>1. cur <= next
    BY <1>1, <1>3, <1>4
  <2> QED
    BY <1>1, <1>4, <1>6, <2>1, Slice
<1> DEFINE points == {k \in 2..(Len(text) - 1) : text[k] = "." /\ text[k + 1] \in Digits}
<1>8. PICK at \in Nat : at = whole - cur + 1
  BY <1>1, <1>3
<1>9. points = {at}
  <2>1. /\ at \in 2..(next - cur - 1) /\ at \in 1..(next - cur) /\ at + 1 \in 1..(next - cur)
        /\ cur + at - 1 = whole /\ cur + (at + 1) - 1 = whole + 1
    <3>1. cur + 1 <= whole
      BY <1>1, <1>3
    <3>2. whole \in Nat /\ next \in Nat /\ whole + 1 < next
      BY <1>3, <1>4
    <3> QED
      BY <1>1, <1>8, <3>1, <3>2
  <2>2. text[at] = CharAt(cur + at - 1) /\ text[at + 1] = CharAt(cur + (at + 1) - 1)
    BY <1>7, <2>1
  <2>3. text[at] = CharAt(whole) /\ text[at + 1] = CharAt(whole + 1)
    BY <2>1, <2>2
  <2>4. at \in points
    BY <1>4, <1>7, <2>1, <2>3
  <2>5. ASSUME NEW k \in points PROVE k = at
    <3>1. k \in 2..(next - cur - 1) /\ text[k] = "."
      BY <1>7
    <3>2. cur + k - 1 \in cur..(next - 1) /\ CharAt(cur + k - 1) = "."
      BY <1>1, <1>4, <1>7, <3>1
    <3>3. cur + k - 1 = whole
      BY <1>5, <3>2
    <3> QED
      BY <1>1, <1>3, <1>8, <3>1, <3>3
  <2> HIDE DEF points
  <2> QED
    BY <2>4, <2>5
<1>10. Cardinality(points) = 1
  BY <1>9, FS_Singleton
<1> QED
  BY <1>6, <1>10 DEF Fits

(***************************************************************************)
(* What is known within a string.                                          *)
(***************************************************************************)
\* The source from the token on.
Rest == SubSeq(source, start + 1, Len(source))

\* Within a string on one line the character at the cursor is not escaped, and
\* every quote since the first is; three quotes are three or the first step
\* finds the end.
QuotesRead ==
    /\ mode = "string" =>
          /\ ~Substring(start + 1, <<"quote", "quote">>)
          /\ cur > start + 1 => CharAt(start + 1) # "quote"
          /\ cur <= Len(source) => ~IsEscaped(Rest, cur - start + 1)
          /\ \A k \in 2..(cur - start) :
                k <= Len(source) - start /\ Rest[k] = "quote" => IsEscaped(Rest, k)
    /\ mode = "triple" => cur = start + 1 \/ (cur >= start + 2 /\ CharAt(start + 3) # "quote")

\* The places of the rest.
LEMMA RestPlaces ==
  ASSUME Typed, start <= Len(source), NEW k \in 1..(Len(source) - start)
  PROVE  Rest[k] = CharAt(start + k - 1)
<1>1. source \in Sources /\ start \in Nat /\ Len(source) \in Nat
  BY TypedFacts
<1>2. Len(source) <= Len(source)
  BY <1>1
<1> QED
  BY <1>1, <1>2, Slice DEF Rest

\* A string is opened.
LEMMA OpenStringReads ==
  ASSUME Typed, OpenString
  PROVE  QuotesRead'
<1>1. /\ mode = "token" /\ source' = source /\ start' = start /\ CharAt(cur) = "quote" /\ cur' = cur + 1
      /\ mode' = IF Substring(cur + 1, <<"quote", "quote">>) THEN "triple" ELSE "string"
  BY DEF OpenString, Scanning, Peek
<1>2. source \in Sources /\ start \in Nat /\ cur \in Nat /\ Len(source) \in Nat /\ start = cur
  BY <1>1, TypedFacts DEF Typed, Placed
<1>3. PICK r : r = Rest
  OBVIOUS
<1>4. PICK s \in Nat, n \in Nat : s = start /\ n = Len(source)
  BY <1>2
<1>5. s < n /\ CharAt(s) = "quote"
  BY <1>1, <1>2, <1>4, CharWithin
<1>6. r[1] = "quote"
  <2>1. 1 \in 1..(n - s) /\ s + 1 - 1 = s /\ s <= n
    BY <1>5
  <2> QED
    BY <1>3, <1>4, <1>5, <2>1, RestPlaces
<1>7. ~IsEscaped(r, 2)
  <2>1. IsEscaped(r, 1 + 1) <=> (r[1] = "backslash" /\ ~IsEscaped(r, 1))
    BY EscapedByOne
  <2> QED
    BY <1>6, <2>1
<1>8. Rest' = r /\ start' = s /\ cur' = s + 1 /\ Len(source)' = n
  BY <1>3, <1>1, <1>2, <1>4 DEF Rest
<1>9. CASE mode' = "triple"
  BY <1>8, <1>9 DEF QuotesRead
<1>10. CASE mode' = "string"
  <2>1. ~Substring(s + 1, <<"quote", "quote">>)
    BY <1>1, <1>2, <1>4, <1>10
  <2>2. ~Substring(s + 1, <<"quote", "quote">>)'
    BY <1>1, <2>1, SourceStays
  <2>3. ~(s + 1 > s + 1) /\ s + 1 - s + 1 = 2 /\ 2..(s + 1 - s) = {}
    OBVIOUS
  <2> QED
    BY <1>7, <1>8, <1>10, <2>2, <2>3 DEF QuotesRead
<1> QED
  BY <1>1, <1>9, <1>10

\* A character of a string, or two.
LEMMA StringCharReads ==
  ASSUME Typed, QuotesRead, StringChar
  PROVE  QuotesRead'
<1>1. /\ mode = "string" /\ mode' = "string" /\ source' = source /\ start' = start
      /\ cur' = IF CharAt(cur) = "backslash" THEN cur + 2 ELSE cur + 1
      /\ CharAt(cur) # "quote" /\ cur < Len(source)
  BY TypedFacts DEF StringChar, InString, Peek, AtEnd
<1>2. source \in Sources /\ start \in Nat /\ cur \in Nat /\ Len(source) \in Nat /\ start < cur
  BY <1>1, TypedFacts DEF Typed, InStrings
<1>3. PICK r : r = Rest
  OBVIOUS
<1>4. PICK s \in Nat, n \in Nat, c \in Nat : s = start /\ n = Len(source) /\ c = cur
  BY <1>2
<1>5. PICK p \in Nat : p = c - s + 1
  BY <1>2, <1>4
<1>6. /\ ~Substring(s + 1, <<"quote", "quote">>)
      /\ c > s + 1 => CharAt(s + 1) # "quote"
      /\ ~IsEscaped(r, p)
      /\ \A k \in 2..(p - 1) : k <= n - s /\ r[k] = "quote" => IsEscaped(r, k)
  <2>1. c - s = p - 1 /\ c < n
    BY <1>1, <1>4, <1>5
  <2> QED
    BY <1>3, <1>1, <1>4, <1>5, <2>1 DEF QuotesRead
<1>7. r[p] = CharAt(c)
  <2>1. p \in 1..(n - s) /\ s + p - 1 = c /\ s <= n
    BY <1>1, <1>2, <1>4, <1>5
  <2> QED
    BY <1>3, <1>4, <2>1, RestPlaces
<1>8. p > 0 /\ (IsEscaped(r, p + 1) <=> (r[p] = "backslash" /\ ~IsEscaped(r, p)))
  BY <1>2, <1>4, <1>5, EscapedByOne
<1>9. PICK d \in Nat : d = cur'
  BY <1>1, <1>2
<1>10. ~Substring(s + 1, <<"quote", "quote">>)' /\ CharAt(s + 1)' = CharAt(s + 1)
  BY <1>1, <1>6, SourceStays
<1>11. d > s + 1 => CharAt(s + 1) # "quote"
  BY <1>1, <1>2, <1>4, <1>6
<1>12. ~IsEscaped(r, d - s + 1) /\ \A k \in 2..(d - s) : k <= n - s /\ r[k] = "quote" => IsEscaped(r, k)
  <2>1. CASE CharAt(c) = "backslash"
    <3>1. d - s + 1 = p + 2 /\ d - s = p + 1 /\ p + 1 \in Nat /\ p + 1 > 0
      BY <1>1, <1>4, <1>5, <1>9, <2>1
    <3>2. IsEscaped(r, p + 1)
      BY <1>6, <1>7, <1>8, <2>1
    <3>3. ~IsEscaped(r, (p + 1) + 1)
      BY <3>1, <3>2, EscapedByOne
    <3>4. ASSUME NEW k \in 2..(p + 1), k <= n - s, r[k] = "quote" PROVE IsEscaped(r, k)
      BY <1>6, <1>7, <2>1, <3>2, <3>4
    <3> QED
      BY <3>1, <3>3, <3>4
  <2>2. CASE CharAt(c) # "backslash"
    <3>1. d - s + 1 = p + 1 /\ d - s = p
      BY <1>1, <1>4, <1>5, <1>9, <2>2
    <3>2. ~IsEscaped(r, p + 1)
      BY <1>7, <1>8, <2>2
    <3>3. r[p] # "quote"
      BY <1>1, <1>4, <1>7
    <3>4. ASSUME NEW k \in 2..p, k <= n - s, r[k] = "quote" PROVE IsEscaped(r, k)
      BY <1>6, <3>3, <3>4
    <3> QED
      BY <3>1, <3>2, <3>4
  <2> QED
    BY <2>1, <2>2
<1>13. Rest' = r /\ start' = s /\ cur' = d /\ Len(source)' = n
  BY <1>3, <1>1, <1>4, <1>9 DEF Rest
<1> QED
  BY <1>1, <1>10, <1>11, <1>12, <1>13 DEF QuotesRead

\* A character of a string on many lines.
LEMMA TripleCharReads ==
  ASSUME Typed, QuotesRead, TripleChar
  PROVE  QuotesRead'
<1>1. /\ mode = "triple" /\ mode' = "triple" /\ source' = source /\ start' = start
      /\ cur' = IF CharAt(cur + 1) = "backslash" THEN cur + 2 ELSE cur + 1
      /\ ~Substring(cur, ThreeQuotes)
  BY DEF TripleChar, InString, PeekAhead
<1>2. source \in Sources /\ start \in Nat /\ cur \in Nat
  BY TypedFacts
<1>3. PICK s \in Nat, c \in Nat : s = start /\ c = cur
  BY <1>2
<1>4. CharAt(s) = "quote" /\ CharAt(s + 1) = "quote" /\ CharAt(s + 2) = "quote"
  BY <1>1, <1>2, <1>3, ThreeChars, InStringFacts
<1>5. CASE c = s + 1
  <2>1. cur' = s + 2
    BY <1>1, <1>3, <1>4, <1>5
  <2>2. CharAt(s + 3) # "quote"
    <3>1. Substring(c, ThreeQuotes) <=>
             (CharAt(c) = "quote" /\ CharAt(c + 1) = "quote" /\ CharAt(c + 2) = "quote")
      BY <1>2, ThreeChars
    <3>2. c + 1 = s + 2 /\ c + 2 = s + 3
      BY <1>5
    <3> QED
      BY <1>1, <1>3, <1>4, <1>5, <3>1, <3>2
  <2>3. CharAt(s + 3)' # "quote"
    BY <1>1, <2>2, SourceStays
  <2> QED
    BY <1>1, <1>3, <2>1, <2>3 DEF QuotesRead
<1>6. CASE c # s + 1
  <2>1. c >= s + 2 /\ CharAt(s + 3) # "quote"
    BY <1>1, <1>3, <1>6 DEF QuotesRead
  <2>2. CharAt(s + 3)' # "quote"
    BY <1>1, <2>1, SourceStays
  <2>3. cur' >= s + 2
    BY <1>1, <1>3, <2>1
  <2> QED
    BY <1>1, <1>3, <2>2, <2>3 DEF QuotesRead
<1> QED
  BY <1>5, <1>6

\* A string on one line: it is empty, or no quote between its two is not escaped.
LEMMA StringFits ==
  ASSUME Typed, QuotesRead, mode = "string", CharAt(cur) = "quote"
  PROVE  Fits("String", SubSeq(source, start + 1, cur + 1), start)
<1>1. /\ source \in Sources /\ start \in Nat /\ cur \in Nat /\ Len(source) \in Nat
      /\ start < cur /\ CharAt(start) = "quote"
  BY TypedFacts, InStringFacts
<1>2. cur < Len(source)
  BY <1>1, CharWithin
<1>3. PICK r, text : r = Rest /\ text = SubSeq(source, start + 1, cur + 1)
  OBVIOUS
<1>4. PICK size \in Nat : size = cur - start + 1
  BY <1>1
<1>5. /\ Len(text) = size /\ DOMAIN text = 1..size
      /\ \A k \in 1..size : text[k] = CharAt(start + k - 1)
  <2>1. PICK to \in Nat : to = cur + 1
    BY <1>1
  <2>2. start <= to /\ to <= Len(source) /\ to - start = size
    BY <1>1, <1>2, <1>4, <2>1
  <2>3. text = SubSeq(source, start + 1, to)
    BY <1>3, <2>1
  <2> QED
    BY <1>1, <2>2, <2>3, Slice
<1>6. \A k \in 1..size : r[k] = text[k]
  <2>1. start <= Len(source) /\ size <= Len(source) - start
    BY <1>1, <1>2, <1>4
  <2>2. ASSUME NEW k \in 1..size PROVE r[k] = text[k]
    <3>1. k \in 1..(Len(source) - start)
      BY <1>1, <2>1
    <3> QED
      BY <1>3, <1>5, <2>1, <3>1, RestPlaces
  <2> QED
    BY <2>2
<1>7. size >= 2 /\ start + size - 1 = cur /\ start + 1 - 1 = start
  BY <1>1, <1>4
<1>8. text[1] = "quote" /\ text[size] = "quote"
  BY <1>1, <1>5, <1>7
<1>9. CASE size = 2
  <2>1. cur = start + 1
    BY <1>1, <1>4, <1>9
  <2>2. ~(CharAt(start + 1) = "quote" /\ CharAt(start + 2) = "quote")
    <3>1. PICK i \in Nat : i = start + 1
      BY <1>1
    <3>2. Substring(i, <<"quote", "quote">>) <=> (CharAt(i) = "quote" /\ CharAt(i + 1) = "quote")
      BY <1>1, TwoChars DEF Chars, Others
    <3>3. i + 1 = start + 2
      BY <1>1, <3>1
    <3> QED
      BY <3>1, <3>2, <3>3 DEF QuotesRead
  <2>3. QuoteRow(start, 2)
    BY <1>1, <2>1, <2>2 DEF QuoteRow
  <2>4. Quotes(start) = 2
    BY <1>1, <2>3, OneRow, QuotesCount
  <2> QED
    BY <1>3, <1>5, <1>9, <2>4 DEF Fits
<1>10. CASE size > 2
  <2>1. cur > start + 1
    BY <1>1, <1>4, <1>10
  <2>2. QuoteRow(start, 1)
    BY <1>1, <2>1 DEF QuoteRow, QuotesRead
  <2>3. Quotes(start) = 1
    BY <1>1, <2>2, OneRow, QuotesCount
  <2>4. \A k \in 1..size : IsEscaped(r, k) <=> IsEscaped(text, k)
    BY <1>6, EscapedAlike
  <2>5. ~IsEscaped(text, 1) /\ ~IsEscaped(text, size)
    <3>1. ~IsEscaped(text, 1)
      BY EscapedByOne
    <3>2. ~IsEscaped(r, size)
      BY <1>2, <1>1, <1>3, <1>4 DEF QuotesRead
    <3>3. size \in 1..size
      BY <1>7
    <3> QED
      BY <2>4, <3>1, <3>2, <3>3
  <2>6. ASSUME NEW k \in 2..(size - 1), text[k] = "quote" PROVE IsEscaped(text, k)
    <3>1. k \in 2..(cur - start) /\ k <= Len(source) - start /\ k \in 1..size
      BY <1>1, <1>2, <1>4
    <3>2. r[k] = "quote"
      BY <1>6, <2>6, <3>1
    <3>3. IsEscaped(r, k)
      BY <1>3, <3>1, <3>2 DEF QuotesRead
    <3> QED
      BY <2>4, <3>1, <3>3
  <2>7. {k \in DOMAIN text : text[k] = "quote" /\ ~IsEscaped(text, k)} = {1, size}
    BY <1>5, <1>7, <1>8, <2>5, <2>6
  <2> QED
    BY <1>3, <1>5, <1>10, <2>3, <2>7 DEF Fits
<1> QED
  BY <1>7, <1>9, <1>10

\* A string on many lines, without two of its quotes at each end.
LEMMA TripleFits ==
  ASSUME Typed, QuotesRead, mode = "triple", Substring(cur, ThreeQuotes),
         InRange(start + 2, cur + 1)
  PROVE  Fits("String", SubSeq(source, (start + 2) + 1, cur + 1), start)
<1>1. PICK from \in Nat, to \in Nat : from = start + 2 /\ to = cur + 1
  BY TypedFacts
<1>2. /\ source \in Sources /\ start \in Nat /\ cur \in Nat /\ Len(source) \in Nat
      /\ start < cur /\ from <= to /\ to <= Len(source)
  BY <1>1, TypedFacts, InStringFacts DEF InRange
<1>3. /\ CharAt(start) = "quote" /\ CharAt(start + 1) = "quote" /\ CharAt(start + 2) = "quote"
      /\ CharAt(cur) = "quote" /\ CharAt(cur + 1) = "quote" /\ CharAt(cur + 2) = "quote"
  BY <1>2, ThreeChars, InStringFacts
<1>4. PICK text : text = SubSeq(source, from + 1, to)
  OBVIOUS
<1>5. PICK size \in Nat : size = cur - start - 1
  BY <1>2
<1>6. Len(text) = size /\ \A k \in 1..size : text[k] = CharAt(from + k - 1)
  <2>1. to - from = size
    BY <1>1, <1>2, <1>5
  <2> QED
    BY <1>2, <1>4, <2>1, Slice
<1>7. QuoteRow(start, Quotes(start)) /\ Quotes(start) \in Nat
  BY <1>2, QuotesCount DEF QuoteRow
<1>8. PICK n \in Nat : n = Quotes(start)
  BY <1>7
<1>9. n >= 3
  <2>1. CharAt(start + n) # "quote"
    BY <1>7, <1>8 DEF QuoteRow
  <2> QED
    BY <1>2, <1>3, <1>8, <2>1
<1>10. CASE cur = start + 1
  <2>1. CharAt(start + 3) = "quote"
    BY <1>2, <1>3, <1>10
  <2>2. n # 3
    BY <1>7, <1>8, <2>1 DEF QuoteRow
  <2>3. size = 0
    BY <1>2, <1>5, <1>10
  <2> QED
    BY <1>1, <1>4, <1>6, <1>8, <1>9, <2>2, <2>3 DEF Fits
<1>11. CASE cur # start + 1
  <2>1. cur >= start + 2 /\ CharAt(start + 3) # "quote"
    BY <1>11 DEF QuotesRead
  <2>2. QuoteRow(start, 3)
    BY <1>2, <1>3, <2>1 DEF QuoteRow
  <2>3. Quotes(start) = 3
    BY <1>2, <1>7, <2>2, OneRow
  <2>4. cur # start + 2 /\ cur # start + 3
    BY <1>2, <1>3, <2>1
  <2>5. size > 2 /\ from + 1 - 1 = start + 2 /\ from + size - 1 = cur
    BY <1>1, <1>2, <1>5, <2>1, <2>4
  <2>6. text[1] = "quote" /\ text[size] = "quote"
    BY <1>3, <1>6, <2>5
  <2> QED
    BY <1>1, <1>4, <1>6, <2>3, <2>5, <2>6 DEF Fits
<1> QED
  BY <1>10, <1>11

\* A character of n bytes.
LEMMA CharFits ==
  ASSUME Typed, NEW n \in {3, 4}, CharAt(start + n - 1) = "'", NEW to \in Nat, to = start + n
  PROVE  Fits("Char", SubSeq(source, start + 1, to), start)
<1>1. source \in Sources /\ start \in Nat /\ Len(source) \in Nat
  BY TypedFacts
<1>2. PICK i \in Nat : i = start + n - 1
  BY <1>1
<1>3. i < Len(source)
  BY <1>1, <1>2, CharWithin
<1>4. PICK text : text = SubSeq(source, start + 1, to)
  OBVIOUS
<1>5. Len(text) = n /\ \A k \in 1..n : text[k] = CharAt(start + k - 1)
  <2>1. start <= to /\ to <= Len(source) /\ to - start = n
    BY <1>1, <1>2, <1>3
  <2> QED
    BY <1>1, <1>4, <2>1, Slice
<1>6. text[n] = "'" /\ n >= 3
  BY <1>5
<1> QED
  BY <1>4, <1>5, <1>6 DEF Fits, Last

\* The literals that a step emits.
LEMMA NumberKeepsFit ==
  ASSUME Typed, LexemesFit, Number
  PROVE  LexemesFit'
<1>1. PICK whole, base : whole = PastDigits(Base, cur + Prefix) /\ base = Base
  OBVIOUS
<1>2. /\ source' = source /\ mode = "token" /\ CharAt(cur) \in Digits
      /\ IF IsFraction(whole) THEN Emit("Float", PastDigits(16, whole + 1))
         ELSE Emit(CASE base = 10 -> "DecInt" [] base = 16 -> "HexInt" [] base = 2 -> "BinInt", whole)
  BY <1>1 DEF Number, Scanning, Peek
<1>3. start = cur
  BY <1>2 DEF Typed, Placed
<1>4. CASE IsFraction(whole)
  <2>1. PICK next : next = PastDigits(16, whole + 1)
    OBVIOUS
  <2>2. EmitSlice("Float", start, next, next, "none")
    BY <1>2, <1>4, <2>1 DEF Emit
  <2>3. SliceSays("Float", start, next)
    BY <2>2, SliceSaysSo DEF Spelled, Literals
  <2>4. Fits("Float", SubSeq(source, start + 1, next), start)
    BY <1>1, <1>2, <1>3, <1>4, <2>1, FractionFits
  <2> QED
    BY <1>2, <2>3, <2>4, LiteralFits
<1>5. CASE ~IsFraction(whole)
  <2>1. PICK kind : kind = CASE base = 10 -> "DecInt" [] base = 16 -> "HexInt" [] base = 2 -> "BinInt"
    OBVIOUS
  <2>2. EmitSlice(kind, start, whole, whole, "none")
    BY <1>2, <1>5, <2>1 DEF Emit
  <2>3. kind \in {"DecInt", "HexInt", "BinInt"}
    <3>1. base \in {2, 10, 16}
      BY <1>1 DEF Base
    <3> QED
      BY <2>1, <3>1
  <2>4. SliceSays(kind, start, whole)
    BY <2>2, <2>3, SliceSaysSo DEF Spelled, Literals, IntLiterals
  <2>5. Fits(kind, SubSeq(source, start + 1, whole), start)
    BY <1>1, <1>2, <1>3, <2>1, WholeFits
  <2> QED
    BY <1>2, <2>4, <2>5, LiteralFits
<1> QED
  BY <1>4, <1>5

\* A character between two quotes.
LEMMA CharLiteralKeepsFit ==
  ASSUME Typed, LexemesFit, CharLiteral
  PROVE  LexemesFit'
<1>1. /\ source' = source /\ mode = "token"
      /\ IF CharAt(cur + 2) = "'" THEN Emit("Char", cur + 3)
         ELSE IF CharAt(cur + 1) # "backslash" THEN EmitError(cur + 2, "UnterminatedChar")
         ELSE IF CharAt(cur + 3) = "'" THEN Emit("Char", cur + 4)
         ELSE EmitError(cur + 3, "UnterminatedChar")
  BY DEF CharLiteral, Scanning, PeekAhead
<1>2. start = cur /\ cur \in Nat
  BY <1>1, TypedFacts DEF Typed, Placed
<1>3. ASSUME NEW n \in {3, 4}, CharAt(cur + n - 1) = "'", Emit("Char", cur + n) PROVE LexemesFit'
  <2>1. PICK to \in Nat : to = start + n
    BY <1>2
  <2>2. EmitSlice("Char", start, to, to, "none")
    BY <1>2, <1>3, <2>1 DEF Emit
  <2>3. SliceSays("Char", start, to)
    BY <2>2, SliceSaysSo DEF Spelled, Literals
  <2>4. CharAt(start + n - 1) = "'"
    BY <1>2, <1>3
  <2>5. Fits("Char", SubSeq(source, start + 1, to), start)
    BY <2>1, <2>4, CharFits
  <2> QED
    BY <1>1, <2>3, <2>5, LiteralFits
<1>4. ASSUME NEW next, NEW error, EmitError(next, error) PROVE LexemesFit'
  <2>1. "Error" \notin Literals
    BY DEF Literals, IntLiterals
  <2> QED
    BY <1>1, <1>4, <2>1, PlainEmitFits DEF EmitError
<1>5. CASE CharAt(cur + 2) = "'"
  <2>1. CharAt(cur + 3 - 1) = "'" /\ Emit("Char", cur + 3)
    BY <1>1, <1>2, <1>5
  <2> QED
    BY <1>3, <2>1
<1>6. CASE CharAt(cur + 2) # "'" /\ CharAt(cur + 1) = "backslash" /\ CharAt(cur + 3) = "'"
  <2>1. CharAt(cur + 4 - 1) = "'" /\ Emit("Char", cur + 4)
    BY <1>1, <1>2, <1>6
  <2> QED
    BY <1>3, <2>1
<1> QED
  BY <1>1, <1>4, <1>5, <1>6

\* The two ends of a string.
LEMMA CloseStringKeepsFit ==
  ASSUME Typed, LexemesFit, QuotesRead, CloseString
  PROVE  LexemesFit'
<1>1. /\ source' = source /\ mode = "string"
      /\ IF CharAt(cur) = "quote" THEN Emit("String", cur + 1) ELSE EmitError(cur, "UnterminatedString")
  BY DEF CloseString, InString, Peek
<1>2. CASE CharAt(cur) = "quote"
  <2>1. EmitSlice("String", start, cur + 1, cur + 1, "none")
    BY <1>1, <1>2 DEF Emit
  <2>2. SliceSays("String", start, cur + 1)
    BY <2>1, SliceSaysSo DEF Spelled, Literals
  <2>3. Fits("String", SubSeq(source, start + 1, cur + 1), start)
    BY <1>1, <1>2, StringFits
  <2> QED
    BY <1>1, <2>2, <2>3, LiteralFits
<1>3. CASE CharAt(cur) # "quote"
  <2>1. "Error" \notin Literals
    BY DEF Literals, IntLiterals
  <2> QED
    BY <1>1, <1>3, <2>1, PlainEmitFits DEF EmitError
<1> QED
  BY <1>2, <1>3

\* The end of a string on many lines.
LEMMA CloseTripleKeepsFit ==
  ASSUME Typed, LexemesFit, QuotesRead, CloseTriple
  PROVE  LexemesFit'
<1>1. source' = source /\ mode = "triple"
  BY DEF CloseTriple, InString
<1>2. ASSUME Substring(cur, ThreeQuotes), EmitSlice("String", start + 2, cur + 1, cur + 3, "none")
      PROVE  LexemesFit'
  <2>1. SliceSays("String", start + 2, cur + 1)
    BY <1>2, SliceSaysSo DEF Spelled, Literals
  <2>2. ASSUME InRange(start + 2, cur + 1)
        PROVE  Fits("String", SubSeq(source, (start + 2) + 1, cur + 1), start)
    BY <1>1, <1>2, <2>2, TripleFits
  <2> QED
    BY <1>1, <2>1, <2>2, LiteralFits
<1>3. ASSUME NEW next, EmitError(next, "UnterminatedString") PROVE LexemesFit'
  <2>1. "Error" \notin Literals
    BY DEF Literals, IntLiterals
  <2> QED
    BY <1>1, <1>3, <2>1, PlainEmitFits DEF EmitError
<1> QED
  BY <1>2, <1>3 DEF CloseTriple

\* The other tokens are no literals.
LEMMA PlainKeepsFit ==
  ASSUME Typed, LexemesFit, Identifier \/ Symbol \/ Newline \/ Unexpected \/ StrayBackslash
  PROVE  LexemesFit'
<1>1. source' = source
  BY DEF Identifier, Symbol, Newline, Unexpected, StrayBackslash, Scanning, Joining
<1>2. {"Identifier", "Symbol", "Newline", "Error"} \cap Literals = {}
  BY DEF Literals, IntLiterals
<1>3. \E kind \in {"Identifier", "Symbol", "Newline", "Error"} :
        \E from, to, next, error : EmitSlice(kind, from, to, next, error)
  BY DEF Identifier, Symbol, Newline, Unexpected, StrayBackslash, Emit, EmitError
<1> QED
  BY <1>1, <1>2, <1>3, PlainEmitFits

\* So strings are read, and tokens fit, in every state.
THEOREM ReadAlways == Spec => [](QuotesRead /\ LexemesFit)
<1>1. ASSUME Init PROVE QuotesRead /\ LexemesFit
  BY <1>1 DEF Init, QuotesRead, LexemesFit
<1>2. ASSUME Typed, QuotesRead /\ LexemesFit, [Next]_vars PROVE (QuotesRead /\ LexemesFit)'
  <2>1. CASE SkipBlank \/ SkipLineComment \/ SkipBlockComment \/ SkipReturns
             \/ EndOfSource \/ Backslash \/ JoinLines
    <3>1. source' = source /\ tokens' = tokens /\ mode' \notin {"string", "triple"}
      BY <1>2, <2>1 DEF SkipBlank, SkipLineComment, SkipBlockComment, SkipReturns, EndOfSource, Backslash,
         JoinLines, Skipping, SkipTo, Scanning, Joining, Typed, Placed
    <3> QED
      BY <1>2, <3>1, NoTokenFits DEF QuotesRead
  <2>2. CASE OpenString \/ StringChar \/ TripleChar
    <3>1. source' = source /\ tokens' = tokens
      BY <2>2 DEF OpenString, StringChar, TripleChar, Scanning, InString
    <3> QED
      BY <1>2, <2>2, <3>1, NoTokenFits, OpenStringReads, StringCharReads, TripleCharReads
  <2>3. CASE \/ Identifier \/ Number \/ Symbol \/ Newline \/ Unexpected \/ CharLiteral
             \/ CloseString \/ CloseTriple \/ StrayBackslash
    <3>1. mode' \in {"skip", "panicked"}
      BY <2>3 DEF Identifier, Number, Symbol, Newline, Unexpected, CharLiteral, CloseString, CloseTriple,
         StrayBackslash, Emit, EmitError, EmitSlice
    <3> QED
      BY <1>2, <2>3, <3>1, PlainKeepsFit, NumberKeepsFit, CharLiteralKeepsFit, CloseStringKeepsFit,
         CloseTripleKeepsFit DEF QuotesRead
  <2>4. CASE UNCHANGED vars
    <3>1. source' = source /\ tokens' = tokens
      BY <2>4 DEF vars
    <3>2. QuotesRead'
      BY <1>2, <2>4 DEF vars, QuotesRead, Rest, CharAt, Substring
    <3> QED
      BY <1>2, <3>1, <3>2, NoTokenFits
  <2> QED
    BY <1>2, <2>1, <2>2, <2>3, <2>4 DEF Next
<1> QED
  BY <1>1, <1>2, TypedAlways, PTL DEF Spec

\* Every token has the lexeme that its kind promises: the parser slices and
\* indexes the lexemes of literals of any source without a test.
THEOREM LexemesAlwaysFit == Spec => []LexemesFit
BY ReadAlways, PTL

(***************************************************************************)
(* Which newlines are hidden.                                              *)
(***************************************************************************)
\* Tokens stand one behind the other.
Apart == \A j, k \in DOMAIN tokens : j < k => tokens[j].end <= tokens[k].at

Within(k, p) == tokens[k].at <= p /\ p < tokens[k].end
InToken(p) == \E k \in DOMAIN tokens : Within(k, p)
Triple(k) == tokens[k].kind \in {"String", "Error"} /\ Quotes(tokens[k].at) >= 3

\* The gap that p is in begins at f.
Ends == {0} \cup {tokens[k].end : k \in DOMAIN tokens}
Origin(p, f) == f \in Ends /\ f <= p /\ \A k \in DOMAIN tokens : tokens[k].end <= p => tokens[k].end <= f

\* And p is behind a comment of it that is not closed before.
InOpen(f, p) ==
    \E i \in f..(p - 1) :
        /\ Substring(i, <<"/", "*">>)
        /\ \E waiting \in {0, 1} : IsGap(f, i, waiting)
        /\ \A j \in (i + 1)..(p - 1) : ~Substring(j, <<"*", "/">>)

\* The ends of the tokens are places.
LEMMA EndsPlaces ==
  ASSUME Typed
  PROVE  /\ DOMAIN tokens = 1..Len(tokens) /\ Len(tokens) \in Nat /\ Ends \subseteq Nat
         /\ \A k \in DOMAIN tokens :
               /\ k \in Nat /\ tokens[k].at \in Nat /\ tokens[k].end \in Nat
               /\ tokens[k].at < tokens[k].end /\ tokens[k].end <= cur
<1>1. IsSequence(tokens) /\ TokensPlaced
  BY DEF Typed, TokensWell
<1>2. DOMAIN tokens = 1..Len(tokens) /\ Len(tokens) \in Nat
  BY <1>1, Places
<1> QED
  BY <1>1, <1>2 DEF TokensPlaced, Ends

\* Every gap begins somewhere,
LEMMA OriginExists ==
  ASSUME Typed, NEW p \in Nat
  PROVE  \E f \in Nat : Origin(p, f)
<1> DEFINE D == {d \in Nat : p - d \in Ends}
<1>1. D \subseteq Nat /\ D # {}
  <2>1. p \in D
    BY DEF Ends
  <2> QED
    BY <2>1
<1>2. PICK d \in D : \A e \in D : d <= e
  <2> HIDE DEF D
  <2> QED
    BY <1>1, Least
<1>3. d \in Nat /\ p - d \in Ends /\ p - d \in Nat /\ p - d <= p
  BY <1>2, EndsPlaces
<1>4. ASSUME NEW k \in DOMAIN tokens, tokens[k].end <= p PROVE tokens[k].end <= p - d
  <2>1. tokens[k].end \in Nat /\ tokens[k].end \in Ends
    BY EndsPlaces DEF Ends
  <2>2. p - tokens[k].end \in Nat /\ p - (p - tokens[k].end) = tokens[k].end
    BY <1>4, <2>1
  <2>3. p - tokens[k].end \in D
    BY <2>1, <2>2
  <2>4. d <= p - tokens[k].end
    BY <1>2, <2>3
  <2> QED
    BY <1>3, <2>1, <2>4
<1> QED
  BY <1>3, <1>4 DEF Origin

\* and there only.
LEMMA OriginIsOne ==
  ASSUME Typed, NEW p \in Nat, NEW f, NEW g, Origin(p, f), Origin(p, g)
  PROVE  f = g
<1>1. f \in Nat /\ g \in Nat /\ f <= p /\ g <= p
  BY EndsPlaces DEF Origin
<1>2. f <= g
  BY <1>1 DEF Origin, Ends
<1>3. g <= f
  BY <1>1 DEF Origin, Ends
<1> QED
  BY <1>1, <1>2, <1>3

\* A newline is hidden by the token that it is in, or by the gap.
HiddenRule ==
    Typed /\ Apart =>
        \A p \in Nat :
            /\ \A k \in DOMAIN tokens :
                  Within(k, p) => (Hidden(p) <=> tokens[k].kind # "Newline" /\ ~Triple(k))
            /\ ~InToken(p) => \A f : Origin(p, f) => (Hidden(p) <=> InOpen(f, p))

\* Hidden says so.
LEMMA HiddenIs == HiddenRule
<1>1. SUFFICES ASSUME Typed, Apart, NEW p \in Nat
               PROVE  /\ \A k \in DOMAIN tokens :
                            Within(k, p) => (Hidden(p) <=> tokens[k].kind # "Newline" /\ ~Triple(k))
                      /\ ~InToken(p) => \A f : Origin(p, f) => (Hidden(p) <=> InOpen(f, p))
  BY DEF HiddenRule
<1> DEFINE inside == {k \in DOMAIN tokens : tokens[k].at <= p /\ p < tokens[k].end}
           from == CHOOSE i \in {0} \cup {tokens[k].end : k \in DOMAIN tokens} :
                      i <= p /\ \A k \in DOMAIN tokens : tokens[k].end <= p => tokens[k].end <= i
           open == \E i \in from..(p - 1) :
                      /\ Substring(i, <<"/", "*">>)
                      /\ \E waiting \in {0, 1} : IsGap(from, i, waiting)
                      /\ \A j \in (i + 1)..(p - 1) : ~Substring(j, <<"*", "/">>)
<1>2. Hidden(p) <=> IF inside # {} THEN \A k \in inside : tokens[k].kind # "Newline" /\ ~Triple(k)
                    ELSE open
  BY DEF Hidden, Triple
<1>3. ASSUME NEW k \in DOMAIN tokens, Within(k, p)
      PROVE  Hidden(p) <=> tokens[k].kind # "Newline" /\ ~Triple(k)
  <2>1. k \in inside
    BY <1>3 DEF Within
  <2>2. ASSUME NEW m \in inside PROVE m = k
    <3>1. m \in DOMAIN tokens /\ tokens[m].at <= p /\ p < tokens[m].end
      OBVIOUS
    <3>2. /\ m \in Nat /\ k \in Nat /\ tokens[m].at \in Nat /\ tokens[m].end \in Nat
          /\ tokens[k].at \in Nat /\ tokens[k].end \in Nat
      BY <3>1, EndsPlaces, <1>1
    <3>3. (m < k => tokens[m].end <= tokens[k].at) /\ (k < m => tokens[k].end <= tokens[m].at)
      BY <1>1, <3>1 DEF Apart
    <3> QED
      BY <1>3, <3>1, <3>2, <3>3 DEF Within
  <2> HIDE DEF inside, open
  <2> QED
    BY <1>2, <2>1, <2>2
<1>4. ASSUME ~InToken(p), NEW f, Origin(p, f) PROVE Hidden(p) <=> InOpen(f, p)
  <2>1. inside = {}
    BY <1>4 DEF InToken, Within
  <2>2. from = f
    <3>1. Origin(p, from)
      BY <1>4 DEF Origin, Ends
    <3> HIDE DEF from
    <3> QED
      BY <1>1, <1>4, <3>1, OriginIsOne
  <2>3. open <=> InOpen(f, p)
    <3> HIDE DEF from
    <3> QED
      BY <2>2 DEF InOpen
  <2> HIDE DEF inside, open
  <2> QED
    BY <1>2, <2>1, <2>3
<1> QED
  BY <1>3, <1>4

\* In the next state, too.
LEMMA HiddenIsNext == HiddenRule'
<1>1. HiddenRule
  BY HiddenIs
<1> QED
  BY <1>1, PTL

\* Behind the last token the gap begins where that ends.
LEMMA BehindOrigin ==
  ASSUME Typed, Apart, NEW p \in Nat, Behind <= p
  PROVE  ~InToken(p) /\ Origin(p, Behind)
<1>1. /\ DOMAIN tokens = 1..Len(tokens) /\ Len(tokens) \in Nat /\ IsSequence(tokens)
      /\ \A k \in DOMAIN tokens : k \in Nat /\ tokens[k].at \in Nat /\ tokens[k].end \in Nat
                                    /\ tokens[k].at < tokens[k].end
  BY EndsPlaces DEF Typed, TokensWell
<1>2. CASE tokens = <<>>
  BY <1>1, <1>2 DEF Behind, InToken, Origin, Ends
<1>3. CASE tokens # <<>>
  <2>1. Len(tokens) \in DOMAIN tokens
    BY <1>1, <1>3, Popped
  <2>2. Behind = tokens[Len(tokens)].end /\ Behind \in Nat
    BY <1>1, <1>3, <2>1 DEF Behind, Last
  <2>3. ASSUME NEW k \in DOMAIN tokens PROVE tokens[k].end <= Behind
    <3>1. k < Len(tokens) => tokens[k].end <= tokens[Len(tokens)].at
      BY <2>1 DEF Apart
    <3>2. k \in Nat /\ k <= Len(tokens)
      BY <1>1
    <3> QED
      BY <1>1, <2>1, <2>2, <3>1, <3>2
  <2>4. Behind \in Ends
    BY <2>1, <2>2 DEF Ends
  <2>5. ~InToken(p)
    BY <1>1, <2>2, <2>3 DEF InToken, Within
  <2> QED
    BY <2>3, <2>4, <2>5 DEF Origin
<1> QED
  BY <1>2, <1>3

(***************************************************************************)
(* A gap has one end only: what a comment passes over is no place of it.   *)
(***************************************************************************)
Reaches(f, i) == \E w \in {0, 1} : IsGap(f, i, w)

\* A comment at i is over at j.
Over(i, j) ==
    /\ Substring(i, <<"/", "*">>) => \E k \in (i + 1)..(j - 2) : Substring(k, <<"*", "/">>)
    /\ Substring(i, <<"/", "/">>) => \E k \in i..j : CharAt(k) \in {"newline", "end"}

\* A comment within a longer one is not over before that is.
LEMMA OverFurther ==
  ASSUME NEW i \in Nat, NEW j \in Nat, NEW m \in Nat, j <= m, Over(i, j)
  PROVE  Over(i, m)
<1>1. (i + 1)..(j - 2) \subseteq (i + 1)..(m - 2) /\ i..j \subseteq i..m
  OBVIOUS
<1> QED
  BY <1>1 DEF Over

\* A comment at a place of a gap is over at every later one.
LEMMA CommentsOver ==
  ASSUME source \in Sources, NEW f \in Nat, NEW i \in Nat, NEW j \in Nat, f <= i, i < j,
         Reaches(f, i), Reaches(f, j)
  PROVE  Over(i, j)
<1> DEFINE Good(n) == \A m \in Nat : f <= m /\ m < n /\ Reaches(f, m) /\ Reaches(f, n) => Over(m, n)
           Bad == {n \in Nat : ~Good(n)}
<1>1. SUFFICES ASSUME Bad # {} PROVE FALSE
  OBVIOUS
<1>2. PICK n \in Bad : \A m \in Bad : n <= m
  <2>1. Bad \subseteq Nat
    OBVIOUS
  <2> HIDE DEF Bad
  <2> QED
    BY <1>1, <2>1, Least
<1>3. n \in Nat /\ \A m \in Nat : m < n => Good(m)
  BY <1>2
<1>4. PICK m \in Nat : f <= m /\ m < n /\ Reaches(f, m) /\ Reaches(f, n) /\ ~Over(m, n)
  BY <1>2
<1>5. \A a, b \in Nat : f <= a /\ a < b /\ b < n /\ Reaches(f, a) /\ Reaches(f, b) => Over(a, b)
  BY <1>3
<1> HIDE DEF Bad, Good
<1>6. CharAt(m) = "/" /\ m < Len(source) /\ Len(source) \in Nat
  BY <1>4, Slashes, SourceWell DEF Over
<1>7. PICK w \in {0, 1} : GapSteps(f, n, w)
  BY <1>3, <1>4, GapUnfolds DEF Reaches
<1>8. CASE n = f
  BY <1>4, <1>8
<1>9. ASSUME NEW a \in f..(n - 1), IsIgnored(a, n), IsGap(f, a, w) PROVE FALSE
  <2>1. a \in Nat /\ f <= a /\ a < n /\ Reaches(f, a)
    BY <1>3, <1>9 DEF Reaches
  <2>2. CASE a > m
    BY <1>3, <1>4, <1>5, <2>1, <2>2, OverFurther
  <2>3. CASE a = m
    <3>1. CharAt(a) # "blank"
      BY <1>6, <2>3
    <3>2. CASE Substring(a, <<"/", "/">>) /\ CharAt(n) \in {"newline", "end"}
      <4>1. ~Substring(a, <<"/", "*">>)
        BY <2>1, <3>2, Slashes
      <4>2. n \in a..n
        BY <1>3, <2>1
      <4> QED
        BY <1>4, <2>3, <3>2, <4>1, <4>2 DEF Over
    <3>3. CASE Substring(a, <<"/", "*">>) /\ n > a + 2 /\ Substring(n - 2, <<"*", "/">>)
      <4>1. ~Substring(a, <<"/", "/">>)
        BY <2>1, <3>3, Slashes
      <4>2. n - 2 \in (a + 1)..(n - 2)
        BY <1>3, <2>1, <3>3
      <4> QED
        BY <1>4, <2>3, <3>3, <4>1, <4>2 DEF Over
    <3> QED
      BY <1>9, <3>1, <3>2, <3>3 DEF IsIgnored
  <2>4. CASE a < m
    <3>1. Over(a, m)
      BY <1>4, <1>5, <2>1, <2>4
    <3>2. CASE CharAt(a) = "blank" /\ n = a + 1
      BY <1>4, <2>1, <2>4, <3>2
    <3>3. CASE Substring(a, <<"/", "/">>) /\ \A k \in a..(n - 1) : CharAt(k) # "newline"
      <4>1. PICK k \in a..m : CharAt(k) \in {"newline", "end"}
        BY <3>1, <3>3 DEF Over
      <4>2. k \in Nat /\ k <= m /\ k \in a..(n - 1)
        BY <1>3, <1>4, <2>1, <4>1
      <4>3. CharAt(k) = "end"
        BY <3>3, <4>1, <4>2
      <4> QED
        BY <1>6, <4>2, <4>3, CharWithin
    <3>4. CASE Substring(a, <<"/", "*">>) /\ \A k \in (a + 1)..(n - 3) : ~Substring(k, <<"*", "/">>)
      <4>1. PICK k \in (a + 1)..(m - 2) : Substring(k, <<"*", "/">>)
        BY <3>1, <3>4 DEF Over
      <4>2. k \in (a + 1)..(n - 3)
        BY <1>3, <1>4, <2>1, <4>1
      <4> QED
        BY <3>4, <4>1, <4>2
    <3> QED
      BY <1>9, <3>2, <3>3, <3>4 DEF IsIgnored
  <2> QED
    BY <1>4, <2>1, <2>2, <2>3, <2>4
<1>10. ASSUME n > f, CharAt(n - 1) \in {"backslash", "newline"}, Reaches(f, n - 1) PROVE FALSE
  <2>1. n - 1 \in Nat /\ n - 1 < n
    BY <1>3, <1>4
  <2>2. CASE m = n - 1
    BY <1>6, <1>10, <2>2
  <2>3. CASE m # n - 1
    <3>1. Over(m, n - 1)
      BY <1>3, <1>4, <1>5, <1>10, <2>1, <2>3
    <3> QED
      BY <1>3, <1>4, <2>1, <3>1, OverFurther
  <2> QED
    BY <2>2, <2>3
<1>11. w \in {0, 1} /\ 0 \in {0, 1} /\ 1 \in {0, 1}
  OBVIOUS
<1> QED
  BY <1>7, <1>8, <1>9, <1>10, <1>11 DEF GapSteps, Reaches

\* So no comment is open at a place of the gap,
LEMMA NotInOpen ==
  ASSUME source \in Sources, NEW f \in Nat, NEW p \in Nat, Reaches(f, p)
  PROVE  ~InOpen(f, p)
<1>1. SUFFICES ASSUME InOpen(f, p) PROVE FALSE
  OBVIOUS
<1>2. PICK i \in f..(p - 1) : /\ Substring(i, <<"/", "*">>) /\ Reaches(f, i)
                              /\ \A j \in (i + 1)..(p - 1) : ~Substring(j, <<"*", "/">>)
  BY <1>1 DEF InOpen, Reaches
<1>3. i \in Nat /\ f <= i /\ i < p
  BY <1>2
<1>4. Over(i, p)
  BY <1>2, <1>3, CommentsOver
<1>5. PICK k \in (i + 1)..(p - 2) : Substring(k, <<"*", "/">>)
  BY <1>2, <1>4 DEF Over
<1>6. k \in (i + 1)..(p - 1)
  BY <1>3, <1>5
<1> QED
  BY <1>2, <1>5, <1>6

\* and one is at each newline that is passed over.
LEMMA InOpenComment ==
  ASSUME source \in Sources, NEW f \in Nat, NEW i \in Nat, NEW j \in Nat, NEW p \in i..(j - 1),
         f <= i, Reaches(f, i), IsIgnored(i, j), CharAt(p) = "newline"
  PROVE  InOpen(f, p)
<1>1. p \in Nat /\ i <= p /\ p < j
  OBVIOUS
<1>2. CharAt(i) # "blank" \/ j # i + 1
  BY <1>1
<1>3. PICK w \in {0, 1} : IsGap(f, i, w)
  BY DEF Reaches
<1>4. /\ Substring(i, <<"/", "*">>) /\ j > i + 2 /\ Substring(j - 2, <<"*", "/">>)
      /\ \A k \in (i + 1)..(j - 3) : ~Substring(k, <<"*", "/">>)
  BY <1>2 DEF IsIgnored
<1>5. CharAt(i) = "/" /\ CharAt(j - 2) = "*" /\ CharAt(j - 1) = "/"
  <2>1. j - 2 \in Nat /\ (j - 2) + 1 = j - 1
    BY <1>4
  <2> QED
    BY <1>4, <2>1, Slashes
<1>6. p # i /\ p # j - 2 /\ p # j - 1
  BY <1>5
<1>7. i \in f..(p - 1) /\ (i + 1)..(p - 1) \subseteq (i + 1)..(j - 3)
  BY <1>1, <1>6
<1> QED
  BY <1>3, <1>4, <1>7 DEF InOpen

\* A comment without an end hides all there is behind it.
LEMMA InUnclosed ==
  ASSUME source \in Sources, NEW f \in Nat, NEW i \in Nat, NEW p \in Nat, f <= i, i <= p,
         Reaches(f, i), CharAt(p) = "newline", Substring(i, <<"/", "*">>),
         \A k \in (i + 1)..(p - 1) : ~Substring(k, <<"*", "/">>)
  PROVE  InOpen(f, p)
<1>1. CharAt(i) = "/"
  BY Slashes
<1>2. i \in f..(p - 1)
  BY <1>1
<1> QED
  BY <1>2 DEF InOpen, Reaches

(***************************************************************************)
(* What is hidden stays so.                                                *)
(***************************************************************************)
\* The tokens so far, and those of the next state.
TokensMore ==
    \/ tokens' = tokens
    \/ /\ mode' = "skip"
       /\ \E t : tokens' = Append(tokens, t) /\ t.at = start /\ t.end = cur'

\* The tokens so far are where they were.
LEMMA TokensStay ==
  ASSUME Typed, TokensMore
  PROVE  /\ DOMAIN tokens \subseteq DOMAIN tokens'
         /\ \A k \in DOMAIN tokens : tokens'[k] = tokens[k]
         /\ \A k \in DOMAIN tokens' \ DOMAIN tokens :
               tokens'[k].at = start /\ tokens'[k].end = cur'
<1>1. IsSequence(tokens) /\ DOMAIN tokens = 1..Len(tokens) /\ Len(tokens) \in Nat
  BY EndsPlaces DEF Typed, TokensWell
<1>2. CASE tokens' = tokens
  BY <1>2
<1>3. CASE mode' = "skip" /\ \E t : tokens' = Append(tokens, t) /\ t.at = start /\ t.end = cur'
  <2>1. PICK t : tokens' = Append(tokens, t) /\ t.at = start /\ t.end = cur'
    BY <1>3
  <2>2. /\ DOMAIN tokens' = 1..(Len(tokens) + 1)
        /\ \A k \in 1..Len(tokens) : tokens'[k] = tokens[k]
        /\ tokens'[Len(tokens) + 1] = t
    BY <1>1, <2>1, Appended
  <2>3. \A k \in DOMAIN tokens' \ DOMAIN tokens : k = Len(tokens) + 1
    BY <1>1, <2>2
  <2> QED
    BY <1>1, <1>3, <2>1, <2>2, <2>3
<1> QED
  BY <1>2, <1>3 DEF TokensMore

\* No token reaches behind the last one.
LEMMA BehindIsLast ==
  ASSUME Typed, Apart, NEW k \in DOMAIN tokens
  PROVE  tokens[k].end <= Behind
<1>1. /\ Behind \in Nat /\ tokens[k].at \in Nat /\ tokens[k].end \in Nat
      /\ tokens[k].at < tokens[k].end
  BY BehindPlaced, EndsPlaces
<1>2. SUFFICES ASSUME Behind < tokens[k].end PROVE FALSE
  BY <1>1
<1>3. PICK p \in Nat : p = tokens[k].end - 1
  BY <1>1
<1>4. Behind <= p /\ tokens[k].at <= p /\ p < tokens[k].end
  BY <1>1, <1>2, <1>3
<1> QED
  BY <1>4, BehindOrigin DEF InToken, Within

\* They stay apart.
LEMMA StayApart ==
  ASSUME Typed, Apart, TokensMore, tokens' # tokens => Behind <= start
  PROVE  Apart'
<1>1. CASE tokens' = tokens
  BY <1>1 DEF Apart
<1>2. CASE tokens' # tokens
  <2>1. PICK t : tokens' = Append(tokens, t) /\ t.at = start
    BY <1>2 DEF TokensMore
  <2>2. IsSequence(tokens) /\ DOMAIN tokens = 1..Len(tokens) /\ Len(tokens) \in Nat
    BY EndsPlaces DEF Typed, TokensWell
  <2>3. /\ DOMAIN tokens' = 1..(Len(tokens) + 1)
        /\ \A k \in 1..Len(tokens) : tokens'[k] = tokens[k]
        /\ tokens'[Len(tokens) + 1] = t
    BY <2>1, <2>2, Appended
  <2>4. ASSUME NEW j \in DOMAIN tokens', NEW k \in DOMAIN tokens', j < k
        PROVE  tokens'[j].end <= tokens'[k].at
    <3>1. j \in DOMAIN tokens /\ tokens'[j] = tokens[j]
      BY <2>2, <2>3, <2>4
    <3>2. CASE k = Len(tokens) + 1
      <4>1. tokens[j].end <= Behind /\ Behind <= start /\ tokens'[k].at = start
        BY <1>2, <2>1, <2>3, <3>1, <3>2, BehindIsLast
      <4>2. tokens[j].end \in Nat /\ Behind \in Nat /\ start \in Nat
        BY <3>1, BehindPlaced, EndsPlaces
      <4> QED
        BY <3>1, <4>1, <4>2
    <3>3. CASE k # Len(tokens) + 1
      <4>1. k \in DOMAIN tokens /\ tokens'[k] = tokens[k]
        BY <2>2, <2>3, <3>3
      <4> QED
        BY <2>4, <3>1, <4>1 DEF Apart
    <3> QED
      BY <3>2, <3>3
  <2> QED
    BY <2>4 DEF Apart
<1> QED
  BY <1>1, <1>2

\* A comment that is open stays open.
LEMMA InOpenStays ==
  ASSUME source' = source, NEW f \in Nat, NEW p \in Nat
  PROVE  InOpen(f, p)' <=> InOpen(f, p)
<1>1. \A i, chars : Substring(i, chars)' <=> Substring(i, chars)
  BY SourceStays
<1>2. \A i \in f..(p - 1) : \A w \in {0, 1} : IsGap(f, i, w)' <=> IsGap(f, i, w)
  BY GapStays
<1> QED
  BY <1>1, <1>2 DEF InOpen

\* What is before a token that is emitted is hidden as it was.
LEMMA HiddenStays ==
  ASSUME Typed, Typed', Apart, Apart', source' = source, TokensMore, NEW p \in Nat,
         tokens' # tokens => p < start
  PROVE  Hidden(p)' <=> Hidden(p)
<1>1. /\ cur' \in Nat /\ start \in Nat /\ source \in Sources
      /\ tokens' # tokens => p < start /\ start < cur'
  <2>1. tokens' # tokens => start < cur'
    <3>1. SUFFICES ASSUME tokens' # tokens PROVE start < cur'
      OBVIOUS
    <3>2. PICK t : tokens' = Append(tokens, t) /\ t.at = start /\ t.end = cur'
      BY <3>1 DEF TokensMore
    <3>3. IsSequence(tokens) /\ Len(tokens) \in Nat
      BY EndsPlaces DEF Typed, TokensWell
    <3>4. Len(tokens) + 1 \in DOMAIN tokens' /\ tokens'[Len(tokens) + 1] = t
      BY <3>2, <3>3, Appended
    <3> QED
      BY <3>2, <3>4 DEF Typed, TokensWell, TokensPlaced
  <2> QED
    BY <2>1, TypedFacts, SourceWell DEF Typed, Placed
<1>2. /\ \A k \in DOMAIN tokens : k \in DOMAIN tokens' /\ tokens'[k] = tokens[k]
      /\ \A k \in DOMAIN tokens' \ DOMAIN tokens : tokens'[k].at > p /\ tokens'[k].end > p
  <2>1. \A k \in DOMAIN tokens' \ DOMAIN tokens : tokens' # tokens
    OBVIOUS
  <2> QED
    BY <1>1, <2>1, TokensStay
<1>3. /\ \A k \in DOMAIN tokens :
            Within(k, p) => (Hidden(p) <=> tokens[k].kind # "Newline" /\ ~Triple(k))
      /\ ~InToken(p) => \A f : Origin(p, f) => (Hidden(p) <=> InOpen(f, p))
  BY HiddenIs DEF HiddenRule
<1>4. /\ \A k \in DOMAIN tokens' :
            Within(k, p)' => (Hidden(p)' <=> tokens'[k].kind # "Newline" /\ ~Triple(k)')
      /\ ~InToken(p)' => \A f : Origin(p, f)' => (Hidden(p)' <=> InOpen(f, p)')
  BY HiddenIsNext DEF HiddenRule
<1>5. CASE InToken(p)
  <2>1. PICK k \in DOMAIN tokens : Within(k, p)
    BY <1>5 DEF InToken
  <2>2. k \in DOMAIN tokens' /\ tokens'[k] = tokens[k] /\ Within(k, p)'
    BY <1>2, <2>1 DEF Within
  <2>3. PICK a \in Nat : a = tokens[k].at
    BY <2>1, EndsPlaces
  <2>4. Quotes(a)' = Quotes(a)
    BY <1>1, QuotesStay
  <2>5. Triple(k)' <=> Triple(k)
    BY <2>2, <2>3, <2>4 DEF Triple
  <2> QED
    BY <1>3, <1>4, <2>1, <2>2, <2>5
<1>6. CASE ~InToken(p)
  <2>1. ~InToken(p)'
    <3>1. \A k \in DOMAIN tokens' \ DOMAIN tokens : ~(tokens'[k].at <= p)
      <4>1. \A k \in DOMAIN tokens' \ DOMAIN tokens : tokens'[k].at = start /\ p < start
        BY <1>1, TokensStay
      <4> QED
        BY <1>1, <4>1
    <3> QED
      BY <1>2, <1>6, <3>1 DEF InToken, Within
  <2>2. PICK f \in Nat : Origin(p, f)
    BY OriginExists
  <2>3. Origin(p, f)'
    <3>1. \A k \in DOMAIN tokens' \ DOMAIN tokens : ~(tokens'[k].end <= p)
      <4>1. \A k \in DOMAIN tokens' \ DOMAIN tokens : tokens'[k].end = cur' /\ p < start /\ start < cur'
        BY <1>1, TokensStay
      <4> QED
        BY <1>1, <4>1
    <3>2. f \in Ends'
      BY <1>2, <2>2 DEF Origin, Ends
    <3> QED
      BY <1>2, <2>2, <3>1, <3>2 DEF Origin
  <2>4. InOpen(f, p)' <=> InOpen(f, p)
    BY InOpenStays
  <2> QED
    BY <1>3, <1>4, <1>6, <2>1, <2>2, <2>3, <2>4
<1> QED
  BY <1>5, <1>6

(***************************************************************************)
(* The newlines that count.                                                *)
(***************************************************************************)
Newlines(from, to) == {p \in from..(to - 1) : CharAt(p) = "newline"}
Shown(n) == {p \in 0..(n - 1) : CharAt(p) = "newline" /\ ~Hidden(p)}

\* Those that the line has counted: within a token those before it, and in a
\* string on several lines those in it as well.
Lines ==
    IF mode = "triple" THEN Shown(start) \cup Newlines(start, cur)
    ELSE IF mode \in {"string", "backslash"} \/ caller = "backslash" THEN Shown(start)
    ELSE Shown(cur)

Counted == mode \notin {"done", "panicked"} => line = 1 + Cardinality(Lines)

\* What is between a backslash and its newline is hidden.
JoinHidden == mode = "backslash" \/ caller = "backslash" => \A p \in Newlines(start, cur) : Hidden(p)

LinesKept == Apart /\ Counted /\ JoinHidden

\* The places before n, split at m.
LEMMA SplitPlaces ==
  ASSUME NEW m \in Nat, NEW n \in Nat, m <= n
  PROVE  /\ \A p : p \in 0..(n - 1) <=> p \in 0..(m - 1) \/ p \in m..(n - 1)
         /\ \A p \in m..(n - 1) : p \in Nat /\ m <= p /\ p < n
OBVIOUS

\* These are finite sets.
LEMMA ShownFinite ==
  ASSUME NEW n \in Nat, NEW m \in Nat
  PROVE  IsFiniteSet(Shown(n)) /\ IsFiniteSet(Newlines(m, n)) /\ IsFiniteSet(Shown(m) \cup Newlines(m, n))
<1>1. IsFiniteSet(0..(n - 1)) /\ IsFiniteSet(m..(n - 1)) /\ IsFiniteSet(0..(m - 1))
  BY FS_Interval
<1>2. IsFiniteSet(Shown(n)) /\ IsFiniteSet(Newlines(m, n)) /\ IsFiniteSet(Shown(m))
  BY <1>1, FS_Subset DEF Shown, Newlines
<1> QED
  BY <1>2, FS_Union

\* A few more places, all of which are hidden or no newlines.
LEMMA ShownFurther ==
  ASSUME NEW m \in Nat, NEW n \in Nat, m <= n, \A p \in Newlines(m, n) : Hidden(p)
  PROVE  Shown(n) = Shown(m)
<1>1. \A p : p \in 0..(n - 1) <=> p \in 0..(m - 1) \/ p \in m..(n - 1)
  BY SplitPlaces
<1> QED
  BY <1>1 DEF Shown, Newlines

\* No step changes where the newlines are, nor which of those before the token
\* are hidden.
LEMMA ShownStays ==
  ASSUME Typed, Typed', Apart, Apart', source' = source, TokensMore, NEW n \in Nat, NEW m \in Nat,
         tokens' # tokens => n <= start
  PROVE  Shown(n)' = Shown(n) /\ Newlines(m, n)' = Newlines(m, n)
<1>1. \A p : CharAt(p)' = CharAt(p)
  BY SourceStays
<1>2. start \in Nat
  BY TypedFacts
<1>3. ASSUME NEW p \in 0..(n - 1) PROVE Hidden(p)' <=> Hidden(p)
  <2>1. p \in Nat /\ (tokens' # tokens => p < start)
    BY <1>2
  <2> QED
    BY <2>1, HiddenStays
<1> QED
  BY <1>1, <1>3 DEF Shown, Newlines

\* What a token that is emitted shows: its newlines, if it is one or a string
\* on several lines.
LEMMA EmittedShown ==
  ASSUME Typed, Typed', Apart, Apart', source' = source, mode' = "skip", Behind <= start,
         NEW t, tokens' = Append(tokens, t), t.at = start, t.end = cur',
         NEW s \in Nat, s = start, NEW c \in Nat, c = cur'
  PROVE  /\ s < c
         /\ Shown(c)' = IF t.kind = "Newline" \/ (t.kind \in {"String", "Error"} /\ Quotes(s) >= 3)
                        THEN Shown(s) \cup Newlines(s, c) ELSE Shown(s)
<1>1. IsSequence(tokens) /\ Len(tokens) \in Nat /\ source \in Sources
  BY EndsPlaces DEF Typed, TokensWell
<1>2. PICK k : k = Len(tokens) + 1
  OBVIOUS
<1>3. k \in DOMAIN tokens' /\ tokens'[k] = t
  BY <1>1, <1>2, Appended
<1>4. s < c
  BY <1>3 DEF Typed, TokensWell, TokensPlaced
<1>5. TokensMore
  BY DEF TokensMore
<1>6. Shown(s)' = Shown(s) /\ Newlines(s, s)' = Newlines(s, s)
  BY <1>5, ShownStays
<1>7. \A p : CharAt(p)' = CharAt(p)
  BY SourceStays
<1>8. Quotes(s)' = Quotes(s)
  BY <1>1, QuotesStay
<1>9. Triple(k)' <=> (t.kind \in {"String", "Error"} /\ Quotes(s) >= 3)
  BY <1>3, <1>8 DEF Triple
<1>10. ASSUME NEW p \in Nat, s <= p, p < c
       PROVE  Hidden(p)' <=> (t.kind # "Newline" /\ ~Triple(k)')
  <2>1. Within(k, p)'
    BY <1>3, <1>10 DEF Within
  <2> QED
    BY <1>3, <2>1, HiddenIsNext DEF HiddenRule
<1>11. s <= c
  BY <1>4
<1>12. /\ \A p : p \in 0..(c - 1) <=> p \in 0..(s - 1) \/ p \in s..(c - 1)
       /\ \A p \in s..(c - 1) : p \in Nat /\ s <= p /\ p < c
  BY <1>11, SplitPlaces
<1>13. \A p : p \in Shown(c)'
               <=> p \in Shown(s)' \/ (p \in s..(c - 1) /\ CharAt(p) = "newline" /\ ~Hidden(p)')
  BY <1>7, <1>12 DEF Shown
<1>14. \A p : p \in Newlines(s, c) <=> p \in s..(c - 1) /\ CharAt(p) = "newline"
  BY DEF Newlines
<1> QED
  BY <1>4, <1>6, <1>9, <1>10, <1>12, <1>13, <1>14

\* A slice and its kind.
EmitsKind(kind) ==
    \/ mode' = "panicked" /\ tokens' = tokens
    \/ /\ mode' = "skip"
       /\ \E t : /\ tokens' = Append(tokens, t) /\ t.at = start /\ t.end = cur'
                 /\ t.kind \in {kind, "Error"} /\ (kind \notin Spelled => t.kind = kind)

\* Each slice that is emitted has it.
LEMMA SliceEmitsKind ==
  ASSUME NEW kind, NEW from, NEW to, NEW next, NEW error, EmitSlice(kind, from, to, next, error)
  PROVE  EmitsKind(kind)
<1>1. CASE kind \in Spelled /\ ~InRange(from, to)
  BY <1>1 DEF EmitSlice, EmitsKind
<1>2. CASE ~(kind \in Spelled /\ ~InRange(from, to))
  <2> DEFINE t == [Token(kind, from, to, error) EXCEPT !.end = next]
  <2>1. mode' = "skip" /\ cur' = next /\ tokens' = Append(tokens, t)
    BY <1>2 DEF EmitSlice
  <2>2. t.at = start /\ t.end = next /\ t.kind \in {kind, "Error"} /\ (kind \notin Spelled => t.kind = kind)
    BY DEF Token
  <2> HIDE DEF t
  <2> QED
    BY <2>1, <2>2 DEF EmitsKind
<1> QED
  BY <1>1, <1>2

\* What stands at the start of a token says how many quotes do.
LEMMA QuotesAtStart ==
  ASSUME Typed
  PROVE  /\ CharAt(start) # "quote" => Quotes(start) = 0
         /\ Substring(start, ThreeQuotes) => Quotes(start) >= 3
         /\ ~Substring(start + 1, <<"quote", "quote">>) => ~(Quotes(start) >= 3)
<1>1. source \in Sources /\ start \in Nat
  BY TypedFacts
<1>2. PICK n \in Nat : n = Quotes(start) /\ QuoteRow(start, n)
  BY <1>1, QuotesCount DEF QuoteRow
<1>3. (\A k \in start..(start + n - 1) : CharAt(k) = "quote") /\ CharAt(start + n) # "quote"
  BY <1>2 DEF QuoteRow
<1>4. CharAt(start) # "quote" => n = 0
  BY <1>1, <1>3
<1>5. ASSUME Substring(start, ThreeQuotes) PROVE n >= 3
  <2>1. CharAt(start) = "quote" /\ CharAt(start + 1) = "quote" /\ CharAt(start + 2) = "quote"
    BY <1>1, <1>5, ThreeChars
  <2>2. n # 0 /\ n # 1 /\ n # 2
    BY <1>1, <1>3, <2>1
  <2> QED
    BY <2>2
<1>6. ASSUME n >= 3 PROVE Substring(start + 1, <<"quote", "quote">>)
  <2>1. start + 1 \in start..(start + n - 1) /\ start + 2 \in start..(start + n - 1)
    BY <1>1, <1>6
  <2>2. start + 1 \in Nat /\ (start + 1) + 1 = start + 2 /\ "quote" \in Chars
    BY <1>1 DEF Chars, Others
  <2> QED
    BY <1>1, <1>3, <2>1, <2>2, TwoChars
<1> QED
  BY <1>2, <1>4, <1>5, <1>6

\* A newline that skip_ignored() passes over is hidden.
LEMMA SkipsHidden ==
  ASSUME Typed, Apart, Covered, SkipBlank \/ SkipLineComment \/ SkipBlockComment,
         NEW p \in Newlines(cur, cur')
  PROVE  Hidden(p)
<1>1. /\ mode = "skip" /\ cur < Len(source) /\ cur' \in Nat /\ cur < cur'
      /\ cur' <= Len(source) => IsIgnored(cur, cur')
      /\ cur' > Len(source) => /\ Substring(cur, <<"/", "*">>)
                               /\ \A k \in Nat : k >= cur => ~Substring(k, <<"*", "/">>)
  BY Skips
<1>2. /\ source \in Sources /\ cur \in Nat /\ Len(source) \in Nat /\ Behind \in Nat /\ Behind <= cur
      /\ caller \in {"token", "backslash"}
  BY TypedFacts, BehindPlaced DEF Typed, Placed
<1>3. p \in Nat /\ p \in cur..(cur' - 1) /\ cur <= p /\ Behind <= p /\ CharAt(p) = "newline"
  <2>1. p \in cur..(cur' - 1) /\ CharAt(p) = "newline"
    BY DEF Newlines
  <2>2. PICK c \in Nat, b \in Nat, n \in Nat : c = cur /\ b = Behind /\ n = cur'
    BY <1>1, <1>2
  <2>3. p \in c..(n - 1) /\ b <= c
    BY <1>2, <2>1, <2>2
  <2>4. p \in Nat /\ c <= p /\ b <= p
    BY <2>3
  <2> QED
    BY <2>1, <2>2, <2>4
<1>4. Reaches(Behind, cur)
  BY <1>1, <1>2 DEF Covered, Reaches
<1>5. CASE cur' <= Len(source)
  <2>1. InOpen(Behind, p)
    BY <1>1, <1>2, <1>3, <1>4, <1>5, InOpenComment
  <2> QED
    BY <1>2, <1>3, <2>1, BehindOrigin, HiddenIs DEF HiddenRule
<1>6. CASE cur' > Len(source)
  <2>1. \A k \in (cur + 1)..(p - 1) : ~Substring(k, <<"*", "/">>)
    BY <1>1, <1>2, <1>3, <1>6
  <2>2. InOpen(Behind, p)
    BY <1>1, <1>2, <1>3, <1>4, <1>6, <2>1, InUnclosed
  <2> QED
    BY <1>2, <1>3, <2>2, BehindOrigin, HiddenIs DEF HiddenRule
<1> QED
  BY <1>1, <1>2, <1>5, <1>6

\* A step without a token leaves what is hidden as it is.
LEMMA NoTokenStays ==
  ASSUME Typed, Typed', Apart, source' = source, tokens' = tokens
  PROVE  /\ Apart'
         /\ \A p \in Nat : Hidden(p)' <=> Hidden(p)
         /\ \A n, m \in Nat : Shown(n)' = Shown(n) /\ Newlines(m, n)' = Newlines(m, n)
<1>1. TokensMore
  BY DEF TokensMore
<1>2. Apart'
  BY DEF Apart
<1> QED
  BY <1>1, <1>2, HiddenStays, ShownStays

\* Blanks and comments.
LEMMA SkippingKeepsLines ==
  ASSUME Typed, Typed', Covered, LinesKept, SkipBlank \/ SkipLineComment \/ SkipBlockComment
  PROVE  LinesKept'
<1>1. /\ mode = "skip" /\ mode' = mode /\ cur < cur'
      /\ source' = source /\ start' = start /\ line' = line /\ caller' = caller /\ tokens' = tokens
  BY Skips DEF Skipping
<1>2. PICK c \in Nat, s \in Nat, n \in Nat : c = cur /\ s = start /\ n = cur'
  BY TypedFacts, Skips
<1>3. c < n /\ caller \in {"token", "backslash"}
  BY <1>1, <1>2 DEF Typed, Placed
<1>4. \A p \in Newlines(c, n) : Hidden(p)
  BY <1>2, SkipsHidden DEF LinesKept
<1>5. /\ Apart'
      /\ \A p \in Nat : Hidden(p)' <=> Hidden(p)
      /\ Shown(n)' = Shown(n) /\ Shown(s)' = Shown(s) /\ Newlines(s, n)' = Newlines(s, n)
  BY <1>1, NoTokenStays DEF LinesKept
<1>6. CASE caller = "token"
  <2>1. Lines = Shown(c)
    BY <1>1, <1>2, <1>6 DEF Lines
  <2>2. Lines' = Shown(n)'
    BY <1>1, <1>2, <1>6 DEF Lines
  <2>3. Shown(n) = Shown(c)
    BY <1>3, <1>4, ShownFurther
  <2>4. Counted'
    BY <1>1, <1>5, <2>1, <2>2, <2>3 DEF LinesKept, Counted
  <2> QED
    BY <1>1, <1>5, <1>6, <2>4 DEF LinesKept, JoinHidden
<1>7. CASE caller = "backslash"
  <2>1. Lines = Shown(s)
    BY <1>1, <1>2, <1>7 DEF Lines
  <2>2. Lines' = Shown(s)'
    BY <1>1, <1>2, <1>7 DEF Lines
  <2>3. Counted'
    BY <1>1, <1>5, <2>1, <2>2 DEF LinesKept, Counted
  <2>4. ASSUME NEW p \in Newlines(s, n) PROVE Hidden(p)'
    <3>1. p \in Newlines(s, c) \/ p \in Newlines(c, n)
      BY <1>3 DEF Newlines
    <3>2. p \in Nat
      BY <1>3 DEF Newlines
    <3> QED
      BY <1>2, <1>4, <1>5, <1>7, <3>1, <3>2 DEF LinesKept, JoinHidden
  <2>5. JoinHidden'
    BY <1>1, <1>2, <1>5, <2>4 DEF JoinHidden
  <2> QED
    BY <1>5, <2>3, <2>5 DEF LinesKept
<1> QED
  BY <1>3, <1>6, <1>7

\* The end of skip_ignored().
LEMMA SkipReturnsKeepsLines ==
  ASSUME Typed, Typed', LinesKept, SkipReturns
  PROVE  LinesKept'
<1>1. /\ mode = "skip" /\ mode' = caller /\ caller' = "token"
      /\ start' = IF caller = "token" THEN cur ELSE start
      /\ source' = source /\ cur' = cur /\ line' = line /\ tokens' = tokens
  BY DEF SkipReturns
<1>2. PICK c \in Nat, s \in Nat : c = cur /\ s = start
  BY TypedFacts
<1>3. /\ Apart'
      /\ \A p \in Nat : Hidden(p)' <=> Hidden(p)
      /\ Shown(c)' = Shown(c) /\ Shown(s)' = Shown(s) /\ Newlines(s, c)' = Newlines(s, c)
  BY <1>1, NoTokenStays DEF LinesKept
<1>4. CASE caller = "token"
  <2>1. Lines = Shown(c) /\ Lines' = Shown(c)'
    BY <1>1, <1>2, <1>4 DEF Lines
  <2>2. Counted'
    BY <1>1, <1>3, <2>1 DEF LinesKept, Counted
  <2> QED
    BY <1>1, <1>3, <1>4, <2>2 DEF LinesKept, JoinHidden
<1>5. CASE caller = "backslash"
  <2>1. Lines = Shown(s) /\ Lines' = Shown(s)'
    BY <1>1, <1>2, <1>5 DEF Lines
  <2>2. Counted'
    BY <1>1, <1>3, <2>1 DEF LinesKept, Counted
  <2>3. ASSUME NEW p \in Newlines(s, c) PROVE Hidden(p)'
    <3>1. p \in Nat
      BY DEF Newlines
    <3> QED
      BY <1>2, <1>3, <1>5, <3>1 DEF LinesKept, JoinHidden
  <2>4. JoinHidden'
    BY <1>1, <1>2, <1>3, <1>5, <2>3 DEF JoinHidden
  <2> QED
    BY <1>3, <2>2, <2>4 DEF LinesKept
<1> QED
  BY <1>4, <1>5 DEF Typed, Placed

\* A token that shows no newline, where those before it are counted.
LEMMA EmitKeepsLines ==
  ASSUME Typed, Typed', LinesKept, source' = source, caller' = "token", line' = line, Behind <= start,
         mode \notin {"done", "panicked"}, Lines = Shown(start), ~(Quotes(start) >= 3),
         NEW kind, kind # "Newline", EmitsKind(kind)
  PROVE  LinesKept'
<1>1. TokensMore /\ Apart'
  <2>1. TokensMore
    BY DEF EmitsKind, TokensMore
  <2> QED
    BY <2>1, StayApart DEF LinesKept
<1>2. CASE mode' = "panicked"
  BY <1>1, <1>2 DEF LinesKept, Counted, JoinHidden
<1>3. CASE mode' # "panicked"
  <2>1. PICK t : /\ tokens' = Append(tokens, t) /\ t.at = start /\ t.end = cur' /\ t.kind # "Newline"
    BY <1>3 DEF EmitsKind
  <2>2. mode' = "skip"
    BY <1>3 DEF EmitsKind
  <2>3. PICK s \in Nat, c \in Nat : s = start /\ c = cur'
    BY SourceWell, TypedFacts DEF Typed, Placed
  <2>4. Shown(c)' = Shown(s)
    BY <1>1, <2>1, <2>2, <2>3, EmittedShown DEF LinesKept
  <2>5. Lines' = Shown(c)'
    BY <2>2, <2>3 DEF Lines
  <2>6. Counted'
    BY <2>3, <2>4, <2>5 DEF LinesKept, Counted
  <2> QED
    BY <1>1, <2>2, <2>6 DEF LinesKept, JoinHidden
<1> QED
  BY <1>2, <1>3

\* Within a token, what is before it is counted.
LEMMA LinesBefore ==
  ASSUME Typed, mode \in {"token", "string", "backslash"}
  PROVE  Lines = Shown(start)
BY DEF Lines, Typed, Placed

\* The base of a number is one of three.
LEMMA NumberKind ==
  (CASE Base = 10 -> "DecInt" [] Base = 16 -> "HexInt" [] Base = 2 -> "BinInt")
    \in {"DecInt", "HexInt", "BinInt"}
<1>1. Base \in {2, 10, 16}
  BY DEF Base
<1> HIDE DEF Base
<1> QED
  BY <1>1

\* The tokens but newlines and strings on several lines.
LEMMA PlainKeepsLines ==
  ASSUME Typed, Typed', Covered, QuotesRead, LinesKept,
         Identifier \/ Number \/ Symbol \/ Unexpected \/ CharLiteral \/ CloseString \/ StrayBackslash
  PROVE  LinesKept'
<1>1. source' = source /\ caller' = "token" /\ line' = line /\ mode \in {"token", "string", "backslash"}
  <2>1. CASE Identifier \/ Number \/ Symbol \/ Unexpected \/ CharLiteral
    BY <2>1 DEF Identifier, Number, Symbol, Unexpected, CharLiteral, Scanning, InLine, Typed, Placed
  <2>2. CASE CloseString \/ StrayBackslash
    BY <2>2 DEF CloseString, StrayBackslash, InString, Joining, Typed, Placed
  <2> QED
    BY <2>1, <2>2
<1>2. \E kind : kind # "Newline" /\ EmitsKind(kind)
  <2>1. CASE Identifier \/ Symbol \/ Unexpected
    BY <2>1, SliceEmitsKind DEF Identifier, Symbol, Unexpected, Emit, EmitError
  <2>2. CASE Number
    <3>1. \E kind \in {"Float", "DecInt", "HexInt", "BinInt"} :
             \E next : EmitSlice(kind, start, next, next, "none")
      BY <2>2, NumberKind DEF Number, Emit
    <3>2. PICK kind \in {"Float", "DecInt", "HexInt", "BinInt"} :
             \E next : EmitSlice(kind, start, next, next, "none")
      BY <3>1
    <3>3. EmitsKind(kind) /\ kind # "Newline"
      BY <3>2, SliceEmitsKind
    <3> QED
      BY <3>3
  <2>3. CASE CharLiteral
    BY <2>3, SliceEmitsKind DEF CharLiteral, Emit, EmitError
  <2>4. CASE CloseString
    BY <2>4, SliceEmitsKind DEF CloseString, Emit, EmitError
  <2>5. CASE StrayBackslash
    BY <2>5, SliceEmitsKind DEF StrayBackslash
  <2> QED
    BY <2>1, <2>2, <2>3, <2>4, <2>5
<1>3. Behind <= start
  <2>1. CASE mode = "token"
    BY <2>1, BehindPlaced DEF Typed, Placed
  <2>2. CASE mode \in {"string", "backslash"}
    BY <2>2, CoveredFacts
  <2> QED
    BY <1>1, <2>1, <2>2
<1>4. ~(Quotes(start) >= 3)
  <2>1. CASE CloseString
    BY <2>1, QuotesAtStart DEF CloseString, InString, QuotesRead
  <2>2. CASE StrayBackslash
    BY <2>2, QuotesAtStart DEF StrayBackslash, Joining, Typed, BehindBackslash
  <2>3. CASE Identifier \/ Number \/ Symbol \/ Unexpected \/ CharLiteral
    <3>1. Peek # "quote" /\ mode = "token"
      BY <2>3 DEF Identifier, Number, Symbol, Unexpected, CharLiteral, Scanning, Letters, Digits, Pairs
    <3>2. CharAt(start) # "quote"
      BY <3>1 DEF Peek, Typed, Placed
    <3> QED
      BY <3>2, QuotesAtStart
  <2> QED
    BY <2>1, <2>2, <2>3
<1> QED
  BY <1>1, <1>2, <1>3, <1>4, LinesBefore, EmitKeepsLines

\* A newline between two lines counts.
LEMMA NewlineKeepsLines ==
  ASSUME Typed, Typed', Covered, LinesKept, Newline
  PROVE  LinesKept'
<1>1. /\ source' = source /\ caller' = caller /\ line' = line + 1 /\ mode = "token"
      /\ CharAt(cur) = "newline" /\ EmitSlice("Newline", start, cur + 1, cur + 1, "none")
  BY DEF Newline, Scanning, Emit, Peek
<1>2. mode' = "skip" /\ cur' = cur + 1
  BY <1>1 DEF EmitSlice, Spelled, Literals, IntLiterals
<1>3. EmitsKind("Newline") /\ "Newline" \notin Spelled
  BY <1>1, SliceEmitsKind DEF Spelled, Literals, IntLiterals
<1>4. PICK t : tokens' = Append(tokens, t) /\ t.at = start /\ t.end = cur' /\ t.kind = "Newline"
  BY <1>2, <1>3 DEF EmitsKind
<1>5. start = cur /\ caller = "token" /\ Behind <= start
  BY <1>1, BehindPlaced DEF Typed, Placed
<1>6. TokensMore /\ Apart'
  <2>1. TokensMore
    BY <1>2, <1>4 DEF TokensMore
  <2> QED
    BY <1>5, <2>1, StayApart DEF LinesKept
<1>7. PICK s \in Nat, c \in Nat : s = start /\ c = s + 1
  BY TypedFacts
<1>8. c = cur'
  BY <1>2, <1>5, <1>7
<1>9. Shown(c)' = Shown(s) \cup Newlines(s, c)
  BY <1>1, <1>2, <1>4, <1>5, <1>6, <1>7, <1>8, EmittedShown DEF LinesKept
<1>10. Newlines(s, c) = {s} /\ s \notin Shown(s)
  <2>1. \A p : p \in s..(c - 1) <=> p = s
    BY <1>7
  <2>2. s \notin 0..(s - 1)
    OBVIOUS
  <2> QED
    BY <1>1, <1>5, <1>7, <2>1, <2>2 DEF Newlines, Shown
<1>11. Cardinality(Shown(s) \cup {s}) = Cardinality(Shown(s)) + 1 /\ Cardinality(Shown(s)) \in Nat
  BY <1>10, ShownFinite, FS_AddElement, FS_CardinalityType
<1>12. Lines' = Shown(c)' /\ Lines = Shown(s)
  BY <1>1, <1>2, <1>5, <1>7, <1>8, LinesBefore DEF Lines
<1>13. Counted'
  <2>1. line = 1 + Cardinality(Shown(s))
    BY <1>1, <1>12 DEF LinesKept, Counted
  <2>2. Cardinality(Lines') = Cardinality(Shown(s)) + 1
    BY <1>9, <1>10, <1>11, <1>12
  <2>3. line' = 1 + Cardinality(Lines')
    BY <1>1, <1>11, <2>1, <2>2
  <2> QED
    BY <2>3 DEF Counted
<1> QED
  BY <1>1, <1>2, <1>5, <1>6, <1>13 DEF LinesKept, JoinHidden

\* A string on several lines has counted its own.
LEMMA CloseTripleKeepsLines ==
  ASSUME Typed, Typed', Covered, LinesKept, CloseTriple
  PROVE  LinesKept'
<1>1. source' = source /\ caller' = caller /\ caller = "token" /\ line' = line /\ mode = "triple"
  BY DEF CloseTriple, InString, Typed, Placed
<1>2. EmitsKind("String") \/ EmitsKind("Error")
  BY SliceEmitsKind DEF CloseTriple, EmitError
<1>3. Behind <= start
  BY <1>1, CoveredFacts
<1>4. TokensMore /\ Apart'
  <2>1. TokensMore
    BY <1>2 DEF EmitsKind, TokensMore
  <2> QED
    BY <1>3, <2>1, StayApart DEF LinesKept
<1>5. CASE mode' = "panicked"
  BY <1>1, <1>4, <1>5 DEF LinesKept, Counted, JoinHidden
<1>6. CASE mode' # "panicked"
  <2>1. PICK t : /\ tokens' = Append(tokens, t) /\ t.at = start /\ t.end = cur'
                 /\ t.kind \in {"String", "Error"}
    BY <1>2, <1>6 DEF EmitsKind
  <2>2. mode' = "skip"
    BY <1>2, <1>6 DEF EmitsKind
  <2>3. PICK s \in Nat, c \in Nat, d \in Nat : s = start /\ c = cur' /\ d = cur
    BY SourceWell, TypedFacts DEF Typed, Placed
  <2>4. Quotes(s) >= 3
    BY <1>1, <2>3, QuotesAtStart DEF Typed, InStrings
  <2>5. Shown(c)' = Shown(s) \cup Newlines(s, c)
    BY <1>1, <1>3, <1>4, <2>1, <2>2, <2>3, <2>4, EmittedShown DEF LinesKept
  <2>6. Newlines(s, c) = Newlines(s, d)
    <3>1. c = d \/ (c = d + 3 /\ Substring(d, ThreeQuotes))
      BY <2>2, <2>3 DEF CloseTriple, EmitError, EmitSlice, EndOfOpenTriple
    <3>2. CASE c = d
      BY <3>2
    <3>3. CASE c = d + 3 /\ Substring(d, ThreeQuotes)
      <4>1. CharAt(d) = "quote" /\ CharAt(d + 1) = "quote" /\ CharAt(d + 2) = "quote"
        BY <3>3, ThreeChars, TypedFacts
      <4>2. s < d
        BY <1>1, <2>3 DEF Typed, InStrings
      <4>3. \A p : p \in s..(c - 1) <=> p \in s..(d - 1) \/ p = d \/ p = d + 1 \/ p = d + 2
        BY <3>3, <4>2
      <4> QED
        BY <4>1, <4>3 DEF Newlines
    <3> QED
      BY <3>1, <3>2, <3>3
  <2>7. Lines' = Shown(c)' /\ Lines = Shown(s) \cup Newlines(s, d)
    BY <1>1, <2>2, <2>3 DEF Lines
  <2>8. Counted'
    BY <1>1, <2>5, <2>6, <2>7 DEF LinesKept, Counted
  <2> QED
    BY <1>1, <1>4, <2>2, <2>8 DEF LinesKept, JoinHidden
<1> QED
  BY <1>5, <1>6

\* The steps within a string, and the end of the source.
LEMMA WithinKeepsLines ==
  ASSUME Typed, Typed', Covered, LinesKept, EndOfSource \/ OpenString \/ StringChar \/ TripleChar
  PROVE  LinesKept'
<1>1. /\ source' = source /\ caller' = caller /\ start' = start /\ tokens' = tokens /\ mode' # "backslash"
      /\ mode # "skip" /\ caller = "token"
  BY DEF EndOfSource, OpenString, StringChar, TripleChar, Scanning, InLine, InString, Typed, Placed
<1>2. source \in Sources /\ Len(source) \in Nat
  BY TypedFacts
<1>3. PICK s \in Nat, c \in Nat, d \in Nat : s = start /\ c = cur /\ d = cur'
  BY SourceWell, TypedFacts DEF Typed, Placed
<1>4. Apart' /\ Shown(s)' = Shown(s) /\ Newlines(s, d)' = Newlines(s, d)
  BY <1>1, <1>3, NoTokenStays DEF LinesKept
<1>5. JoinHidden'
  BY <1>1 DEF JoinHidden
<1>6. CASE EndOfSource
  BY <1>4, <1>5, <1>6 DEF EndOfSource, LinesKept, Counted
<1>7. CASE OpenString
  <2>1. mode = "token" /\ mode' \in {"string", "triple"} /\ d = c + 1 /\ line' = line /\ CharAt(c) = "quote"
    BY <1>3, <1>7 DEF OpenString, Scanning, InLine, Peek
  <2>2. s = c /\ Lines = Shown(s)
    BY <1>3, <2>1, LinesBefore DEF Typed, Placed
  <2>3. Newlines(s, d) = {}
    <3>1. \A p : p \in s..(d - 1) => p = s
      BY <2>1, <2>2
    <3> QED
      BY <2>1, <2>2, <3>1 DEF Newlines
  <2>4. Lines' = Shown(s)' \/ Lines' = Shown(s)' \cup Newlines(s, d)'
    BY <1>1, <1>3, <2>1 DEF Lines
  <2>5. Lines' = Shown(s)
    BY <1>4, <2>3, <2>4
  <2> QED
    BY <1>4, <1>5, <2>1, <2>2, <2>5 DEF LinesKept, Counted
<1>8. CASE StringChar
  <2>1. mode = "string" /\ mode' = mode /\ line' = line
    BY <1>8 DEF StringChar, InString
  <2>2. Lines = Shown(s) /\ Lines' = Shown(s)'
    BY <1>3, <1>1, <2>1 DEF Lines
  <2> QED
    BY <1>4, <1>5, <2>1, <2>2 DEF LinesKept, Counted
<1>9. CASE TripleChar
  <2>1. /\ mode = "triple" /\ mode' = mode
        /\ line' = IF CharAt(c) = "newline" THEN line + 1 ELSE line
        /\ d = IF CharAt(c + 1) = "backslash" THEN c + 2 ELSE c + 1
    BY <1>3, <1>9 DEF TripleChar, InString, CountLine, Peek, PeekAhead
  <2>2. Lines = Shown(s) \cup Newlines(s, c) /\ Lines' = Shown(s)' \cup Newlines(s, d)'
    BY <1>1, <1>3, <2>1 DEF Lines
  <2>3. s < c
    BY <1>3, <2>1 DEF Typed, InStrings
  <2>4. Newlines(s, d) = Newlines(s, c) \cup (IF CharAt(c) = "newline" THEN {c} ELSE {})
    <3>1. \A p : p \in s..(d - 1) <=> p \in s..(c - 1) \/ p = c \/ (p = c + 1 /\ CharAt(c + 1) = "backslash")
      BY <2>1, <2>3
    <3> QED
      BY <3>1 DEF Newlines
  <2>5. c \notin Shown(s) \cup Newlines(s, c)
    <3>1. c \notin 0..(s - 1) /\ c \notin s..(c - 1)
      BY <2>3
    <3> QED
      BY <3>1 DEF Shown, Newlines
  <2>6. PICK lines : lines = Shown(s) \cup Newlines(s, c)
    OBVIOUS
  <2>7. IsFiniteSet(lines) /\ Cardinality(lines) \in Nat /\ line = 1 + Cardinality(lines)
    <3>1. line = 1 + Cardinality(lines)
      BY <2>1, <2>2, <2>6 DEF LinesKept, Counted
    <3> QED
      BY <2>6, <3>1, ShownFinite, FS_CardinalityType
  <2>8. CASE CharAt(c) = "newline"
    <3>1. Lines' = lines \cup {c}
      BY <1>4, <2>2, <2>4, <2>6, <2>8
    <3>2. Cardinality(lines \cup {c}) = Cardinality(lines) + 1
      BY <2>5, <2>6, <2>7, FS_AddElement
    <3>3. line' = 1 + Cardinality(Lines')
      BY <2>1, <2>7, <2>8, <3>1, <3>2
    <3> QED
      BY <1>4, <1>5, <3>3 DEF LinesKept, Counted
  <2>9. CASE CharAt(c) # "newline"
    <3>1. Lines' = lines
      BY <1>4, <2>2, <2>4, <2>6, <2>9
    <3> QED
      BY <1>4, <1>5, <2>1, <2>7, <2>9, <3>1 DEF LinesKept, Counted
  <2> QED
    BY <2>8, <2>9
<1> QED
  BY <1>6, <1>7, <1>8, <1>9

\* A backslash is no newline,
LEMMA BackslashKeepsLines ==
  ASSUME Typed, Typed', LinesKept, Backslash
  PROVE  LinesKept'
<1>1. /\ source' = source /\ start' = start /\ line' = line /\ tokens' = tokens
      /\ mode = "token" /\ mode' = "skip" /\ caller' = "backslash" /\ cur' = cur + 1
      /\ CharAt(cur) = "backslash"
  BY DEF Backslash, Scanning, Peek
<1>2. PICK s \in Nat, d \in Nat : s = start /\ s = cur /\ d = s + 1 /\ d = cur'
  BY <1>1, TypedFacts DEF Typed, Placed
<1>3. Apart' /\ Shown(s)' = Shown(s) /\ Newlines(s, d)' = Newlines(s, d)
  BY <1>1, NoTokenStays DEF LinesKept
<1>4. Newlines(s, d) = {}
  <2>1. \A p : p \in s..(d - 1) => p = s
    BY <1>2
  <2> QED
    BY <1>1, <1>2, <2>1 DEF Newlines
<1>5. JoinHidden'
  BY <1>1, <1>2, <1>3, <1>4 DEF JoinHidden
<1>6. Lines = Shown(s) /\ Lines' = Shown(s)'
  BY <1>1, <1>2, LinesBefore DEF Lines
<1> QED
  BY <1>1, <1>3, <1>5, <1>6 DEF LinesKept, Counted

\* and the newline that it joins is one line more.
LEMMA JoinLinesKeepsLines ==
  ASSUME Typed, Typed', Covered, LinesKept, JoinLines
  PROVE  LinesKept'
<1>1. /\ source' = source /\ start' = start /\ line' = line + 1 /\ tokens' = tokens
      /\ mode = "backslash" /\ mode' = "skip" /\ caller' = caller /\ cur' = cur + 1
      /\ CharAt(cur) = "newline" /\ caller = "token"
  BY DEF JoinLines, Joining, Peek, Typed, Placed
<1>2. PICK s \in Nat, c \in Nat, d \in Nat, b \in Nat :
        s = start /\ c = cur /\ d = c + 1 /\ d = cur' /\ b = Behind
  BY <1>1, BehindPlaced
<1>3. source \in Sources /\ s < c /\ b <= c /\ c < Len(source)
  BY <1>1, <1>2, BehindPlaced, CharWithin DEF Typed, BehindBackslash
<1>4. Apart' /\ Shown(d)' = Shown(d)
  BY <1>1, NoTokenStays DEF LinesKept
<1>5. ~Hidden(c)
  <2>1. Reaches(b, c)
    BY <1>1, <1>2, <1>3, BehindPlaced DEF Covered, Reaches
  <2>2. ~InOpen(b, c)
    BY <1>3, <2>1, NotInOpen
  <2> QED
    BY <1>2, <1>3, <2>2, BehindOrigin, HiddenIs DEF HiddenRule, LinesKept
<1>6. Shown(c) = Shown(s)
  <2>1. \A p \in Newlines(s, c) : Hidden(p)
    BY <1>1, <1>2 DEF LinesKept, JoinHidden
  <2> QED
    BY <1>3, <2>1, ShownFurther
<1>7. Shown(d) = Shown(c) \cup {c} /\ c \notin Shown(c)
  <2>1. \A p : p \in 0..(d - 1) <=> p \in 0..(c - 1) \/ p = c
    BY <1>2
  <2>2. c \notin 0..(c - 1)
    OBVIOUS
  <2> QED
    BY <1>1, <1>2, <1>5, <2>1, <2>2 DEF Shown
<1>8. Cardinality(Shown(d)) = Cardinality(Shown(s)) + 1 /\ Cardinality(Shown(s)) \in Nat
  BY <1>6, <1>7, ShownFinite, FS_AddElement, FS_CardinalityType
<1>9. Lines = Shown(s) /\ Lines' = Shown(d)'
  BY <1>1, <1>2, LinesBefore DEF Lines
<1>10. Counted'
  <2>1. line = 1 + Cardinality(Shown(s))
    BY <1>1, <1>9 DEF LinesKept, Counted
  <2>2. line' = 1 + Cardinality(Lines')
    BY <1>1, <1>4, <1>8, <1>9, <2>1
  <2> QED
    BY <2>2 DEF Counted
<1> QED
  BY <1>1, <1>4, <1>10 DEF LinesKept, JoinHidden

\* A step that does nothing.
LEMMA StutterKeepsLines ==
  ASSUME Typed, Typed', LinesKept, UNCHANGED vars
  PROVE  LinesKept'
<1>1. /\ mode' = mode /\ caller' = caller /\ start' = start /\ cur' = cur
      /\ source' = source /\ tokens' = tokens /\ line' = line
  BY DEF vars
<1>2. PICK s \in Nat, c \in Nat : s = start /\ c = cur
  BY TypedFacts
<1>3. /\ Apart'
      /\ \A p \in Nat : Hidden(p)' <=> Hidden(p)
      /\ Shown(c)' = Shown(c) /\ Shown(s)' = Shown(s) /\ Newlines(s, c)' = Newlines(s, c)
  BY <1>1, NoTokenStays DEF LinesKept
<1>4. Lines' = Lines
  <2>1. start' = s /\ cur' = c
    BY <1>1, <1>2
  <2> QED
    BY <1>1, <1>2, <1>3, <2>1 DEF Lines
<1>5. \A p \in Newlines(s, c) : p \in Nat
  BY DEF Newlines
<1>6. JoinHidden'
  BY <1>1, <1>2, <1>3, <1>5 DEF LinesKept, JoinHidden
<1> QED
  BY <1>1, <1>3, <1>4, <1>6 DEF LinesKept, Counted

\* Between two tokens the line is that of the cursor, less the newlines that do
\* not count: an error of any source is reported on the line of its token.
THEOREM LinesAlwaysCounted == Spec => []LinesCounted
<1>1. ASSUME Init PROVE LinesKept
  <2>1. tokens = <<>> /\ mode = "skip" /\ caller = "token" /\ cur = 0 /\ line = 1
    BY <1>1 DEF Init
  <2>2. DOMAIN tokens = {}
    BY <2>1
  <2>3. Lines = {}
    <3>1. 0..(0 - 1) = {}
      OBVIOUS
    <3> QED
      BY <2>1, <3>1 DEF Lines, Shown
  <2>4. Cardinality(Lines) = 0
    BY <2>3, FS_EmptySet
  <2> QED
    BY <2>1, <2>2, <2>4 DEF LinesKept, Apart, Counted, JoinHidden
<1>2. ASSUME Typed, Typed', Covered, QuotesRead, LinesKept, [Next]_vars PROVE LinesKept'
  BY <1>2, SkippingKeepsLines, SkipReturnsKeepsLines, PlainKeepsLines, NewlineKeepsLines,
     CloseTripleKeepsLines, WithinKeepsLines, BackslashKeepsLines, JoinLinesKeepsLines,
     StutterKeepsLines DEF Next
<1>3. ASSUME Typed, LinesKept PROVE LinesCounted
  <2>1. SUFFICES ASSUME mode = "token"
                 PROVE  line = 1 + Cardinality({p \in 0..(cur - 1) : CharAt(p) = "newline" /\ ~Hidden(p)})
    BY DEF LinesCounted
  <2>2. Lines = Shown(cur)
    BY <1>3, <2>1 DEF Lines, Typed, Placed
  <2> QED
    BY <1>3, <2>1, <2>2 DEF LinesKept, Counted, Shown
<1> QED
  BY <1>1, <1>2, <1>3, TypedAlways, CoveredAlways, ReadAlways, PTL DEF Spec
===============================================================================
