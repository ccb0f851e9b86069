----------------------------- MODULE ParserProofs -----------------------------
(***************************************************************************)
(* For every source, every table of operators and every depth of nesting:  *)
(* newlines end statements again wherever a declaration begins, the tokens *)
(* that become part of the syntax tree are what they are taken for, and a  *)
(* source is accepted only if its brackets are closed in their order.      *)
(***************************************************************************)
EXTENDS Parser, SharedFacts

(***************************************************************************)
(* Steps and their neighbours.                                             *)
(***************************************************************************)
\* Steps that a declaration can still begin within, and those of the type and
\* the name of a field.
StatementNames ==
    {"program", "declaration", "declare", "statement", "statement_kind", "block", "body", "else"}
FieldNames ==
    {"skip", "expect", "take", "need_type", "list_type", "type_params", "more_types", "ret_type"}

\* What a step asks of its argument.
IsStep(step) ==
    /\ step[1] \in {"series", "loop_series", "loop", "boolean"} => step[2] \in DOMAIN Levels
    /\ step[1] \in {"expression", "assign", "restore"} => step[2] \in BOOLEAN
    /\ step[1] = "fields" => step = Do("fields")
    /\ step[1] = "skip" => step = Skip
    /\ step[1] = "expect" => step = Expect(step[2]) /\ step[2] # "["
    /\ step[1] \in {"expr_list", "more_exprs"} => step[2] \in {")", "]"}

\* What a step asks of the one after it, and a token that is taken of the one
\* before it.
IsOpener(step) == step[1] = "expect" /\ step[2] \in {"(", "{"}
May(a, b) ==
    /\ IsOpener(a) => \/ a[2] = "(" /\ b[1] \in {"params", "type_params"}
                      \/ a[2] = "{" /\ b[1] \in {"block", "fields"}
    /\ b[1] = "take" => \/ b[2] = "unary"
                        \/ a[1] = "expect" /\ a[2] = "identifier" /\ b[2] \in {"name", "property"}
    /\ b[1] = "fields" => a[1] = "skip" \/ (a[1] = "expect" /\ a[2] = "{")

Linked(s) ==
    /\ IsSequence(s)
    /\ \A i \in DOMAIN s : IsStep(s[i])
    /\ \A i \in DOMAIN s : IsOpener(s[i]) => i + 1 \in DOMAIN s
    /\ \A i \in DOMAIN s : i + 1 \in DOMAIN s => May(s[i], s[i + 1])

\* Above the fields of a struct there is nothing but a field, and below the
\* program nothing at all.
InFields(s) ==
    \A i, j \in DOMAIN s : s[j][1] \in {"field", "fields"} /\ i < j => s[i][1] \in FieldNames
ProgramLast(s) == \A i \in DOMAIN s : s[i][1] = "program" => i = Len(s)

\* Wherever a declaration can begin the flag will be off: it is off now, or a
\* step before it brings that setting back.
NoRestore(s, first, last) == \A k \in first..last : s[k][1] # "restore"
FlagOff(s, flag) ==
    \A i \in DOMAIN s : s[i][1] \in StatementNames =>
       /\ NoRestore(s, 1, i - 1) => flag = FALSE
       /\ \A j \in 1..(i - 1) : s[j][1] = "restore" /\ NoRestore(s, j + 1, i - 1) => s[j][2] = FALSE

\* The steps that a method h does instead of itself.
Pushes(h, steps) ==
    /\ Linked(steps) /\ InFields(steps)
    /\ \A i \in DOMAIN steps :
         /\ steps[i][1] = "program" => i = Len(steps) /\ h[1] = "program"
         /\ steps[i][1] # "advance"
         /\ steps[i][1] \in StatementNames => h[1] \in StatementNames
         /\ h[1] \in FieldNames => steps[i][1] \in FieldNames
    /\ h[1] \in {"skip", "expect"} => steps = <<>>

(***************************************************************************)
(* The stack of steps is rewritten at its top.                             *)
(***************************************************************************)
\* What the stack is after its top was replaced.
LEMMA Rewritten ==
  ASSUME NEW s, IsSequence(s), s # <<>>, NEW steps, IsSequence(steps)
  PROVE  LET t == steps \o Tail(s)
         IN /\ IsSequence(t) /\ Len(t) = Len(steps) + Len(s) - 1 /\ DOMAIN t = 1..Len(t)
            /\ Len(s) \in Nat \ {0} /\ Len(steps) \in Nat
            /\ \A i \in 1..Len(steps) : t[i] = steps[i]
            /\ \A i \in 2..Len(s) : t[Len(steps) + i - 1] = s[i]
            /\ \A i \in DOMAIN t : i \notin 1..Len(steps) =>
                  \E j \in 2..Len(s) : i = Len(steps) + j - 1
            /\ Head(s) = s[1] /\ DOMAIN s = 1..Len(s) /\ DOMAIN steps = 1..Len(steps)
<1>1. PICK t, rest, m, n : t = steps \o Tail(s) /\ rest = Tail(s) /\ m = Len(steps) /\ n = Len(s)
  OBVIOUS
<1>2. /\ Head(s) = s[1] /\ IsSequence(rest) /\ Len(rest) = n - 1
      /\ \A i \in 1..(n - 1) : rest[i] = s[i + 1]
  BY <1>1, Behead
<1>3. /\ n \in Nat \ {0} /\ m \in Nat /\ DOMAIN s = 1..n /\ DOMAIN steps = 1..m
  BY <1>1, Places, Popped
<1>4. /\ IsSequence(t) /\ Len(t) = m + (n - 1) /\ DOMAIN t = 1..(m + (n - 1))
      /\ \A i \in 1..m : t[i] = steps[i]
      /\ \A i \in 1..(n - 1) : t[m + i] = rest[i]
  BY <1>1, <1>2, Joined
<1>5. ASSUME NEW i \in 2..n PROVE t[m + i - 1] = s[i]
  <2>1. i - 1 \in 1..(n - 1) /\ m + (i - 1) = m + i - 1 /\ (i - 1) + 1 = i
    BY <1>3
  <2> QED
    BY <1>2, <1>4, <2>1
<1>6. m + (n - 1) = m + n - 1
  BY <1>3
<1>7. ASSUME NEW i \in DOMAIN t, i \notin 1..m PROVE \E j \in 2..n : i = m + j - 1
  <2>1. i \in 1..(m + (n - 1))
    BY <1>4
  <2>2. i - m + 1 \in 2..n /\ i = m + (i - m + 1) - 1
    BY <1>3, <1>7, <2>1
  <2> QED
    BY <2>2
<1> QED
  BY <1>1, <1>2, <1>3, <1>4, <1>5, <1>6, <1>7

\* Neighbours remain neighbours.
LEMMA LinkedPushed ==
  ASSUME NEW s, Linked(s), s # <<>>, NEW steps, Pushes(Head(s), steps)
  PROVE  Linked(steps \o Tail(s))
<1>1. PICK t, m, n, h : t = steps \o Tail(s) /\ m = Len(steps) /\ n = Len(s) /\ h = Head(s)
  OBVIOUS
<1>2. /\ IsSequence(t) /\ DOMAIN t = 1..(m + n - 1) /\ n \in Nat \ {0} /\ m \in Nat
      /\ \A i \in 1..m : t[i] = steps[i]
      /\ \A i \in 2..n : t[m + i - 1] = s[i]
      /\ \A i \in DOMAIN t : i \notin 1..m => \E j \in 2..n : i = m + j - 1
      /\ h = s[1] /\ DOMAIN s = 1..n /\ DOMAIN steps = 1..m
  <2>1. IsSequence(s) /\ IsSequence(steps)
    BY DEF Linked, Pushes
  <2> QED
    BY <1>1, <2>1, Rewritten
<1>3. Linked(steps) /\ (h[1] \in {"skip", "expect"} => steps = <<>>)
  BY <1>1 DEF Pushes
<1>4. ASSUME NEW i \in DOMAIN t
      PROVE  /\ IsStep(t[i])
             /\ IsOpener(t[i]) => i + 1 \in DOMAIN t
             /\ i + 1 \in DOMAIN t => May(t[i], t[i + 1])
  <2>1. CASE i \in 1..m /\ i + 1 \in 1..m
    BY <1>2, <1>3, <2>1 DEF Linked
  <2>2. CASE i \in 1..m /\ i + 1 \notin 1..m
    <3>1. i = m /\ t[i] = steps[m] /\ IsStep(steps[m]) /\ ~IsOpener(steps[m])
      BY <1>2, <1>3, <2>2 DEF Linked
    <3>2. ASSUME i + 1 \in DOMAIN t PROVE May(t[i], t[i + 1])
      <4>1. 2 \in DOMAIN s /\ t[i + 1] = s[2]
        BY <1>2, <3>1, <3>2
      <4>2. May(h, s[2])
        BY <1>2, <4>1 DEF Linked
      <4>3. h[1] \notin {"skip", "expect"}
        BY <1>2, <1>3, <2>2, SmallSequences
      <4>4. May(steps[m], s[2])
        BY <3>1, <4>2, <4>3 DEF May
      <4> QED
        BY <3>1, <4>1, <4>4
    <3> QED
      BY <3>1, <3>2
  <2>3. CASE i \notin 1..m
    <3>1. PICK j \in 2..n : i = m + j - 1
      BY <1>2, <2>3
    <3>2. t[i] = s[j] /\ IsStep(s[j])
      BY <1>2, <3>1 DEF Linked
    <3>3. IsOpener(s[j]) => j + 1 \in 1..n
      BY <1>2, <3>1 DEF Linked
    <3>4. j + 1 \in 2..n <=> i + 1 \in DOMAIN t
      BY <1>2, <3>1
    <3>5. ASSUME j + 1 \in 2..n PROVE May(t[i], t[i + 1])
      <4>1. m + (j + 1) - 1 = i + 1
        BY <1>2, <3>1
      <4>2. t[i + 1] = s[j + 1]
        BY <1>2, <3>5, <4>1
      <4>3. j \in DOMAIN s /\ j + 1 \in DOMAIN s
        BY <1>2, <3>5
      <4>4. May(s[j], s[j + 1])
        BY <4>3 DEF Linked
      <4> QED
        BY <3>2, <4>2, <4>4
    <3>6. j + 1 \in 1..n => j + 1 \in 2..n
      BY <1>2, <3>1
    <3> QED
      BY <3>2, <3>3, <3>4, <3>5, <3>6
  <2> QED
    BY <2>1, <2>2, <2>3
<1> QED
  BY <1>1, <1>2, <1>4 DEF Linked

\* A struct is not left for anything but its fields, nor the program.
LEMMA PlacesPushed ==
  ASSUME NEW s, Linked(s), InFields(s), ProgramLast(s), s # <<>>, NEW steps, Pushes(Head(s), steps)
  PROVE  InFields(steps \o Tail(s)) /\ ProgramLast(steps \o Tail(s))
<1>1. PICK t, m, n, h : t = steps \o Tail(s) /\ m = Len(steps) /\ n = Len(s) /\ h = Head(s)
  OBVIOUS
<1>2. /\ Len(t) = m + n - 1 /\ DOMAIN t = 1..(m + n - 1) /\ n \in Nat \ {0} /\ m \in Nat
      /\ \A i \in 1..m : t[i] = steps[i]
      /\ \A i \in 2..n : t[m + i - 1] = s[i]
      /\ \A i \in DOMAIN t : i \notin 1..m => \E j \in 2..n : i = m + j - 1
      /\ h = s[1] /\ DOMAIN s = 1..n /\ DOMAIN steps = 1..m
  <2>1. IsSequence(s) /\ IsSequence(steps)
    BY DEF Linked, Pushes
  <2> QED
    BY <1>1, <2>1, Rewritten
<1>3. ASSUME NEW i \in DOMAIN t, NEW j \in DOMAIN t, t[j][1] \in {"field", "fields"}, i < j
      PROVE  t[i][1] \in FieldNames
  <2>1. CASE j \in 1..m
    BY <1>1, <1>2, <1>3, <2>1 DEF Pushes, InFields
  <2>2. CASE j \notin 1..m
    <3>1. PICK k \in 2..n : j = m + k - 1
      BY <1>2, <2>2
    <3>2. h[1] \in FieldNames
      <4>1. 1 \in DOMAIN s /\ k \in DOMAIN s /\ 1 < k /\ s[k] = t[j]
        BY <1>2, <3>1
      <4> QED
        BY <1>2, <1>3, <4>1 DEF InFields
    <3>3. CASE i \in 1..m
      BY <1>1, <1>2, <3>2, <3>3 DEF Pushes
    <3>4. CASE i \notin 1..m
      <4>1. PICK l \in 2..n : i = m + l - 1
        BY <1>2, <3>4
      <4>2. l < k
        BY <1>2, <1>3, <3>1, <4>1
      <4>3. l \in DOMAIN s /\ k \in DOMAIN s /\ s[k] = t[j] /\ s[l] = t[i]
        BY <1>2, <3>1, <4>1
      <4>4. s[l][1] \in FieldNames
        BY <1>3, <4>2, <4>3 DEF InFields
      <4> QED
        BY <4>3, <4>4
    <3> QED
      BY <3>3, <3>4
  <2> QED
    BY <2>1, <2>2
<1>4. ASSUME NEW i \in DOMAIN t, t[i][1] = "program" PROVE i = Len(t)
  <2>1. CASE i \in 1..m
    <3>1. i = m /\ h[1] = "program"
      BY <1>1, <1>2, <1>4, <2>1 DEF Pushes
    <3>2. n = 1
      BY <1>1, <1>2, <3>1 DEF ProgramLast
    <3> QED
      BY <1>2, <3>1, <3>2
  <2>2. CASE i \notin 1..m
    <3>1. PICK j \in 2..n : i = m + j - 1
      BY <1>2, <2>2
    <3>2. j \in DOMAIN s /\ s[j] = t[i]
      BY <1>2, <3>1
    <3>3. j = n
      BY <1>1, <1>4, <3>2 DEF ProgramLast
    <3> QED
      BY <1>2, <3>1, <3>3
  <2> QED
    BY <2>1, <2>2
<1> QED
  BY <1>1, <1>3, <1>4 DEF InFields, ProgramLast

\* The flag is kept for what is below.
LEMMA FlagPushed ==
  ASSUME NEW s, Linked(s), s # <<>>, NEW flag, FlagOff(s, flag), NEW steps, Pushes(Head(s), steps),
         Head(s)[1] # "restore", NoRestore(steps, 1, Len(steps))
  PROVE  FlagOff(steps \o Tail(s), flag)
<1>1. PICK t, m, n, h : t = steps \o Tail(s) /\ m = Len(steps) /\ n = Len(s) /\ h = Head(s)
  OBVIOUS
<1>2. /\ Len(t) = m + n - 1 /\ DOMAIN t = 1..(m + n - 1) /\ n \in Nat \ {0} /\ m \in Nat
      /\ \A i \in 1..m : t[i] = steps[i]
      /\ \A i \in 2..n : t[m + i - 1] = s[i]
      /\ \A i \in DOMAIN t : i \notin 1..m => \E j \in 2..n : i = m + j - 1
      /\ h = s[1] /\ DOMAIN s = 1..n /\ DOMAIN steps = 1..m
  <2>1. IsSequence(s) /\ IsSequence(steps)
    BY DEF Linked, Pushes
  <2> QED
    BY <1>1, <2>1, Rewritten
<1> SUFFICES ASSUME NEW i \in DOMAIN t, t[i][1] \in StatementNames
             PROVE  /\ NoRestore(t, 1, i - 1) => flag = FALSE
                    /\ \A j \in 1..(i - 1) :
                          t[j][1] = "restore" /\ NoRestore(t, j + 1, i - 1) => t[j][2] = FALSE
  BY <1>1 DEF FlagOff
<1>3. CASE i \in 1..m
  <2>1. h[1] \in StatementNames
    BY <1>1, <1>2, <1>3 DEF Pushes
  <2>2. NoRestore(s, 1, 1 - 1)
    BY DEF NoRestore
  <2>3. flag = FALSE
    BY <1>2, <2>1, <2>2 DEF FlagOff
  <2>4. \A j \in 1..(i - 1) : t[j][1] # "restore"
    BY <1>1, <1>2, <1>3 DEF NoRestore
  <2> QED
    BY <2>3, <2>4
<1>4. CASE i \notin 1..m
  <2>1. PICK a \in 2..n : i = m + a - 1
    BY <1>2, <1>4
  <2>2. a \in DOMAIN s /\ s[a][1] \in StatementNames
    BY <1>2, <2>1
  <2>3. ASSUME NoRestore(t, 1, i - 1) PROVE NoRestore(s, 1, a - 1)
    <3>1. \A k \in 2..(a - 1) : k \in 2..n /\ m + k - 1 \in 1..(i - 1)
      BY <1>2, <2>1
    <3>2. \A k \in 2..(a - 1) : s[k][1] # "restore"
      BY <1>2, <2>3, <3>1 DEF NoRestore
    <3>3. \A k \in 1..(a - 1) : k = 1 \/ k \in 2..(a - 1)
      BY <2>1
    <3> QED
      BY <1>1, <1>2, <3>2, <3>3 DEF NoRestore
  <2>4. ASSUME NEW j \in 1..(i - 1), t[j][1] = "restore", NoRestore(t, j + 1, i - 1)
        PROVE  t[j][2] = FALSE
    <3>1. j \notin 1..m
      BY <1>1, <1>2, <2>4 DEF NoRestore
    <3>2. j \in 1..(m + n - 1)
      BY <1>2, <2>1
    <3>3. PICK b \in 2..n : j = m + b - 1
      BY <1>2, <3>1, <3>2
    <3>4. b \in 1..(a - 1) /\ t[j] = s[b]
      BY <1>2, <2>1, <3>3
    <3>5. \A k \in (b + 1)..(a - 1) : k \in 2..n /\ m + k - 1 \in (j + 1)..(i - 1)
      BY <1>2, <2>1, <3>3
    <3>6. NoRestore(s, b + 1, a - 1)
      BY <1>2, <2>4, <3>5 DEF NoRestore
    <3> QED
      BY <2>2, <2>4, <3>4, <3>6 DEF FlagOff
  <2> QED
    BY <2>2, <2>3, <2>4 DEF FlagOff
<1> QED
  BY <1>3, <1>4

(***************************************************************************)
(* The brackets that the steps have still to close.                        *)
(***************************************************************************)
\* The bracket that a step closes in the end.
Closes(step) ==
    CASE step[1] \in {"params", "more_params", "type_params", "more_types"} -> "("
      [] step[1] = "block" -> "{"
      [] step[1] \in {"field", "fields"} -> "struct"
      [] step[1] \in {"expect", "expr_list", "more_exprs"} /\ step[2] = ")" -> "("
      [] step[1] \in {"expect", "expr_list", "more_exprs"} /\ step[2] = "]" -> "["
      [] step[1] = "expect" /\ step[2] = "}" -> "{"
      [] OTHER -> "none"

\* The places of steps whose bracket was consumed, and what they close by their
\* distance from the end, which does not change when steps are pushed.
Owed(s) == {i \in DOMAIN s : Closes(s[i]) # "none" /\ (i = 1 \/ ~IsOpener(s[i - 1]))}
FromEnd(s, i) == Len(s) + 1 - i
Debts(s) == [e \in {FromEnd(s, i) : i \in Owed(s)} |-> Closes(s[FromEnd(s, e)])]

\* o has the values of d in the order of their places.
Enumerates(o, d) ==
    /\ IsSequence(o)
    /\ \E at : /\ \A k \in DOMAIN o : at[k] \in DOMAIN d /\ d[at[k]] = o[k]
               /\ \A j, k \in DOMAIN o : j < k => at[j] < at[k]
               /\ \A e \in DOMAIN d : \E k \in DOMAIN o : at[k] = e
Closed(o, s) == Enumerates(o, Debts(s))

\* The steps owe one bracket, or none.
Owes(steps, bracket) ==
    IF bracket = "none" THEN Owed(steps) = {}
    ELSE \E i \in DOMAIN steps : Owed(steps) = {i} /\ Closes(steps[i]) = bracket

\* One more value, behind the others.
Extends(f, d, e) ==
    /\ e \in Nat /\ DOMAIN f = DOMAIN d \cup {e}
    /\ \A x \in DOMAIN d : x \in Nat /\ x < e /\ f[x] = d[x]

\* A value behind the others is enumerated behind the others.
LEMMA EnumerationGrows ==
  ASSUME NEW o, NEW d, Enumerates(o, d), NEW e, NEW f, Extends(f, d, e)
  PROVE  Enumerates(Append(o, f[e]), f)
<1> USE DEF Extends
<1>1. PICK at : /\ \A k \in DOMAIN o : at[k] \in DOMAIN d /\ d[at[k]] = o[k]
                /\ \A j, k \in DOMAIN o : j < k => at[j] < at[k]
                /\ \A x \in DOMAIN d : \E k \in DOMAIN o : at[k] = x
  BY DEF Enumerates
<1>2. PICK p, n : p = Append(o, f[e]) /\ n = Len(o)
  OBVIOUS
<1>3. /\ IsSequence(o) /\ n \in Nat /\ DOMAIN o = 1..n
      /\ IsSequence(p) /\ DOMAIN p = 1..(n + 1)
      /\ \A k \in 1..n : p[k] = o[k]
      /\ p[n + 1] = f[e]
  BY <1>2, Appended, Places DEF Enumerates
<1>4. PICK new : new = [k \in 1..(n + 1) |-> IF k = n + 1 THEN e ELSE at[k]]
  OBVIOUS
<1>5. /\ new[n + 1] = e
      /\ \A k \in 1..n : new[k] = at[k] /\ new[k] \in DOMAIN d
      /\ \A k \in 1..(n + 1) : k \in 1..n \/ k = n + 1
  BY <1>1, <1>3, <1>4
<1>6. ASSUME NEW k \in DOMAIN p PROVE new[k] \in DOMAIN f /\ f[new[k]] = p[k]
  <2>1. CASE k = n + 1
    <3>1. p[k] = f[e] /\ new[k] = e
      BY <1>3, <1>5, <2>1
    <3> QED
      BY <3>1
  <2>2. CASE k \in 1..n
    <3>1. new[k] = at[k] /\ at[k] \in DOMAIN d /\ d[at[k]] = o[k] /\ p[k] = o[k]
      BY <1>1, <1>3, <1>5, <2>2
    <3> QED
      BY <3>1
  <2> QED
    BY <1>3, <1>5, <2>1, <2>2
<1>7. ASSUME NEW j \in DOMAIN p, NEW k \in DOMAIN p, j < k PROVE new[j] < new[k]
  <2>1. j \in 1..n
    BY <1>3, <1>7
  <2>2. CASE k \in 1..n
    BY <1>1, <1>3, <1>5, <1>7, <2>1, <2>2
  <2>3. CASE k = n + 1
    BY <1>5, <2>1, <2>3
  <2> QED
    BY <1>3, <1>5, <2>2, <2>3
<1>8. \A x \in DOMAIN f : \E k \in DOMAIN p : new[k] = x
  <2>1. n + 1 \in DOMAIN p /\ \A k \in 1..n : k \in DOMAIN p
    BY <1>3
  <2>2. SUFFICES ASSUME NEW x \in DOMAIN f PROVE \E k \in DOMAIN p : new[k] = x
    OBVIOUS
  <2>3. CASE x = e
    BY <1>5, <2>1, <2>3
  <2>4. CASE x \in DOMAIN d
    <3>1. PICK k \in 1..n : at[k] = x
      BY <1>1, <1>3, <2>4
    <3>2. new[k] = x /\ k \in DOMAIN p
      BY <1>5, <2>1, <3>1
    <3> QED
      BY <3>2
  <2> QED
    BY <2>3, <2>4
<1>9. \A j, k \in DOMAIN p : j < k => new[j] < new[k]
  BY <1>7
<1>10. Enumerates(p, f)
  <2>1. \A k \in DOMAIN p : new[k] \in DOMAIN f /\ f[new[k]] = p[k]
    BY <1>6
  <2> QED
    BY <1>3, <1>8, <1>9, <2>1 DEF Enumerates
<1> QED
  BY <1>2, <1>10

\* The value at the last place is the last.
LEMMA EnumerationEnds ==
  ASSUME NEW o, NEW d, Enumerates(o, d), NEW e \in DOMAIN d, \A x \in DOMAIN d : x \in Nat /\ x <= e
  PROVE  o # <<>> /\ Last(o) = d[e]
<1>1. PICK at : /\ \A k \in DOMAIN o : at[k] \in DOMAIN d /\ d[at[k]] = o[k]
                /\ \A j, k \in DOMAIN o : j < k => at[j] < at[k]
                /\ \A x \in DOMAIN d : \E k \in DOMAIN o : at[k] = x
  BY DEF Enumerates
<1>2. PICK n : n = Len(o) /\ IsSequence(o) /\ n \in Nat /\ DOMAIN o = 1..n
  BY Places DEF Enumerates
<1>3. PICK k \in 1..n : at[k] = e
  BY <1>1, <1>2
<1>4. k = n
  <2> SUFFICES ASSUME k < n PROVE FALSE
    BY <1>2, <1>3
  <2>1. n \in DOMAIN o /\ k \in DOMAIN o
    BY <1>2
  <2>2. at[k] < at[n] /\ at[n] \in DOMAIN d
    BY <1>1, <2>1
  <2> QED
    BY <1>3, <2>2
<1> QED
  BY <1>1, <1>2, <1>3, <1>4, SmallSequences DEF Last

\* Without it the others remain.
LEMMA EnumerationShrinks ==
  ASSUME NEW o, NEW d, Enumerates(o, d), NEW e \in DOMAIN d, \A x \in DOMAIN d : x \in Nat /\ x <= e,
         NEW f, DOMAIN f = DOMAIN d \ {e}, \A x \in DOMAIN f : f[x] = d[x]
  PROVE  Enumerates(Front(o), f)
<1>1. PICK at : /\ \A k \in DOMAIN o : at[k] \in DOMAIN d /\ d[at[k]] = o[k]
                /\ \A j, k \in DOMAIN o : j < k => at[j] < at[k]
                /\ \A x \in DOMAIN d : \E k \in DOMAIN o : at[k] = x
  BY DEF Enumerates
<1>2. PICK n : n = Len(o) /\ IsSequence(o) /\ n \in Nat /\ DOMAIN o = 1..n
  BY Places DEF Enumerates
<1>3. PICK p : p = Front(o)
  OBVIOUS
<1>4. /\ n \in Nat \ {0} /\ IsSequence(p) /\ DOMAIN p = 1..(n - 1)
      /\ \A k \in 1..(n - 1) : p[k] = o[k]
  BY <1>2, <1>3, EnumerationEnds, Popped
<1>5. at[n] = e
  <2>1. PICK k \in 1..n : at[k] = e
    BY <1>1, <1>2
  <2>2. n \in DOMAIN o /\ k \in DOMAIN o
    BY <1>2, <1>4
  <2>3. k < n => at[k] < at[n]
    BY <1>1, <2>2
  <2>4. at[n] \in Nat /\ at[n] <= e /\ e \in Nat
    BY <1>1, <2>2
  <2> QED
    BY <1>4, <2>1, <2>3, <2>4
<1>6. \A k \in 1..(n - 1) : k \in DOMAIN o /\ k < n /\ n \in DOMAIN o
  BY <1>2, <1>4
<1>7. \A k \in 1..(n - 1) : at[k] \in Nat /\ at[k] < at[n] /\ at[n] \in Nat
  BY <1>1, <1>5, <1>6
<1>8. ASSUME NEW k \in DOMAIN p PROVE at[k] \in DOMAIN f /\ f[at[k]] = p[k]
  <2>1. k \in DOMAIN o /\ p[k] = o[k] /\ at[k] # e
    BY <1>4, <1>5, <1>6, <1>7
  <2>2. at[k] \in DOMAIN f
    BY <1>1, <2>1
  <2> QED
    BY <1>1, <2>1, <2>2
<1>9. \A j, k \in DOMAIN p : j < k => at[j] < at[k]
  BY <1>1, <1>4, <1>6
<1>10. ASSUME NEW x \in DOMAIN f PROVE \E k \in DOMAIN p : at[k] = x
  <2>1. PICK k \in DOMAIN o : at[k] = x
    BY <1>1
  <2>2. k # n
    BY <1>5, <2>1
  <2>3. k \in 1..(n - 1)
    BY <1>2, <1>4, <2>2
  <2> QED
    BY <1>4, <2>1, <2>3
<1>11. Enumerates(p, f)
  BY <1>4, <1>8, <1>9, <1>10 DEF Enumerates
<1> QED
  BY <1>3, <1>11

\* The last value moves further back.
LEMMA EnumerationMoves ==
  ASSUME NEW o, NEW d, Enumerates(o, d), NEW e \in DOMAIN d, \A x \in DOMAIN d : x \in Nat /\ x <= e,
         NEW e2 \in Nat, e <= e2,
         NEW f, DOMAIN f = (DOMAIN d \ {e}) \cup {e2}, \A x \in DOMAIN d \ {e} : f[x] = d[x], f[e2] = d[e]
  PROVE  Enumerates(o, f)
<1>1. PICK at : /\ \A k \in DOMAIN o : at[k] \in DOMAIN d /\ d[at[k]] = o[k]
                /\ \A j, k \in DOMAIN o : j < k => at[j] < at[k]
                /\ \A x \in DOMAIN d : \E k \in DOMAIN o : at[k] = x
  BY DEF Enumerates
<1>2. PICK new : new = [k \in DOMAIN o |-> IF at[k] = e THEN e2 ELSE at[k]]
  OBVIOUS
<1>3. \A k \in DOMAIN o : new[k] \in DOMAIN f /\ f[new[k]] = o[k]
  BY <1>1, <1>2
<1>4. ASSUME NEW j \in DOMAIN o, NEW k \in DOMAIN o, j < k PROVE new[j] < new[k]
  <2>1. at[j] \in Nat /\ at[k] \in Nat /\ at[j] < at[k] /\ at[k] <= e /\ e \in Nat
    BY <1>1, <1>4
  <2>2. new[j] = at[j]
    BY <1>2, <2>1
  <2>3. new[k] = at[k] \/ new[k] = e2
    BY <1>2
  <2> QED
    BY <2>1, <2>2, <2>3
<1>5. \A x \in DOMAIN f : \E k \in DOMAIN o : new[k] = x
  <2>1. \E k \in DOMAIN o : new[k] = e2
    BY <1>1, <1>2
  <2>2. \A x \in DOMAIN d \ {e} : \E k \in DOMAIN o : new[k] = x
    BY <1>1, <1>2
  <2> QED
    BY <2>1, <2>2
<1> QED
  BY <1>3, <1>4, <1>5 DEF Enumerates

\* The same values at the same places.
LEMMA EnumerationSame ==
  ASSUME NEW o, NEW d, Enumerates(o, d), NEW f, DOMAIN f = DOMAIN d, \A x \in DOMAIN d : f[x] = d[x]
  PROVE  Enumerates(o, f)
BY DEF Enumerates

\* The places of debts, and the one of the top.
LEMMA DebtsOf ==
  ASSUME NEW s, IsSequence(s), s # <<>>
  PROVE  /\ \A e \in DOMAIN Debts(s) : e \in 1..Len(s)
         /\ \A e \in 1..Len(s) : /\ e \in DOMAIN Debts(s) <=> FromEnd(s, e) \in Owed(s)
                                 /\ e \in DOMAIN Debts(s) => Debts(s)[e] = Closes(s[FromEnd(s, e)])
         /\ Len(s) \in DOMAIN Debts(s) <=> Closes(Head(s)) # "none"
         /\ Len(s) \in DOMAIN Debts(s) => Debts(s)[Len(s)] = Closes(Head(s))
<1>1. PICK n, d : n = Len(s) /\ d = Debts(s)
  OBVIOUS
<1>2. n \in Nat \ {0} /\ DOMAIN s = 1..n /\ Head(s) = s[1]
  BY <1>1, Behead, Places, Popped
<1>3. /\ DOMAIN d = {FromEnd(s, i) : i \in Owed(s)}
      /\ \A e \in DOMAIN d : d[e] = Closes(s[FromEnd(s, e)])
  BY <1>1 DEF Debts
<1>4. \A i : FromEnd(s, i) = n + 1 - i
  BY <1>1 DEF FromEnd
<1>5. \A i \in Owed(s) : i \in 1..n
  BY <1>2 DEF Owed
<1>6. \A i \in 1..n : n + 1 - i \in 1..n /\ n + 1 - (n + 1 - i) = i
  BY <1>2
<1>7. \A e \in DOMAIN d : e \in 1..n
  BY <1>3, <1>4, <1>5, <1>6
<1>8. \A e \in 1..n : e \in DOMAIN d <=> FromEnd(s, e) \in Owed(s)
  BY <1>3, <1>4, <1>5, <1>6
<1>9. FromEnd(s, n) = 1 /\ n \in 1..n /\ 1 \in 1..n
  BY <1>2, <1>4
<1>10. 1 \in Owed(s) <=> Closes(s[1]) # "none"
  BY <1>2, <1>9 DEF Owed
<1> QED
  BY <1>1, <1>2, <1>3, <1>7, <1>8, <1>9, <1>10

\* The places of the debts of the topmost steps of n.
Brought(steps, n) == {n + 1 - i : i \in Owed(steps)}
Brings(debts, steps, n) == \A i \in Owed(steps) : debts[n + 1 - i] = Closes(steps[i])

\* Debts below the top stay; the steps that are pushed bring theirs.
LEMMA DebtsPushed ==
  ASSUME NEW s, Linked(s), s # <<>>, ~IsOpener(Head(s)), NEW steps, Pushes(Head(s), steps)
  PROVE  LET t == steps \o Tail(s)
         IN /\ DOMAIN Debts(t) = (DOMAIN Debts(s) \ {Len(s)}) \cup Brought(steps, Len(t))
            /\ \A e \in DOMAIN Debts(s) \ {Len(s)} : Debts(t)[e] = Debts(s)[e]
            /\ Brings(Debts(t), steps, Len(t))
<1>1. PICK m, n, h, d, f, t : /\ t = steps \o Tail(s)
                           /\ m = Len(steps) /\ n = Len(s) /\ h = Head(s)
                           /\ d = Debts(s) /\ f = Debts(t)
  OBVIOUS
<1>2. /\ IsSequence(t) /\ Len(t) = m + n - 1 /\ DOMAIN t = 1..(m + n - 1) /\ n \in Nat \ {0} /\ m \in Nat
      /\ \A i \in 1..m : t[i] = steps[i]
      /\ \A i \in 2..n : t[m + i - 1] = s[i]
      /\ \A i \in DOMAIN t : i \notin 1..m => \E j \in 2..n : i = m + j - 1
      /\ h = s[1] /\ DOMAIN s = 1..n /\ DOMAIN steps = 1..m
  <2>1. IsSequence(s) /\ IsSequence(steps)
    BY DEF Linked, Pushes
  <2> QED
    BY <1>1, <2>1, Rewritten
<1>3. \A i \in 1..m : i \in Owed(t) <=> i \in Owed(steps)
  <2> SUFFICES ASSUME NEW i \in 1..m PROVE i \in Owed(t) <=> i \in Owed(steps)
    OBVIOUS
  <2>1. t[i] = steps[i] /\ i \in DOMAIN t /\ i \in DOMAIN steps
    BY <1>2
  <2>2. i = 1 \/ (i - 1 \in 1..m /\ t[i - 1] = steps[i - 1])
    BY <1>2
  <2> QED
    BY <2>1, <2>2 DEF Owed
<1>4. ASSUME NEW j \in 2..n PROVE m + j - 1 \in Owed(t) <=> j \in Owed(s)
  <2>1. t[m + j - 1] = s[j] /\ m + j - 1 \in DOMAIN t /\ j \in DOMAIN s
    BY <1>2
  <2>2. CASE j = 2
    <3>1. j - 1 = 1 /\ ~IsOpener(s[1])
      BY <1>1, <1>2, <2>2
    <3>2. m = 0 => m + j - 1 = 1
      BY <2>2
    <3>3. m # 0 => ~IsOpener(t[m])
      <4> SUFFICES ASSUME m # 0 PROVE ~IsOpener(t[m])
        OBVIOUS
      <4>1. m \in 1..m /\ m + 1 \notin 1..m /\ t[m] = steps[m]
        BY <1>2
      <4>2. Linked(steps)
        BY DEF Pushes
      <4> QED
        BY <1>2, <4>1, <4>2 DEF Linked
    <3>4. (m + j - 1) - 1 = m
      BY <1>2, <2>2
    <3> QED
      BY <2>1, <2>2, <3>1, <3>2, <3>3, <3>4 DEF Owed
  <2>3. CASE j # 2
    <3>1. j - 1 \in 2..n /\ (m + j - 1) - 1 = m + (j - 1) - 1 /\ j # 1 /\ m + j - 1 # 1
      BY <1>2, <2>3
    <3>2. t[(m + j - 1) - 1] = s[j - 1]
      BY <1>2, <3>1
    <3> QED
      BY <2>1, <3>1, <3>2 DEF Owed
  <2> QED
    BY <2>2, <2>3
<1>5. ASSUME NEW e \in 1..(n - 1)
      PROVE  /\ e \in DOMAIN f <=> e \in DOMAIN d
             /\ e \in DOMAIN d => f[e] = d[e]
  <2>1. n + 1 - e \in 2..n /\ (m + n - 1) + 1 - e = m + (n + 1 - e) - 1
        /\ e \in 1..n /\ e \in 1..(m + n - 1)
    BY <1>2
  <2>2. FromEnd(s, e) = n + 1 - e /\ FromEnd(t, e) = m + (n + 1 - e) - 1
    BY <1>1, <1>2, <2>1 DEF FromEnd
  <2>3. FromEnd(t, e) \in Owed(t) <=> FromEnd(s, e) \in Owed(s)
    BY <1>4, <2>1, <2>2
  <2>4. t[FromEnd(t, e)] = s[FromEnd(s, e)]
    <3>1. PICK k \in 2..n : k = n + 1 - e
      BY <2>1
    <3>2. FromEnd(s, e) = k /\ FromEnd(t, e) = m + k - 1
      BY <2>2, <3>1
    <3> QED
      BY <1>2, <3>2
  <2>5. t # <<>> /\ IsSequence(s)
    BY <1>2, <2>1, SmallSequences DEF Linked
  <2>6. e \in DOMAIN d <=> FromEnd(s, e) \in Owed(s)
    BY <1>1, <2>1, <2>5, DebtsOf
  <2>7. e \in DOMAIN d => d[e] = Closes(s[FromEnd(s, e)])
    BY <1>1, <2>1, <2>5, DebtsOf
  <2>8. IsSequence(t) /\ t # <<>> /\ e \in 1..Len(t) /\ f = Debts(t)
    BY <1>1, <1>2, <2>1, <2>5
  <2>9. e \in DOMAIN f <=> FromEnd(t, e) \in Owed(t)
    BY ONLY <2>8, DebtsOf
  <2>10. e \in DOMAIN f => f[e] = Closes(t[FromEnd(t, e)])
    BY ONLY <2>8, DebtsOf
  <2> QED
    BY <2>3, <2>4, <2>6, <2>7, <2>9, <2>10
<1>6. ASSUME NEW i \in 1..m
      PROVE  /\ m + n - i \in DOMAIN f <=> i \in Owed(steps)
             /\ m + n - i \in DOMAIN f => f[m + n - i] = Closes(steps[i])
  <2>1. m + n - i \in 1..(m + n - 1) /\ (m + n - 1) + 1 - (m + n - i) = i
    BY <1>2
  <2>2. PICK e \in 1..(m + n - 1) : e = m + n - i
    BY <2>1
  <2>3. FromEnd(t, e) = i
    BY <1>2, <2>1, <2>2 DEF FromEnd
  <2>4. t # <<>>
    BY <1>2, <2>1, SmallSequences
  <2>5. e \in DOMAIN f <=> FromEnd(t, e) \in Owed(t)
    BY <1>1, <1>2, <2>4, DebtsOf
  <2>6. e \in DOMAIN f => f[e] = Closes(t[FromEnd(t, e)])
    BY <1>1, <1>2, <2>4, DebtsOf
  <2>7. i \in Owed(t) <=> i \in Owed(steps)
    BY <1>3
  <2>8. t[i] = steps[i]
    BY <1>2
  <2> QED
    BY <2>2, <2>3, <2>5, <2>6, <2>7, <2>8
<1>7. DOMAIN f \subseteq 1..(m + n - 1)
  <2>1. CASE t = <<>>
    <3>1. Owed(t) = {}
      BY <2>1, SmallSequences DEF Owed
    <3> QED
      BY <1>1, <3>1 DEF Debts
  <2>2. CASE t # <<>>
    BY <1>1, <1>2, <2>2, DebtsOf
  <2> QED
    BY <2>1, <2>2
<1>8. DOMAIN d \subseteq 1..n
  BY <1>1, DebtsOf DEF Linked
<1>9. \A i \in Owed(steps) : i \in 1..m /\ Len(t) + 1 - i = m + n - i
  <2>1. \A i \in Owed(steps) : i \in 1..m
    BY <1>2 DEF Owed
  <2>2. \A i \in 1..m : (m + n - 1) + 1 - i = m + n - i
    BY <1>2
  <2> QED
    BY <1>2, <2>1, <2>2
<1>10. DOMAIN f = (DOMAIN d \ {n}) \cup Brought(steps, Len(t))
  <2>1. ASSUME NEW e \in DOMAIN f PROVE e \in DOMAIN d \ {n} \/ \E i \in Owed(steps) : e = m + n - i
    <3>1. CASE e \in 1..(n - 1)
      BY <1>2, <1>5, <2>1, <3>1
    <3>2. CASE e \notin 1..(n - 1)
      <4>1. m + n - e \in 1..m /\ m + n - (m + n - e) = e
        BY <1>2, <1>7, <2>1, <3>2
      <4> QED
        BY <1>6, <2>1, <4>1
    <3> QED
      BY <3>1, <3>2
  <2>2. \A e \in DOMAIN d \ {n} : e \in DOMAIN f
    <3>1. \A e \in DOMAIN d \ {n} : e \in 1..(n - 1)
      BY <1>2, <1>8
    <3> QED
      BY <1>5, <3>1
  <2>3. \A i \in Owed(steps) : m + n - i \in DOMAIN f
    BY <1>6, <1>9
  <2>4. Brought(steps, Len(t)) = {m + n - i : i \in Owed(steps)}
    BY <1>9 DEF Brought
  <2>5. DOMAIN f = (DOMAIN d \ {n}) \cup {m + n - i : i \in Owed(steps)}
    BY <2>1, <2>2, <2>3
  <2> QED
    BY <2>4, <2>5
<1>11. \A e \in DOMAIN d \ {n} : f[e] = d[e]
  <2>1. \A e \in DOMAIN d \ {n} : e \in 1..(n - 1)
    BY <1>2, <1>8
  <2> QED
    BY <1>5, <2>1
<1>12. Brings(f, steps, Len(t))
  <2>1. \A i \in Owed(steps) : f[m + n - i] = Closes(steps[i])
    BY <1>6, <1>9
  <2> QED
    BY <1>9, <2>1 DEF Brings
<1> QED
  BY <1>1, <1>10, <1>11, <1>12

\* A debt that is pushed lies behind those below it.
LEMMA OneDebtPushed ==
  ASSUME NEW s, Linked(s), s # <<>>, ~IsOpener(Head(s)), NEW steps, Pushes(Head(s), steps),
         NEW bracket, bracket # "none", Owes(steps, bracket)
  PROVE  LET t == steps \o Tail(s)
         IN \E e \in Nat : /\ e >= Len(s) /\ Debts(t)[e] = bracket
                           /\ DOMAIN Debts(t) = (DOMAIN Debts(s) \ {Len(s)}) \cup {e}
<1>1. PICK i \in DOMAIN steps : Owed(steps) = {i} /\ Closes(steps[i]) = bracket
  BY DEF Owes
<1>2. PICK m, n, t : m = Len(steps) /\ n = Len(s) /\ t = steps \o Tail(s)
  OBVIOUS
<1>3. IsSequence(s) /\ IsSequence(steps)
  BY DEF Linked, Pushes
<1>4. Len(t) = m + n - 1 /\ n \in Nat \ {0} /\ m \in Nat /\ DOMAIN steps = 1..m
  BY <1>2, <1>3, Rewritten
<1>5. PICK e : e = Len(t) + 1 - i
  OBVIOUS
<1>6. e \in Nat /\ e >= n
  <2>1. i \in 1..m
    BY <1>4
  <2>2. e = (m + n - 1) + 1 - i
    BY <1>4, <1>5
  <2> QED
    BY <1>4, <2>1, <2>2
<1>7. DOMAIN Debts(t) = (DOMAIN Debts(s) \ {Len(s)}) \cup Brought(steps, Len(t))
  BY <1>2, DebtsPushed
<1>8. Brought(steps, Len(t)) = {e}
  BY <1>1, <1>5 DEF Brought
<1>9. Debts(t)[e] = bracket
  <2>1. i \in Owed(steps)
    BY <1>1
  <2>2. Brings(Debts(t), steps, Len(t))
    BY <1>2, DebtsPushed
  <2>3. Debts(t)[Len(t) + 1 - i] = Closes(steps[i])
    BY <2>1, <2>2 DEF Brings
  <2> QED
    BY <1>1, <1>5, <2>3
<1> QED
  BY <1>2, <1>6, <1>7, <1>8, <1>9

\* A step goes on as steps that owe what it owes.
LEMMA ClosedKept ==
  ASSUME NEW s, Linked(s), s # <<>>, ~IsOpener(Head(s)), NEW steps, Pushes(Head(s), steps),
         Owes(steps, Closes(Head(s))), NEW o, Closed(o, s)
  PROVE  Closed(o, steps \o Tail(s))
<1>1. PICK t, d, f, n : t = steps \o Tail(s) /\ d = Debts(s) /\ f = Debts(t) /\ n = Len(s)
  OBVIOUS
<1>2. Enumerates(o, d)
  BY <1>1 DEF Closed
<1>3. /\ \A e \in DOMAIN d : e \in 1..n
      /\ n \in DOMAIN d <=> Closes(Head(s)) # "none"
      /\ n \in DOMAIN d => d[n] = Closes(Head(s))
      /\ n \in Nat
  <2>1. IsSequence(s)
    BY DEF Linked
  <2> QED
    BY <1>1, <2>1, DebtsOf, Places
<1>4. /\ DOMAIN f = (DOMAIN d \ {n}) \cup Brought(steps, Len(t))
      /\ \A e \in DOMAIN d \ {n} : f[e] = d[e]
  BY <1>1, DebtsPushed
<1>5. CASE Closes(Head(s)) = "none"
  <2>1. DOMAIN f = DOMAIN d /\ \A e \in DOMAIN d : f[e] = d[e]
    BY <1>3, <1>4, <1>5 DEF Owes, Brought
  <2> QED
    BY <1>1, <1>2, <2>1, EnumerationSame DEF Closed
<1>6. CASE Closes(Head(s)) # "none"
  <2>1. PICK e2 \in Nat : e2 >= n /\ f[e2] = Closes(Head(s)) /\ DOMAIN f = (DOMAIN d \ {n}) \cup {e2}
    BY <1>1, <1>6, OneDebtPushed
  <2>2. /\ n \in DOMAIN d /\ \A x \in DOMAIN d : x \in Nat /\ x <= n
        /\ n <= e2 /\ f[e2] = d[n]
    BY <1>3, <1>6, <2>1
  <2>3. Enumerates(o, f)
    BY <1>2, <1>4, <2>1, <2>2, EnumerationMoves
  <2> QED
    BY <1>1, <2>3 DEF Closed
<1> QED
  BY <1>5, <1>6

\* A step that owes nothing consumes a bracket and goes on as steps that owe it.
LEMMA ClosedOpened ==
  ASSUME NEW s, Linked(s), s # <<>>, ~IsOpener(Head(s)), NEW steps, Pushes(Head(s), steps),
         Closes(Head(s)) = "none", NEW bracket, bracket # "none", Owes(steps, bracket), NEW o, Closed(o, s)
  PROVE  Closed(Append(o, bracket), steps \o Tail(s))
<1>1. PICK t, d, f, n : t = steps \o Tail(s) /\ d = Debts(s) /\ f = Debts(t) /\ n = Len(s)
  OBVIOUS
<1>2. Enumerates(o, d)
  BY <1>1 DEF Closed
<1>3. /\ \A e \in DOMAIN d : e \in 1..n
      /\ n \notin DOMAIN d
      /\ n \in Nat
  <2>1. IsSequence(s)
    BY DEF Linked
  <2> QED
    BY <1>1, <2>1, DebtsOf, Places
<1>4. \A e \in DOMAIN d \ {n} : f[e] = d[e]
  BY <1>1, DebtsPushed
<1>5. PICK e2 \in Nat : e2 >= n /\ f[e2] = bracket /\ DOMAIN f = (DOMAIN d \ {n}) \cup {e2}
  BY <1>1, OneDebtPushed
<1>6. \A x \in DOMAIN d : x \in Nat /\ x < e2 /\ f[x] = d[x]
  BY <1>3, <1>4, <1>5
<1>7. DOMAIN f = DOMAIN d \cup {e2}
  BY <1>3, <1>5
<1>8. Extends(f, d, e2)
  BY <1>5, <1>6, <1>7 DEF Extends
<1>9. Enumerates(Append(o, f[e2]), f)
  BY <1>2, <1>8, EnumerationGrows
<1> QED
  BY <1>1, <1>5, <1>9 DEF Closed

\* What the top owes was consumed last.
LEMMA LastIsOwed ==
  ASSUME NEW s, Linked(s), s # <<>>, Closes(Head(s)) # "none", NEW o, Closed(o, s)
  PROVE  o # <<>> /\ Last(o) = Closes(Head(s))
<1>1. PICK d, n : d = Debts(s) /\ n = Len(s)
  OBVIOUS
<1>2. IsSequence(s) /\ Enumerates(o, d)
  BY <1>1 DEF Linked, Closed
<1>3. n \in DOMAIN d /\ d[n] = Closes(Head(s)) /\ \A x \in DOMAIN d : x \in Nat /\ x <= n
  BY <1>1, <1>2, DebtsOf
<1> QED
  BY <1>2, <1>3, EnumerationEnds

\* A step consumes the bracket that closes what it owes.
LEMMA ClosedClosed ==
  ASSUME NEW s, Linked(s), s # <<>>, ~IsOpener(Head(s)), NEW steps, Pushes(Head(s), steps),
         Closes(Head(s)) # "none", Owes(steps, "none"), NEW o, Closed(o, s)
  PROVE  Closed(Front(o), steps \o Tail(s))
<1>1. PICK t, d, f, n : t = steps \o Tail(s) /\ d = Debts(s) /\ f = Debts(t) /\ n = Len(s)
  OBVIOUS
<1>2. IsSequence(s) /\ Enumerates(o, d)
  BY <1>1 DEF Linked, Closed
<1>3. n \in DOMAIN d /\ \A x \in DOMAIN d : x \in Nat /\ x <= n
  BY <1>1, <1>2, DebtsOf
<1>4. DOMAIN f = DOMAIN d \ {n} /\ \A x \in DOMAIN f : f[x] = d[x]
  <2>1. /\ DOMAIN f = (DOMAIN d \ {n}) \cup Brought(steps, Len(t))
        /\ \A e \in DOMAIN d \ {n} : f[e] = d[e]
    BY <1>1, DebtsPushed
  <2>2. Brought(steps, Len(t)) = {}
    BY DEF Owes, Brought
  <2> QED
    BY <2>1, <2>2
<1>5. Enumerates(Front(o), f)
  BY <1>2, <1>3, <1>4, EnumerationShrinks
<1> QED
  BY <1>1, <1>5 DEF Closed

\* A bracket is consumed that was waited for, and the step behind owes it.
LEMMA ClosedBegun ==
  ASSUME NEW s, Linked(s), s # <<>>, IsOpener(Head(s)), NEW o, Closed(o, s)
  PROVE  /\ 2 \in DOMAIN s
         /\ Closed(Append(o, Closes(s[2])), Tail(s))
<1>1. PICK t, d, f, n : t = Tail(s) /\ d = Debts(s) /\ f = Debts(t) /\ n = Len(s)
  OBVIOUS
<1>2. /\ IsSequence(s) /\ Enumerates(o, d) /\ n \in Nat /\ DOMAIN s = 1..n /\ Head(s) = s[1]
      /\ IsSequence(t) /\ Len(t) = n - 1 /\ DOMAIN t = 1..(n - 1)
      /\ \A i \in 1..(n - 1) : t[i] = s[i + 1]
      /\ 1 \in DOMAIN s
  BY <1>1, Behead, Places DEF Linked, Closed
<1>3. 2 \in DOMAIN s
  BY <1>2 DEF Linked
<1>4. Closes(s[2]) # "none" /\ Closes(s[1]) = "none"
  <2>1. May(s[1], s[2])
    BY <1>2, <1>3 DEF Linked
  <2>2. Closes(s[2]) # "none"
    BY <1>2, <2>1 DEF May, IsOpener, Closes
  <2>3. Closes(s[1]) = "none"
    BY <1>2 DEF IsOpener, Closes
  <2> QED
    BY <2>2, <2>3
<1>5. /\ \A e \in DOMAIN d : e \in 1..n
      /\ n \notin DOMAIN d
      /\ \A e \in 1..n : /\ e \in DOMAIN d <=> FromEnd(s, e) \in Owed(s)
                         /\ e \in DOMAIN d => d[e] = Closes(s[FromEnd(s, e)])
  BY <1>1, <1>2, <1>4, DebtsOf
<1>6. /\ \A e \in DOMAIN f : e \in 1..(n - 1)
      /\ \A e \in 1..(n - 1) : /\ e \in DOMAIN f <=> FromEnd(t, e) \in Owed(t)
                               /\ e \in DOMAIN f => f[e] = Closes(t[FromEnd(t, e)])
  <2>1. t # <<>>
    BY <1>2, <1>3, SmallSequences
  <2> QED
    BY <1>1, <1>2, <2>1, DebtsOf
<1>7. n - 1 \in DOMAIN f /\ f[n - 1] = Closes(s[2]) /\ n - 1 \notin DOMAIN d /\ n - 1 \in Nat
  <2>1. n - 1 \in 1..(n - 1) /\ n - 1 \in 1..n /\ 1 \in 1..(n - 1) /\ 1 + 1 = 2
    BY <1>2, <1>3
  <2>2. FromEnd(t, n - 1) = 1 /\ FromEnd(s, n - 1) = 2
    BY <1>1, <1>2 DEF FromEnd
  <2>3. 1 \in Owed(t) /\ t[1] = s[2]
    BY <1>2, <1>4, <2>1 DEF Owed
  <2>4. 2 \notin Owed(s)
    BY <1>2 DEF Owed
  <2> QED
    BY <1>2, <1>5, <1>6, <2>1, <2>2, <2>3, <2>4
<1>8. ASSUME NEW e \in 1..(n - 2)
      PROVE  /\ e \in DOMAIN f <=> e \in DOMAIN d
             /\ e \in DOMAIN d => f[e] = d[e]
  <2>1. PICK i \in 3..n : i = n + 1 - e
    BY <1>2
  <2>2. i - 1 \in 1..(n - 1) /\ (i - 1) + 1 = i /\ i - 1 # 1 /\ i # 1 /\ i \in 1..n
        /\ (i - 1) - 1 \in 1..(n - 1) /\ ((i - 1) - 1) + 1 = i - 1 /\ e \in 1..n /\ e \in 1..(n - 1)
    BY <1>2, <2>1
  <2>3. FromEnd(t, e) = i - 1 /\ FromEnd(s, e) = i
    BY <1>1, <1>2, <2>1 DEF FromEnd
  <2>4. t[i - 1] = s[i] /\ t[(i - 1) - 1] = s[i - 1]
    BY <1>2, <2>2
  <2>5. i - 1 \in Owed(t) <=> i \in Owed(s)
    BY <1>2, <2>2, <2>4 DEF Owed
  <2> QED
    BY <1>5, <1>6, <2>2, <2>3, <2>4, <2>5
<1>9. \A x \in DOMAIN d : x \in Nat /\ x < n - 1 /\ f[x] = d[x]
  <2>1. \A x \in DOMAIN d : x \in 1..(n - 2)
    BY <1>2, <1>5, <1>7
  <2> QED
    BY <1>2, <1>8, <2>1
<1>10. DOMAIN f = DOMAIN d \cup {n - 1}
  <2>1. \A x \in DOMAIN d : x \in 1..(n - 2)
    BY <1>2, <1>5, <1>7
  <2>2. \A x \in DOMAIN f : x = n - 1 \/ x \in 1..(n - 2)
    BY <1>2, <1>6
  <2> QED
    BY <1>7, <1>8, <2>1, <2>2
<1>11. Enumerates(Append(o, f[n - 1]), f)
  <2>1. Extends(f, d, n - 1)
    BY <1>7, <1>9, <1>10 DEF Extends
  <2> QED
    BY <1>2, <2>1, EnumerationGrows
<1> QED
  BY <1>1, <1>3, <1>7, <1>11 DEF Closed

(***************************************************************************)
(* The inductive invariant.                                                *)
(***************************************************************************)
\* A token that is to be taken fits, unless newlines came between.
Ready(steps, token) ==
    steps # <<>> /\ steps[1][1] = "take" /\ steps[1][2] # "unary" => token \in Fit(steps[1][2])
HeadFits == ~failed => Ready(todo, prev)

\* The first token is asked for once, before anything else.
Begun == \A i \in DOMAIN todo : todo[i][1] = "advance" => i = 1 /\ cur = "taken"

\* Only after an error are tokens passed over.
ErrorsKnown ==
    /\ panic_mode => failed
    /\ \A i \in DOMAIN todo : todo[i][1] = "resume" => failed

\* There is no token behind the end of the source.
EndStays == AtEnd => left = 0

\* The open brackets are those that the steps will close; at the end of the
\* source the brace of a struct may have been forgotten.
Unclosed ==
    /\ AtEnd
    /\ \E o : opens = Append(o, "struct") /\ Closed(o, todo) /\ \A k \in DOMAIN o : o[k] # "struct"
Balanced == ~failed => Closed(opens, todo) \/ Unclosed

Ended == status = "accepted" => todo = <<>> /\ ~failed

IInv ==
    /\ ParserTypeOK /\ TakesWhatFits
    /\ Linked(todo) /\ InFields(todo) /\ ProgramLast(todo)
    /\ FlagOff(todo, ignore_newlines)
    /\ Begun /\ HeadFits /\ ErrorsKnown /\ EndStays /\ Balanced /\ Ended

(***************************************************************************)
(* What each kind of step keeps.                                           *)
(***************************************************************************)
\* advance() stays within the source, and after an error nothing is recorded.
LEMMA AdvanceEffect ==
  ASSUME ParserTypeOK, TakesWhatFits, ErrorsKnown, EndStays, NEW error \in BOOLEAN, Advance(error),
         UNCHANGED <<ignore_newlines, user_types, status>>
  PROVE  /\ ParserTypeOK' /\ TakesWhatFits' /\ EndStays'
         /\ prev' = cur /\ (AtEnd => AtEnd')
         /\ (failed => failed') /\ (error => failed') /\ (panic_mode' => failed')
         /\ (~failed' => ~failed /\ opens' = Brackets)
<1>1. PICK unreadable \in BOOLEAN :
        /\ prev' = cur
        /\ cur' \in Following
        /\ left' = IF cur' = "EOF" THEN 0 ELSE left - 1
        /\ UNCHANGED tokens
        /\ Report(error \/ unreadable)
        /\ Record(error \/ unreadable, Brackets, odd)
  BY DEF Advance
<1>2. PICK s \in Sources : tokens = s.tokens /\ left \in 0..s.length /\ s.length \in Nat
  BY ParserAssumption DEF ParserTypeOK
<1>3. cur' \in Kinds' /\ prev' \in Kinds'
  BY <1>1 DEF ParserTypeOK, Kinds, Following
<1>4. left' \in 0..s.length
  <2>1. CASE left = 0
    BY <1>1, <1>2, <2>1 DEF Following
  <2>2. CASE left # 0
    BY <1>1, <1>2, <2>2
  <2> QED
    BY <2>1, <2>2
<1>5. (AtEnd => AtEnd') /\ EndStays'
  BY <1>1 DEF EndStays, AtEnd, Following
<1>6. /\ panic_mode' = (panic_mode \/ (error \/ unreadable))
      /\ failed' = (failed \/ (error \/ unreadable))
      /\ opens' = IF failed' THEN <<>> ELSE Brackets
      /\ odd' = IF failed' THEN {} ELSE odd
  BY <1>1 DEF Report, Record
<1>7. /\ panic_mode \in BOOLEAN /\ failed \in BOOLEAN /\ ignore_newlines \in BOOLEAN
      /\ user_types \subseteq Identifiers /\ status \in {"parsing", "accepted", "refused", "panicked", "todo"}
      /\ panic_mode => failed
  BY DEF ParserTypeOK, ErrorsKnown
<1>8. panic_mode' \in BOOLEAN /\ failed' \in BOOLEAN
  BY <1>6, <1>7
<1>9. ParserTypeOK'
  BY <1>1, <1>2, <1>3, <1>4, <1>7, <1>8 DEF ParserTypeOK
<1>10. (failed => failed') /\ (error => failed') /\ (panic_mode' => failed')
  BY <1>6, <1>7
<1>11. ~failed' => ~failed /\ opens' = Brackets
  BY <1>6, <1>7
<1>12. TakesWhatFits'
  BY <1>6 DEF TakesWhatFits
<1> QED
  BY <1>1, <1>5, <1>9, <1>10, <1>11, <1>12

\* The steps that a method calls instead of itself, without those that need
\* more than the rules of the stack.
Ordinary(h, steps) ==
    /\ Pushes(h, steps) /\ h[1] \notin {"expect", "restore"}
    /\ \A i \in DOMAIN steps : steps[i][1] \notin {"restore", "resume"}

\* A step may end with nothing to do.
LEMMA NothingPushed ==
  ASSUME NEW h
  PROVE  /\ Pushes(h, <<>>) /\ Owes(<<>>, "none")
         /\ \A i \in DOMAIN <<>> : <<>>[i][1] \notin {"restore", "resume"}
BY SmallSequences DEF Pushes, Linked, InFields, Owes, Owed

\* The steps that are there after the top was replaced.
LEMMA Elements ==
  ASSUME NEW s, IsSequence(s), s # <<>>, NEW steps, IsSequence(steps)
  PROVE  LET t == steps \o Tail(s)
         IN \A i \in DOMAIN t : \/ \E j \in DOMAIN steps : t[i] = steps[j]
                                \/ \E j \in DOMAIN s : j # 1 /\ t[i] = s[j]
<1>1. PICK t, m, n : t = steps \o Tail(s) /\ m = Len(steps) /\ n = Len(s)
  OBVIOUS
<1>2. /\ \A i \in 1..m : t[i] = steps[i]
      /\ \A i \in 2..n : t[m + i - 1] = s[i]
      /\ \A i \in DOMAIN t : i \notin 1..m => \E j \in 2..n : i = m + j - 1
      /\ DOMAIN s = 1..n /\ DOMAIN steps = 1..m /\ n \in Nat
  BY <1>1, Rewritten
<1>3. \A j \in 2..n : j \in DOMAIN s /\ j # 1
  BY <1>2
<1>4. ASSUME NEW i \in DOMAIN t, i \notin 1..m PROVE \E j \in DOMAIN s : j # 1 /\ t[i] = s[j]
  <2>1. PICK j \in 2..n : i = m + j - 1
    BY <1>2, <1>4
  <2>2. t[i] = s[j]
    BY <1>2, <2>1
  <2> QED
    BY <1>3, <2>1, <2>2
<1> QED
  BY <1>1, <1>2, <1>4

\* The rules of the stack are kept when its top is replaced.
LEMMA StackKeeps ==
  ASSUME IInv, todo # <<>>, NEW steps, Pushes(Head(todo), steps), Head(todo)[1] # "restore",
         \A i \in DOMAIN steps : steps[i][1] # "restore" /\ (steps[i][1] = "resume" => failed'),
         todo' = steps \o Tail(todo), UNCHANGED ignore_newlines,
         failed => failed', panic_mode' => failed'
  PROVE  /\ Linked(todo)' /\ InFields(todo)' /\ ProgramLast(todo)'
         /\ FlagOff(todo, ignore_newlines)' /\ ErrorsKnown' /\ Begun'
<1>1. PICK s : s = todo
  OBVIOUS
<1>2. /\ Linked(s) /\ InFields(s) /\ ProgramLast(s) /\ FlagOff(s, ignore_newlines)
      /\ \A i \in DOMAIN s : s[i][1] = "resume" => failed
      /\ \A i \in DOMAIN s : s[i][1] = "advance" => i = 1
  BY <1>1 DEF IInv, ErrorsKnown, Begun
<1>3. NoRestore(steps, 1, Len(steps))
  <2>1. DOMAIN steps = 1..Len(steps)
    BY Places DEF Pushes, Linked
  <2> QED
    BY <2>1 DEF NoRestore
<1>4. PICK t : t = steps \o Tail(s)
  OBVIOUS
<1>5. Linked(t) /\ InFields(t) /\ ProgramLast(t) /\ FlagOff(t, ignore_newlines)
  BY <1>1, <1>2, <1>3, <1>4, LinkedPushed, PlacesPushed, FlagPushed
<1>6. \A i \in DOMAIN t : \/ \E j \in DOMAIN steps : t[i] = steps[j]
                         \/ \E j \in DOMAIN s : j # 1 /\ t[i] = s[j]
  <2>1. IsSequence(s) /\ IsSequence(steps) /\ s # <<>>
    BY <1>1, <1>2 DEF Linked, Pushes
  <2> QED
    BY ONLY <1>4, <2>1, Elements, SMTT(30)
<1>7. ASSUME NEW i \in DOMAIN t, t[i][1] = "resume" PROVE failed'
  <2>1. CASE \E j \in DOMAIN steps : t[i] = steps[j]
    BY <1>7, <2>1
  <2>2. CASE \E j \in DOMAIN s : j # 1 /\ t[i] = s[j]
    BY <1>2, <1>7, <2>2
  <2> QED
    BY <1>6, <2>1, <2>2
<1>8. todo' = t
  BY <1>1, <1>4
<1>9. \A i \in DOMAIN t : t[i][1] # "advance"
  <2>1. \A j \in DOMAIN steps : steps[j][1] # "advance"
    BY <1>1 DEF Pushes
  <2> QED
    BY <1>2, <1>6, <2>1
<1>10. Linked(todo)' /\ InFields(todo)' /\ ProgramLast(todo)' /\ FlagOff(todo, ignore_newlines)'
  BY <1>5, <1>8
<1>11. ErrorsKnown'
  BY <1>7, <1>8 DEF ErrorsKnown
<1>12. Begun'
  BY <1>8, <1>9 DEF Begun
<1> QED
  BY <1>10, <1>11, <1>12

\* What is taken next fits.
LEMMA TopFits ==
  ASSUME IInv, todo # <<>>, NEW steps, Pushes(Head(todo), steps), Head(todo)[1] # "expect",
         Ready(steps, prev'), todo' = steps \o Tail(todo)
  PROVE  HeadFits'
<1>1. PICK s, t : s = todo /\ t = steps \o Tail(s)
  OBVIOUS
<1>2. Linked(s) /\ Linked(steps)
  BY <1>1 DEF IInv, Pushes
<1>3. PICK m, n : m = Len(steps) /\ n = Len(s)
  OBVIOUS
<1>4. /\ IsSequence(t) /\ DOMAIN t = 1..(m + n - 1) /\ n \in Nat \ {0} /\ m \in Nat
      /\ \A i \in 1..m : t[i] = steps[i]
      /\ \A i \in 2..n : t[m + i - 1] = s[i]
      /\ Head(s) = s[1] /\ DOMAIN s = 1..n
  BY <1>1, <1>2, <1>3, Rewritten DEF Linked
<1>5. Ready(t, prev')
  <2>1. CASE m # 0
    <3>1. t[1] = steps[1] /\ steps # <<>>
      BY <1>3, <1>4, <2>1, SmallSequences
    <3> QED
      BY <3>1 DEF Ready
  <2>2. CASE m = 0 /\ n = 1
    <3>1. DOMAIN t = {}
      BY <1>4, <2>2
    <3>2. t = <<>>
      <4> SUFFICES ASSUME t # <<>> PROVE FALSE
        OBVIOUS
      <4>1. 1 \in DOMAIN t
        BY <1>4, Behead
      <4> QED
        BY <3>1, <4>1
    <3> QED
      BY <3>2 DEF Ready
  <2>3. CASE m = 0 /\ n # 1
    <3>1. 2 \in DOMAIN s /\ 1 \in DOMAIN s /\ 1 + 1 = 2 /\ t[1] = s[2]
      <4>1. 2 \in 2..n /\ m + 2 - 1 = 1
        BY <1>4, <2>3
      <4> QED
        BY <1>4, <4>1
    <3>2. May(s[1], s[2])
      BY <1>2, <3>1 DEF Linked
    <3> QED
      BY <1>1, <1>4, <3>1, <3>2 DEF Ready, May
  <2> QED
    BY <2>1, <2>2, <2>3
<1> QED
  BY <1>1, <1>5 DEF HeadFits

\* What steps consist of.
LEMMA StepParts ==
  /\ \A x : Do(x)[1] = x /\ Do(x)[2] = ""
  /\ \A x : Expect(x)[1] = "expect" /\ Expect(x)[2] = x
  /\ \A x : Take(x)[1] = "take" /\ Take(x)[2] = x
  /\ \A x : Expression(x)[1] = "expression" /\ Expression(x)[2] = x
  /\ \A x : Series(x)[1] = "series" /\ Series(x)[2] = x
  /\ Skip = Do("skip")
  /\ \A x, y : <<x, y>>[1] = x /\ <<x, y>>[2] = y
BY DEF Do, Expect, Take, Expression, Series, Skip

\* The brackets that are open are those that the steps owe, after a step that
\* neither opens nor closes one.
LEMMA BalanceKept ==
  ASSUME IInv, todo # <<>>, NEW steps, Pushes(Head(todo), steps), ~IsOpener(Head(todo)),
         Owes(steps, Closes(Head(todo))), todo' = steps \o Tail(todo),
         AtEnd => AtEnd', ~failed' => ~failed /\ opens' = opens
  PROVE  Balanced'
<1>1. PICK s, t : s = todo /\ t = steps \o Tail(s)
  OBVIOUS
<1>2. Linked(s) /\ Balanced
  BY <1>1 DEF IInv
<1>3. ~IsOpener(Head(s))
  BY <1>1
<1>4. ASSUME NEW o, Closed(o, s) PROVE Closed(o, t)
  BY <1>1, <1>2, <1>3, <1>4, ClosedKept
<1>5. Closed(opens, s) => Closed(opens, t)
  BY <1>4
<1>6. todo' = t
  BY <1>1
<1>7. SUFFICES ASSUME ~failed' PROVE (Closed(opens, todo) \/ Unclosed)'
  BY DEF Balanced
<1>8. ~failed /\ opens' = opens /\ (Closed(opens, s) \/ Unclosed)
  BY <1>1, <1>2, <1>7 DEF Balanced
<1>9. CASE Closed(opens, s)
  BY <1>5, <1>6, <1>8, <1>9
<1>10. CASE Unclosed
  <2>1. PICK o : opens = Append(o, "struct") /\ Closed(o, s) /\ \A k \in DOMAIN o : o[k] # "struct"
    BY <1>1, <1>10 DEF Unclosed
  <2>2. Closed(o, t)
    BY <1>4, <2>1
  <2>3. AtEnd'
    BY <1>10 DEF Unclosed
  <2>4. opens' = Append(o, "struct") /\ Closed(o, todo')
    BY <1>6, <1>8, <2>1, <2>2
  <2> QED
    BY <2>1, <2>3, <2>4 DEF Unclosed
<1> QED
  BY <1>8, <1>9, <1>10

\* A method calls others.
LEMMA GoKeeps ==
  ASSUME IInv, status = "parsing", todo # <<>>, NEW steps, Ordinary(Head(todo), steps),
         Owes(steps, Closes(Head(todo))), steps # <<>> => steps[1][1] # "take", Go(steps)
  PROVE  IInv'
<1>1. /\ todo' = steps \o Tail(todo) /\ UNCHANGED <<ignore_newlines, user_types, status>>
      /\ UNCHANGED <<source, errors, opens, odd>>
  BY DEF Go, Then, Quietly
<1>2. UNCHANGED <<cur, prev, left, tokens, panic_mode, failed>>
  BY <1>1 DEF source, errors
<1>3. /\ Pushes(Head(todo), steps) /\ Head(todo)[1] # "expect" /\ Head(todo)[1] # "restore"
      /\ \A i \in DOMAIN steps : steps[i][1] # "restore" /\ steps[i][1] # "resume"
  BY DEF Ordinary
<1>4. /\ Linked(todo)' /\ InFields(todo)' /\ ProgramLast(todo)'
      /\ FlagOff(todo, ignore_newlines)' /\ ErrorsKnown' /\ Begun'
  <2>1. (panic_mode' => failed') /\ (failed => failed') /\ UNCHANGED ignore_newlines
    BY <1>1, <1>2 DEF IInv, ErrorsKnown
  <2>2. \A i \in DOMAIN steps : steps[i][1] # "restore" /\ (steps[i][1] = "resume" => failed')
    BY <1>3
  <2>3. todo' = steps \o Tail(todo)
    BY <1>1
  <2> QED
    BY <1>3, <2>1, <2>2, <2>3, StackKeeps
<1>5. HeadFits'
  <2>1. Ready(steps, prev')
    BY DEF Ready
  <2>2. todo' = steps \o Tail(todo)
    BY <1>1
  <2> QED
    BY <1>3, <2>1, <2>2, TopFits
<1>6. Balanced'
  <2>1. (AtEnd => AtEnd') /\ (~failed' => ~failed /\ opens' = opens) /\ todo' = steps \o Tail(todo)
    BY <1>1, <1>2 DEF AtEnd
  <2>2. ~IsOpener(Head(todo))
    BY <1>3 DEF IsOpener
  <2> QED
    BY <1>3, <2>1, <2>2, BalanceKept
<1>7. ParserTypeOK' /\ TakesWhatFits' /\ EndStays'
  <2>1. ParserTypeOK'
    BY <1>1, <1>2 DEF IInv, ParserTypeOK, Kinds
  <2>2. TakesWhatFits' /\ EndStays'
    BY <1>1, <1>2 DEF IInv, TakesWhatFits, EndStays, AtEnd
  <2> QED
    BY <2>1, <2>2
<1>8. Ended'
  BY <1>1 DEF Ended
<1> QED
  BY <1>4, <1>5, <1>6, <1>7, <1>8 DEF IInv

\* A method reports an error and returns.
LEMMA FailKeeps ==
  ASSUME IInv, status = "parsing", todo # <<>>, Head(todo)[1] # "restore", Fail(<<>>)
  PROVE  IInv'
<1>1. /\ todo' = <<>> \o Tail(todo) /\ UNCHANGED <<ignore_newlines, user_types, status>>
      /\ UNCHANGED source /\ Report(TRUE) /\ Record(TRUE, opens, odd)
  BY DEF Fail, Then, Quietly
<1>2. UNCHANGED <<cur, prev, left, tokens>> /\ panic_mode' = TRUE /\ failed' = TRUE /\ odd' = {}
  BY <1>1 DEF source, Report, Record
<1>3. /\ Linked(todo)' /\ InFields(todo)' /\ ProgramLast(todo)'
      /\ FlagOff(todo, ignore_newlines)' /\ ErrorsKnown' /\ Begun'
  <2>1. PICK steps : steps = <<>>
    OBVIOUS
  <2>2. /\ Pushes(Head(todo), steps)
        /\ \A i \in DOMAIN steps : steps[i][1] # "restore" /\ (steps[i][1] = "resume" => failed')
    BY <2>1, NothingPushed, SmallSequences
  <2>3. /\ todo' = steps \o Tail(todo) /\ UNCHANGED ignore_newlines
        /\ (failed => failed') /\ (panic_mode' => failed')
    BY <1>1, <1>2, <2>1
  <2> QED
    BY <2>2, <2>3, StackKeeps
<1>4. HeadFits' /\ Balanced'
  BY <1>2 DEF HeadFits, Balanced
<1>5. ParserTypeOK' /\ TakesWhatFits' /\ EndStays'
  <2>1. ParserTypeOK'
    BY <1>1, <1>2 DEF IInv, ParserTypeOK, Kinds
  <2>2. TakesWhatFits' /\ EndStays'
    BY <1>2 DEF IInv, TakesWhatFits, EndStays, AtEnd
  <2> QED
    BY <2>1, <2>2
<1>6. Ended'
  BY <1>1 DEF Ended
<1> QED
  BY <1>3, <1>4, <1>5, <1>6 DEF IInv

\* Of the tokens only brackets are opened and closed.
Openers == {"(", "[", "{"}
Closers == {")", "]", "}"}

\* A bracket is that of a block and not of a struct where no fields follow.
LEMMA OpenedHere ==
  ASSUME IInv, todo # <<>>, Head(todo)[1] \notin {"skip", "expect"}
  PROVE  Opened = cur
<1>1. PICK s : s = todo
  OBVIOUS
<1>2. Linked(s) /\ IsSequence(s)
  BY <1>1 DEF IInv, Linked
<1>3. Head(s) = s[1] /\ 1 \in DOMAIN s /\ DOMAIN s = 1..Len(s) /\ Len(s) \in Nat
  BY <1>1, <1>2, Behead, Places
<1>4. ASSUME Len(s) > 1, s[2] = Do("fields") PROVE FALSE
  <2>1. 1 + 1 \in DOMAIN s /\ 1 + 1 = 2
    BY <1>3, <1>4
  <2>2. May(s[1], s[2])
    BY <1>2, <1>3, <2>1 DEF Linked
  <2>3. s[2][1] = "fields"
    BY <1>4, StepParts
  <2> QED
    BY <1>1, <1>3, <2>2, <2>3 DEF May
<1> QED
  BY <1>1, <1>4 DEF Opened

\* A method consumes a token that closes no bracket, and goes on.
LEMMA ConsumeKeeps ==
  ASSUME IInv, status = "parsing", todo # <<>>, NEW steps, Pushes(Head(todo), steps),
         Head(todo)[1] \notin {"skip", "expect", "restore"},
         \A i \in DOMAIN steps : steps[i][1] # "restore" /\ (steps[i][1] = "resume" => failed),
         Ready(steps, cur), Consume(steps),
         failed \/ \/ cur \in Openers /\ Closes(Head(todo)) = "none" /\ Owes(steps, cur)
                   \/ cur \notin Openers \cup Closers /\ Owes(steps, Closes(Head(todo)))
  PROVE  IInv'
<1>1. /\ todo' = steps \o Tail(todo) /\ UNCHANGED <<ignore_newlines, user_types, status>>
      /\ Advance(FALSE)
  BY DEF Consume, Then, Quietly
<1>2. /\ ParserTypeOK' /\ TakesWhatFits' /\ EndStays'
      /\ prev' = cur /\ (AtEnd => AtEnd')
      /\ (failed => failed') /\ (panic_mode' => failed')
      /\ (~failed' => ~failed /\ opens' = Brackets)
  <2>1. ParserTypeOK /\ TakesWhatFits /\ ErrorsKnown /\ EndStays /\ FALSE \in BOOLEAN
    BY DEF IInv
  <2> QED
    BY <1>1, <2>1, AdvanceEffect
<1>3. /\ Linked(todo)' /\ InFields(todo)' /\ ProgramLast(todo)'
      /\ FlagOff(todo, ignore_newlines)' /\ ErrorsKnown' /\ Begun'
  <2>1. \A i \in DOMAIN steps : steps[i][1] # "restore" /\ (steps[i][1] = "resume" => failed')
    BY <1>2
  <2>2. /\ todo' = steps \o Tail(todo) /\ UNCHANGED ignore_newlines
        /\ (failed => failed') /\ (panic_mode' => failed')
    BY <1>1, <1>2
  <2> QED
    BY <2>1, <2>2, StackKeeps
<1>4. HeadFits'
  <2>1. Ready(steps, prev') /\ todo' = steps \o Tail(todo)
    BY <1>1, <1>2
  <2> QED
    BY <2>1, TopFits
<1>5. Balanced'
  <2>1. CASE failed
    BY <1>2, <2>1 DEF Balanced
  <2>2. CASE ~failed /\ cur \notin Openers \cup Closers
    <3>1. Brackets = opens
      BY <2>2 DEF Brackets, Openers, Closers
    <3>2. /\ todo' = steps \o Tail(todo) /\ (AtEnd => AtEnd')
          /\ (~failed' => ~failed /\ opens' = opens)
      BY <1>1, <1>2, <3>1
    <3>3. Owes(steps, Closes(Head(todo)))
      BY <2>2
    <3>4. ~IsOpener(Head(todo))
      BY DEF IsOpener
    <3> QED
      BY <3>2, <3>3, <3>4, BalanceKept
  <2>3. CASE ~failed /\ cur \in Openers
    <3>1. Closes(Head(todo)) = "none" /\ Owes(steps, cur) /\ cur # "none"
      BY <2>3 DEF Openers, Closers
    <3>2. Brackets = Append(opens, cur)
      <4>1. Opened = cur
        BY OpenedHere
      <4> QED
        BY <2>3, <4>1 DEF Brackets, Openers
    <3>3. PICK s, o, c : s = todo /\ o = opens /\ c = cur
      OBVIOUS
    <3>4. Linked(s) /\ Closed(o, s)
      BY <2>3, <3>3 DEF IInv, Balanced, Unclosed, AtEnd, Openers
    <3>5. Closed(Append(o, c), steps \o Tail(s))
      <4>1. s # <<>> /\ ~IsOpener(Head(s)) /\ Pushes(Head(s), steps) /\ Closes(Head(s)) = "none"
            /\ c # "none" /\ Owes(steps, c)
        BY <3>1, <3>3 DEF IsOpener
      <4> QED
        BY <3>4, <4>1, ClosedOpened
    <3>6. ~failed' => Closed(opens, todo)'
      BY <1>1, <1>2, <3>2, <3>3, <3>5
    <3> QED
      BY <3>6 DEF Balanced
  <2> QED
    BY <2>1, <2>2, <2>3
<1>6. Ended'
  BY <1>1 DEF Ended
<1> QED
  BY <1>2, <1>3, <1>4, <1>5, <1>6 DEF IInv

\* A method reports an error, consumes a token and goes on.
LEMMA AdvanceFails ==
  ASSUME IInv, status = "parsing", todo # <<>>, NEW steps, Pushes(Head(todo), steps),
         Head(todo)[1] # "restore",
         \A i \in DOMAIN steps : steps[i][1] # "restore" /\ (steps[i][1] = "resume" => failed),
         Advance(TRUE), Then(steps), Quietly
  PROVE  IInv'
<1>1. todo' = steps \o Tail(todo) /\ UNCHANGED <<ignore_newlines, user_types, status>>
  BY DEF Then, Quietly
<1>2. /\ ParserTypeOK' /\ TakesWhatFits' /\ EndStays'
      /\ (failed => failed') /\ failed' /\ (panic_mode' => failed')
  <2>1. ParserTypeOK /\ TakesWhatFits /\ ErrorsKnown /\ EndStays /\ TRUE \in BOOLEAN
    BY DEF IInv
  <2> QED
    BY <1>1, <2>1, AdvanceEffect
<1>3. /\ Linked(todo)' /\ InFields(todo)' /\ ProgramLast(todo)'
      /\ FlagOff(todo, ignore_newlines)' /\ ErrorsKnown' /\ Begun'
  <2>1. \A i \in DOMAIN steps : steps[i][1] # "restore" /\ (steps[i][1] = "resume" => failed')
    BY <1>2
  <2>2. /\ todo' = steps \o Tail(todo) /\ UNCHANGED ignore_newlines
        /\ (failed => failed') /\ (panic_mode' => failed')
    BY <1>1, <1>2
  <2> QED
    BY <2>1, <2>2, StackKeeps
<1>4. HeadFits' /\ Balanced'
  BY <1>2 DEF HeadFits, Balanced
<1>5. Ended'
  BY <1>1 DEF Ended
<1> QED
  BY <1>2, <1>3, <1>4, <1>5 DEF IInv

(***************************************************************************)
(* Rows of steps.                                                          *)
(***************************************************************************)
\* A step that h may call, and rows of such steps.
Fits(h, a) ==
    /\ IsStep(a)
    /\ a[1] \notin {"program", "advance", "field", "fields", "restore", "resume"}
    /\ a[1] \in StatementNames => h[1] \in StatementNames
    /\ h[1] \in FieldNames => a[1] \in FieldNames
Row(h, s) ==
    /\ IsSequence(s)
    /\ \A i \in DOMAIN s :
         /\ Fits(h, s[i])
         /\ IsOpener(s[i]) => i + 1 \in DOMAIN s
         /\ i + 1 \in DOMAIN s => May(s[i], s[i + 1])

\* Methods may call rows.
LEMMA RowsArePushed ==
  ASSUME NEW h, h[1] \notin {"skip", "expect", "restore"}, NEW s, Row(h, s)
  PROVE  Ordinary(h, s)
<1>1. Linked(s)
  BY DEF Row, Linked, Fits
<1>2. InFields(s)
  BY DEF Row, InFields, Fits
<1>3. Pushes(h, s)
  BY <1>1, <1>2 DEF Pushes, Row, Fits
<1> QED
  BY <1>3 DEF Ordinary, Row, Fits

\* Two rows make one.
LEMMA RowsJoined ==
  ASSUME NEW h, NEW s, NEW t, Row(h, s), Row(h, t), s # <<>>, t # <<>>, May(s[Len(s)], t[1])
  PROVE  /\ Row(h, s \o t)
         /\ \A x : Owes(s, "none") /\ Owes(t, x) => Owes(s \o t, x)
<1>1. PICK u, m, n : u = s \o t /\ m = Len(s) /\ n = Len(t)
  OBVIOUS
<1>2. /\ IsSequence(s) /\ IsSequence(t) /\ m \in Nat \ {0} /\ n \in Nat \ {0}
      /\ DOMAIN s = 1..m /\ DOMAIN t = 1..n
  BY <1>1, Places, Popped DEF Row
<1>3. /\ IsSequence(u) /\ DOMAIN u = 1..(m + n)
      /\ \A i \in 1..m : u[i] = s[i]
      /\ \A i \in 1..n : u[m + i] = t[i]
  BY <1>1, <1>2, Joined
<1>4. ASSUME NEW i \in 1..(m + n) PROVE i \in 1..m \/ \E j \in 1..n : i = m + j
  <2>1. i \notin 1..m => i - m \in 1..n /\ i = m + (i - m)
    BY <1>2
  <2> QED
    BY <2>1
<1>5. ~IsOpener(s[m])
  <2>1. m \in 1..m /\ m + 1 \notin 1..m
    BY <1>2
  <2> QED
    BY <1>2, <2>1 DEF Row
<1>6. ASSUME NEW i \in 1..m
      PROVE  Fits(h, u[i]) /\ (IsOpener(u[i]) => i + 1 \in 1..(m + n))
             /\ (i + 1 \in 1..(m + n) => May(u[i], u[i + 1]))
  <2>1. CASE i = m
    <3>1. u[i] = s[m] /\ u[m + 1] = t[1] /\ m \in 1..m
      BY <1>2, <1>3, <2>1
    <3>2. Fits(h, s[m])
      BY <1>2, <3>1 DEF Row
    <3> QED
      BY <1>1, <1>5, <2>1, <3>1, <3>2
  <2>2. CASE i # m
    <3>1. u[i] = s[i] /\ i + 1 \in 1..m /\ u[i + 1] = s[i + 1] /\ i + 1 \in 1..(m + n)
      BY <1>2, <1>3, <2>2
    <3>2. Fits(h, s[i]) /\ May(s[i], s[i + 1])
      BY <1>2, <3>1 DEF Row
    <3> QED
      BY <3>1, <3>2
  <2> QED
    BY <2>1, <2>2
<1>7. ASSUME NEW j \in 1..n
      PROVE  Fits(h, u[m + j]) /\ (IsOpener(u[m + j]) => m + j + 1 \in 1..(m + n))
             /\ (m + j + 1 \in 1..(m + n) => May(u[m + j], u[m + j + 1]))
  <2>1. u[m + j] = t[j] /\ (m + j + 1 \in 1..(m + n) <=> j + 1 \in 1..n) /\ m + (j + 1) = m + j + 1
    BY <1>2, <1>3
  <2>2. j + 1 \in 1..n => u[m + j + 1] = t[j + 1]
    BY <1>3, <2>1
  <2>3. /\ Fits(h, t[j])
        /\ IsOpener(t[j]) => j + 1 \in 1..n
        /\ j + 1 \in 1..n => May(t[j], t[j + 1])
    BY <1>2 DEF Row
  <2> QED
    BY <2>1, <2>2, <2>3
<1>8. Row(h, u)
  <2> SUFFICES ASSUME NEW i \in DOMAIN u
               PROVE  /\ Fits(h, u[i])
                      /\ IsOpener(u[i]) => i + 1 \in DOMAIN u
                      /\ i + 1 \in DOMAIN u => May(u[i], u[i + 1])
    BY <1>3 DEF Row
  <2>1. CASE i \in 1..m
    BY <1>3, <1>6, <2>1
  <2>2. CASE \E j \in 1..n : i = m + j
    BY <1>3, <1>7, <2>2
  <2> QED
    BY <1>3, <1>4, <2>1, <2>2
<1>9. ASSUME NEW x, Owes(s, "none"), Owes(t, x) PROVE Owes(u, x)
  <2>1. \A i \in 1..m : i \in Owed(u) <=> i \in Owed(s)
    <3>1. \A i \in 1..m : i # 1 => i - 1 \in 1..m
      BY <1>2
    <3>2. \A i \in 1..m : i \in 1..(m + n)
      BY <1>2
    <3> QED
      BY <1>2, <1>3, <3>1, <3>2 DEF Owed
  <2>2. ASSUME NEW j \in 1..n PROVE m + j \in Owed(u) <=> j \in Owed(t)
    <3>1. m + j \in 1..(m + n) /\ m + j # 1 /\ u[m + j] = t[j]
      BY <1>2, <1>3
    <3>2. CASE j = 1
      <4>1. u[m + j - 1] = s[m] /\ m + j - 1 = m
        BY <1>2, <1>3, <3>2
      <4> QED
        BY <1>2, <1>3, <1>5, <3>1, <3>2, <4>1 DEF Owed
    <3>3. CASE j # 1
      <4>1. j - 1 \in 1..n /\ m + (j - 1) = m + j - 1
        BY <1>2, <3>3
      <4>2. u[m + j - 1] = t[j - 1]
        BY <1>3, <4>1
      <4> QED
        BY <1>2, <1>3, <3>1, <3>3, <4>2 DEF Owed
    <3> QED
      BY <3>2, <3>3
  <2>3. Owed(s) = {} /\ Owed(u) \subseteq 1..(m + n) /\ Owed(t) \subseteq 1..n
    BY <1>2, <1>3, <1>9 DEF Owes, Owed
  <2>4. Owed(u) = {m + j : j \in Owed(t)}
    <3>1. \A i \in Owed(u) : \E j \in Owed(t) : i = m + j
      BY <1>4, <2>1, <2>2, <2>3
    <3>2. \A j \in Owed(t) : m + j \in Owed(u)
      BY <2>2, <2>3
    <3> QED
      BY <3>1, <3>2
  <2>5. CASE x = "none"
    BY <1>9, <2>4, <2>5 DEF Owes
  <2>6. CASE x # "none"
    <3>1. PICK j \in DOMAIN t : Owed(t) = {j} /\ Closes(t[j]) = x
      BY <1>9, <2>6 DEF Owes
    <3>2. Owed(u) = {m + j} /\ u[m + j] = t[j] /\ m + j \in DOMAIN u
      BY <1>2, <1>3, <2>4, <3>1
    <3> QED
      BY <2>6, <3>1, <3>2 DEF Owes
  <2> QED
    BY <2>5, <2>6
<1> QED
  BY <1>1, <1>8, <1>9

\* Steps owe nothing if none of them does, or only behind one that opens.
LEMMA OwesNothing ==
  ASSUME NEW s, \A i \in DOMAIN s : Closes(s[i]) = "none" \/ (i # 1 /\ IsOpener(s[i - 1]))
  PROVE  Owes(s, "none")
BY DEF Owes, Owed

\* Where only one step closes a bracket, that is owed.
LEMMA OwesOne ==
  ASSUME NEW s, NEW k \in DOMAIN s, \A i \in DOMAIN s : ~IsOpener(s[i]) /\ (i # k => Closes(s[i]) = "none"),
         IsSequence(s)
  PROVE  Owes(s, Closes(s[k]))
<1>1. Len(s) \in Nat /\ DOMAIN s = 1..Len(s)
  BY Places
<1>2. \A i \in DOMAIN s : i # 1 => i - 1 \in DOMAIN s
  BY <1>1
<1>3. CASE Closes(s[k]) = "none"
  BY <1>3, OwesNothing
<1>4. CASE Closes(s[k]) # "none"
  BY <1>2, <1>4 DEF Owes, Owed
<1> QED
  BY <1>3, <1>4

\* A step that has nothing to do with brackets.
Quiet(a) == ~IsOpener(a) /\ Closes(a) = "none"

\* Rows of one to four steps, and of five, and what they owe.
LEMMA Tuple1 ==
  ASSUME NEW a
  PROVE  LET s == <<a>>
         IN /\ IsSequence(s) /\ Len(s) = 1 /\ DOMAIN s = 1..1 /\ s # <<>>
            /\ s[1] = a
<1>1. <<a>> \in Seq({a})
  OBVIOUS
<1>2. IsSequence(<<a>>)
  BY <1>1, SeqIsSequence
<1> QED
  BY <1>2

\* The places of a row of two.
LEMMA Tuple2 ==
  ASSUME NEW a, NEW b
  PROVE  LET s == <<a, b>>
         IN /\ IsSequence(s) /\ Len(s) = 2 /\ DOMAIN s = 1..2 /\ s # <<>>
            /\ s[1] = a /\ s[2] = b
<1>1. <<a, b>> \in Seq({a, b})
  OBVIOUS
<1>2. IsSequence(<<a, b>>)
  BY <1>1, SeqIsSequence
<1> QED
  BY <1>2

\* The places of a row of three.
LEMMA Tuple3 ==
  ASSUME NEW a, NEW b, NEW c
  PROVE  LET s == <<a, b, c>>
         IN /\ IsSequence(s) /\ Len(s) = 3 /\ DOMAIN s = 1..3 /\ s # <<>>
            /\ s[1] = a /\ s[2] = b /\ s[3] = c
<1>1. <<a, b, c>> \in Seq({a, b, c})
  OBVIOUS
<1>2. IsSequence(<<a, b, c>>)
  BY <1>1, SeqIsSequence
<1> QED
  BY <1>2

\* The places of a row of four.
LEMMA Tuple4 ==
  ASSUME NEW a, NEW b, NEW c, NEW d
  PROVE  LET s == <<a, b, c, d>>
         IN /\ IsSequence(s) /\ Len(s) = 4 /\ DOMAIN s = 1..4 /\ s # <<>>
            /\ s[1] = a /\ s[2] = b /\ s[3] = c /\ s[4] = d
<1>1. <<a, b, c, d>> \in Seq({a, b, c, d})
  OBVIOUS
<1>2. IsSequence(<<a, b, c, d>>)
  BY <1>1, SeqIsSequence
<1> QED
  BY <1>2

\* The places of a row of five.
LEMMA Tuple5 ==
  ASSUME NEW a, NEW b, NEW c, NEW d, NEW e
  PROVE  LET s == <<a, b, c, d, e>>
         IN /\ IsSequence(s) /\ Len(s) = 5 /\ DOMAIN s = 1..5 /\ s # <<>>
            /\ s[1] = a /\ s[2] = b /\ s[3] = c /\ s[4] = d /\ s[5] = e
<1>1. <<a, b, c, d, e>> \in Seq({a, b, c, d, e})
  OBVIOUS
<1>2. IsSequence(<<a, b, c, d, e>>)
  BY <1>1, SeqIsSequence
<1> QED
  BY <1>2

\* A row of one step owes what that step closes.
LEMMA Row1 ==
  ASSUME NEW h, NEW a, Fits(h, a),
         ~IsOpener(a)
  PROVE  LET s == <<a>>
         IN /\ Row(h, s) /\ s # <<>> /\ s[1] = a
            /\ Owes(s, Closes(a))
<1>1. PICK s : s = <<a>>
  OBVIOUS
<1>2. /\ IsSequence(s) /\ DOMAIN s = 1..1 /\ s # <<>>
      /\ s[1] = a
  BY <1>1, Tuple1
<1>3. \A i \in DOMAIN s : i = 1
  BY <1>2
<1>4. \A i \in DOMAIN s : Fits(h, s[i])
  BY <1>2, <1>3
<1>5. \A i \in DOMAIN s : IsOpener(s[i]) => i + 1 \in DOMAIN s
  BY <1>2, <1>3
<1>6. \A i \in DOMAIN s : i + 1 \notin DOMAIN s
  BY <1>2
<1>7. Row(h, s)
  BY <1>2, <1>4, <1>5, <1>6 DEF Row
<1>8. ASSUME ~IsOpener(a) PROVE Owes(s, Closes(a))
  <2>1. 1 \in DOMAIN s /\ \A i \in DOMAIN s : ~IsOpener(s[i]) /\ (i # 1 => Closes(s[i]) = "none")
    BY <1>2, <1>3, <1>8 DEF Quiet
  <2>2. Owes(s, Closes(s[1]))
    BY <1>2, <2>1, OwesOne
  <2> QED
    BY <1>2, <2>2
<1> QED
  BY <1>1, <1>2, <1>7, <1>8

\* A row of two steps owes what the one closes that has to do with brackets.
LEMMA Row2 ==
  ASSUME NEW h, NEW a, NEW b, Fits(h, a), Fits(h, b),
         May(a, b), ~IsOpener(b)
  PROVE  LET s == <<a, b>>
         IN /\ Row(h, s) /\ s # <<>> /\ s[1] = a
            /\ Quiet(b) /\ ~IsOpener(a) => Owes(s, Closes(a))
            /\ Quiet(a) /\ ~IsOpener(b) => Owes(s, Closes(b))
<1>1. PICK s : s = <<a, b>>
  OBVIOUS
<1>2. /\ IsSequence(s) /\ DOMAIN s = 1..2 /\ s # <<>>
      /\ s[1] = a /\ s[2] = b
  BY <1>1, Tuple2
<1>3. \A i \in DOMAIN s : i = 1 \/ i = 2
  BY <1>2
<1>4. \A i \in DOMAIN s : Fits(h, s[i])
  BY <1>2, <1>3
<1>5. \A i \in DOMAIN s : IsOpener(s[i]) => i + 1 \in DOMAIN s
  BY <1>2, <1>3
<1>6. \A i \in DOMAIN s : i + 1 \in DOMAIN s => May(s[i], s[i + 1])
  <2>1. May(s[1], s[2])
    BY <1>2
  <2>2. \A i \in DOMAIN s : i + 1 \in DOMAIN s => (i = 1 /\ i + 1 = 2)
    BY <1>2
  <2> QED
    BY <2>1, <2>2
<1>7. Row(h, s)
  BY <1>2, <1>4, <1>5, <1>6 DEF Row
<1>8. ASSUME Quiet(b), ~IsOpener(a) PROVE Owes(s, Closes(a))
  <2>1. 1 \in DOMAIN s /\ \A i \in DOMAIN s : ~IsOpener(s[i]) /\ (i # 1 => Closes(s[i]) = "none")
    BY <1>2, <1>3, <1>8 DEF Quiet
  <2>2. Owes(s, Closes(s[1]))
    BY <1>2, <2>1, OwesOne
  <2> QED
    BY <1>2, <2>2
<1>9. ASSUME Quiet(a), ~IsOpener(b) PROVE Owes(s, Closes(b))
  <2>1. 2 \in DOMAIN s /\ \A i \in DOMAIN s : ~IsOpener(s[i]) /\ (i # 2 => Closes(s[i]) = "none")
    BY <1>2, <1>3, <1>9 DEF Quiet
  <2>2. Owes(s, Closes(s[2]))
    BY <1>2, <2>1, OwesOne
  <2> QED
    BY <1>2, <2>2
<1> QED
  BY <1>1, <1>2, <1>7, <1>8, <1>9

\* A row of three steps owes what the one closes that has to do with brackets.
LEMMA Row3 ==
  ASSUME NEW h, NEW a, NEW b, NEW c, Fits(h, a), Fits(h, b), Fits(h, c),
         May(a, b), May(b, c), ~IsOpener(c)
  PROVE  LET s == <<a, b, c>>
         IN /\ Row(h, s) /\ s # <<>> /\ s[1] = a
            /\ Quiet(b) /\ Quiet(c) /\ ~IsOpener(a) => Owes(s, Closes(a))
            /\ Quiet(a) /\ Quiet(c) /\ ~IsOpener(b) => Owes(s, Closes(b))
            /\ Quiet(a) /\ Quiet(b) /\ ~IsOpener(c) => Owes(s, Closes(c))
<1>1. PICK s : s = <<a, b, c>>
  OBVIOUS
<1>2. /\ IsSequence(s) /\ DOMAIN s = 1..3 /\ s # <<>>
      /\ s[1] = a /\ s[2] = b /\ s[3] = c
  BY <1>1, Tuple3
<1>3. \A i \in DOMAIN s : i = 1 \/ i = 2 \/ i = 3
  BY <1>2
<1>4. \A i \in DOMAIN s : Fits(h, s[i])
  BY <1>2, <1>3
<1>5. \A i \in DOMAIN s : IsOpener(s[i]) => i + 1 \in DOMAIN s
  BY <1>2, <1>3
<1>6. \A i \in DOMAIN s : i + 1 \in DOMAIN s => May(s[i], s[i + 1])
  <2>1. May(s[1], s[2]) /\ May(s[2], s[3])
    BY <1>2
  <2>2. \A i \in DOMAIN s : i + 1 \in DOMAIN s => (i = 1 /\ i + 1 = 2) \/ (i = 2 /\ i + 1 = 3)
    BY <1>2
  <2> QED
    BY <2>1, <2>2
<1>7. Row(h, s)
  BY <1>2, <1>4, <1>5, <1>6 DEF Row
<1>8. ASSUME Quiet(b), Quiet(c), ~IsOpener(a) PROVE Owes(s, Closes(a))
  <2>1. 1 \in DOMAIN s /\ \A i \in DOMAIN s : ~IsOpener(s[i]) /\ (i # 1 => Closes(s[i]) = "none")
    BY <1>2, <1>3, <1>8 DEF Quiet
  <2>2. Owes(s, Closes(s[1]))
    BY <1>2, <2>1, OwesOne
  <2> QED
    BY <1>2, <2>2
<1>9. ASSUME Quiet(a), Quiet(c), ~IsOpener(b) PROVE Owes(s, Closes(b))
  <2>1. 2 \in DOMAIN s /\ \A i \in DOMAIN s : ~IsOpener(s[i]) /\ (i # 2 => Closes(s[i]) = "none")
    BY <1>2, <1>3, <1>9 DEF Quiet
  <2>2. Owes(s, Closes(s[2]))
    BY <1>2, <2>1, OwesOne
  <2> QED
    BY <1>2, <2>2
<1>10. ASSUME Quiet(a), Quiet(b), ~IsOpener(c) PROVE Owes(s, Closes(c))
  <2>1. 3 \in DOMAIN s /\ \A i \in DOMAIN s : ~IsOpener(s[i]) /\ (i # 3 => Closes(s[i]) = "none")
    BY <1>2, <1>3, <1>10 DEF Quiet
  <2>2. Owes(s, Closes(s[3]))
    BY <1>2, <2>1, OwesOne
  <2> QED
    BY <1>2, <2>2
<1> QED
  BY <1>1, <1>2, <1>7, <1>8, <1>9, <1>10

\* A row of four steps owes what the one closes that has to do with brackets.
LEMMA Row4 ==
  ASSUME NEW h, NEW a, NEW b, NEW c, NEW d, Fits(h, a), Fits(h, b), Fits(h, c), Fits(h, d),
         May(a, b), May(b, c), May(c, d), ~IsOpener(d)
  PROVE  LET s == <<a, b, c, d>>
         IN /\ Row(h, s) /\ s # <<>> /\ s[1] = a
            /\ Quiet(b) /\ Quiet(c) /\ Quiet(d) /\ ~IsOpener(a) => Owes(s, Closes(a))
            /\ Quiet(a) /\ Quiet(c) /\ Quiet(d) /\ ~IsOpener(b) => Owes(s, Closes(b))
            /\ Quiet(a) /\ Quiet(b) /\ Quiet(d) /\ ~IsOpener(c) => Owes(s, Closes(c))
            /\ Quiet(a) /\ Quiet(b) /\ Quiet(c) /\ ~IsOpener(d) => Owes(s, Closes(d))
<1>1. PICK s : s = <<a, b, c, d>>
  OBVIOUS
<1>2. /\ IsSequence(s) /\ DOMAIN s = 1..4 /\ s # <<>>
      /\ s[1] = a /\ s[2] = b /\ s[3] = c /\ s[4] = d
  BY <1>1, Tuple4
<1>3. \A i \in DOMAIN s : i = 1 \/ i = 2 \/ i = 3 \/ i = 4
  BY <1>2
<1>4. \A i \in DOMAIN s : Fits(h, s[i])
  BY <1>2, <1>3
<1>5. \A i \in DOMAIN s : IsOpener(s[i]) => i + 1 \in DOMAIN s
  BY <1>2, <1>3
<1>6. \A i \in DOMAIN s : i + 1 \in DOMAIN s => May(s[i], s[i + 1])
  <2>1. May(s[1], s[2]) /\ May(s[2], s[3]) /\ May(s[3], s[4])
    BY <1>2
  <2>2. \A i \in DOMAIN s : i + 1 \in DOMAIN s =>
          (i = 1 /\ i + 1 = 2) \/ (i = 2 /\ i + 1 = 3) \/ (i = 3 /\ i + 1 = 4)
    BY <1>2
  <2> QED
    BY <2>1, <2>2
<1>7. Row(h, s)
  BY <1>2, <1>4, <1>5, <1>6 DEF Row
<1>8. ASSUME Quiet(b), Quiet(c), Quiet(d), ~IsOpener(a) PROVE Owes(s, Closes(a))
  <2>1. 1 \in DOMAIN s /\ \A i \in DOMAIN s : ~IsOpener(s[i]) /\ (i # 1 => Closes(s[i]) = "none")
    BY <1>2, <1>3, <1>8 DEF Quiet
  <2>2. Owes(s, Closes(s[1]))
    BY <1>2, <2>1, OwesOne
  <2> QED
    BY <1>2, <2>2
<1>9. ASSUME Quiet(a), Quiet(c), Quiet(d), ~IsOpener(b) PROVE Owes(s, Closes(b))
  <2>1. 2 \in DOMAIN s /\ \A i \in DOMAIN s : ~IsOpener(s[i]) /\ (i # 2 => Closes(s[i]) = "none")
    BY <1>2, <1>3, <1>9 DEF Quiet
  <2>2. Owes(s, Closes(s[2]))
    BY <1>2, <2>1, OwesOne
  <2> QED
    BY <1>2, <2>2
<1>10. ASSUME Quiet(a), Quiet(b), Quiet(d), ~IsOpener(c) PROVE Owes(s, Closes(c))
  <2>1. 3 \in DOMAIN s /\ \A i \in DOMAIN s : ~IsOpener(s[i]) /\ (i # 3 => Closes(s[i]) = "none")
    BY <1>2, <1>3, <1>10 DEF Quiet
  <2>2. Owes(s, Closes(s[3]))
    BY <1>2, <2>1, OwesOne
  <2> QED
    BY <1>2, <2>2
<1>11. ASSUME Quiet(a), Quiet(b), Quiet(c), ~IsOpener(d) PROVE Owes(s, Closes(d))
  <2>1. 4 \in DOMAIN s /\ \A i \in DOMAIN s : ~IsOpener(s[i]) /\ (i # 4 => Closes(s[i]) = "none")
    BY <1>2, <1>3, <1>11 DEF Quiet
  <2>2. Owes(s, Closes(s[4]))
    BY <1>2, <2>1, OwesOne
  <2> QED
    BY <1>2, <2>2
<1> QED
  BY <1>1, <1>2, <1>7, <1>8, <1>9, <1>10, <1>11

\* Five neighbours make a row.
LEMMA Row5 ==
  ASSUME NEW h, NEW a, NEW b, NEW c, NEW d, NEW e, Fits(h, a), Fits(h, b), Fits(h, c), Fits(h, d), Fits(h, e),
         May(a, b), May(b, c), May(c, d), May(d, e), ~IsOpener(e)
  PROVE  LET s == <<a, b, c, d, e>>
         IN /\ Row(h, s) /\ s # <<>> /\ s[1] = a
<1>1. PICK s : s = <<a, b, c, d, e>>
  OBVIOUS
<1>2. /\ IsSequence(s) /\ DOMAIN s = 1..5 /\ s # <<>>
      /\ s[1] = a /\ s[2] = b /\ s[3] = c /\ s[4] = d /\ s[5] = e
  BY <1>1, Tuple5
<1>3. \A i \in DOMAIN s : i = 1 \/ i = 2 \/ i = 3 \/ i = 4 \/ i = 5
  BY <1>2
<1>4. \A i \in DOMAIN s : Fits(h, s[i])
  BY <1>2, <1>3
<1>5. \A i \in DOMAIN s : IsOpener(s[i]) => i + 1 \in DOMAIN s
  BY <1>2, <1>3
<1>6. \A i \in DOMAIN s : i + 1 \in DOMAIN s => May(s[i], s[i + 1])
  <2>1. May(s[1], s[2]) /\ May(s[2], s[3]) /\ May(s[3], s[4]) /\ May(s[4], s[5])
    BY <1>2
  <2>2. \A i \in DOMAIN s : i + 1 \in DOMAIN s => 
          \/ (i = 1 /\ i + 1 = 2) \/ (i = 2 /\ i + 1 = 3) \/ (i = 3 /\ i + 1 = 4)
          \/ (i = 4 /\ i + 1 = 5)
    BY <1>2
  <2> QED
    BY <2>1, <2>2
<1>7. Row(h, s)
  BY <1>2, <1>4, <1>5, <1>6 DEF Row
<1> QED
  BY <1>1, <1>2, <1>7

(***************************************************************************)
(* Every action keeps the invariant.                                       *)
(***************************************************************************)
\* The method that is running.
Runs(method) ==
    /\ status = "parsing" /\ todo # <<>> /\ Head(todo)[1] = method /\ IsStep(Head(todo))

\* A method that runs has the argument that it asks for.
LEMMA Running ==
  ASSUME IInv, NEW method, Doing(method)
  PROVE  Runs(method)
<1>1. PICK s : s = todo
  OBVIOUS
<1>2. Linked(s) /\ s # <<>> /\ IsSequence(s)
  BY <1>1 DEF IInv, Linked, Doing
<1>3. Head(s) = s[1] /\ 1 \in DOMAIN s
  BY <1>2, Behead
<1>4. IsStep(Head(s))
  BY <1>2, <1>3 DEF Linked
<1> QED
  BY <1>1, <1>4 DEF Doing, Runs

\* A method calls a row of methods.
LEMMA Calls ==
  ASSUME IInv, NEW method, Runs(method), method \notin {"skip", "expect", "restore"},
         NEW steps, Row(Head(todo), steps), Owes(steps, Closes(Head(todo))),
         steps # <<>>, steps[1][1] # "take", Go(steps)
  PROVE  IInv'
<1>1. Ordinary(Head(todo), steps)
  BY RowsArePushed DEF Runs
<1> QED
  BY <1>1, GoKeeps DEF Runs

\* A method that closes no bracket returns.
LEMMA Returns ==
  ASSUME IInv, NEW method, Runs(method), method \notin {"expect", "restore"},
         Closes(Head(todo)) = "none", Go(<<>>)
  PROVE  IInv'
<1>1. PICK steps : steps = <<>>
  OBVIOUS
<1>2. Ordinary(Head(todo), steps) /\ Owes(steps, Closes(Head(todo)))
  BY <1>1, NothingPushed DEF Ordinary, Runs
<1>3. Go(steps) /\ steps = <<>>
  BY <1>1
<1> QED
  BY <1>2, <1>3, GoKeeps DEF Runs

\* A method consumes a token, which is no bracket, and calls a row of methods.
LEMMA Reads ==
  ASSUME IInv, NEW method, Runs(method), method \notin {"skip", "expect", "restore"},
         NEW steps, Row(Head(todo), steps), Owes(steps, Closes(Head(todo))),
         Ready(steps, cur), cur \notin Openers \cup Closers, Consume(steps)
  PROVE  IInv'
<1>1. Ordinary(Head(todo), steps)
  BY RowsArePushed DEF Runs
<1>2. /\ Pushes(Head(todo), steps)
      /\ Head(todo)[1] \notin {"skip", "expect", "restore"}
      /\ \A i \in DOMAIN steps : steps[i][1] # "restore" /\ (steps[i][1] = "resume" => failed)
      /\ status = "parsing" /\ todo # <<>>
  BY <1>1 DEF Ordinary, Runs
<1> QED
  BY <1>2, ConsumeKeeps

\* It may also be one that a row of methods closes.
LEMMA Opens ==
  ASSUME IInv, NEW method, Runs(method), method \notin {"skip", "expect", "restore"},
         NEW steps, Row(Head(todo), steps), Closes(Head(todo)) = "none", Owes(steps, cur),
         Ready(steps, cur), cur \in Openers, Consume(steps)
  PROVE  IInv'
<1>1. Ordinary(Head(todo), steps)
  BY RowsArePushed DEF Runs
<1>2. /\ Pushes(Head(todo), steps)
      /\ Head(todo)[1] \notin {"skip", "expect", "restore"}
      /\ \A i \in DOMAIN steps : steps[i][1] # "restore" /\ (steps[i][1] = "resume" => failed)
      /\ status = "parsing" /\ todo # <<>>
  BY <1>1 DEF Ordinary, Runs
<1> QED
  BY <1>2, ConsumeKeeps

\* A method consumes a token, which is no bracket, and returns.
LEMMA Passes ==
  ASSUME IInv, NEW method, Runs(method), method \notin {"skip", "expect", "restore"},
         Closes(Head(todo)) = "none", cur \notin Openers \cup Closers, Consume(<<>>)
  PROVE  IInv'
<1>1. PICK steps : steps = <<>>
  OBVIOUS
<1>2. /\ Pushes(Head(todo), steps) /\ Owes(steps, Closes(Head(todo)))
      /\ \A i \in DOMAIN steps : steps[i][1] # "restore" /\ (steps[i][1] = "resume" => failed)
  BY <1>1, NothingPushed, SmallSequences
<1>3. Consume(steps) /\ Ready(steps, cur)
  BY <1>1 DEF Ready
<1>4. Head(todo)[1] \notin {"skip", "expect", "restore"} /\ status = "parsing" /\ todo # <<>>
  BY DEF Runs
<1> QED
  BY <1>2, <1>3, <1>4, ConsumeKeeps

\* A method reports an error and returns.
LEMMA Errs ==
  ASSUME IInv, NEW method, Runs(method), method # "restore", Fail(<<>>)
  PROVE  IInv'
BY FailKeeps DEF Runs

\* Steps that have nothing to do with brackets.
Plain(h, a) == Fits(h, a) /\ Quiet(a) /\ a[1] \notin {"take", "fields"}

\* Steps with an argument, or with something to say about their places.
Special ==
    {"program", "advance", "field", "fields", "restore", "resume", "series", "loop_series", "loop", "boolean",
     "expression", "assign", "expr_list", "more_exprs", "expect", "take", "params", "more_params",
     "type_params", "more_types", "block"}

\* Of the others only those of statements and of fields are bound to a place.
LEMMA PlainDo ==
  ASSUME NEW h, NEW x, x \notin Special, x \in StatementNames => h[1] \in StatementNames,
         h[1] \in FieldNames => x \in FieldNames
  PROVE  Plain(h, Do(x))
<1>1. PICK a : a = Do(x)
  OBVIOUS
<1>2. a[1] = x
  BY <1>1, StepParts
<1>3. IsStep(a)
  BY <1>1, <1>2 DEF IsStep, Special, Skip
<1>4. Fits(h, a)
  BY <1>2, <1>3 DEF Fits, Special
<1>5. ~IsOpener(a) /\ a[1] \notin {"take", "fields"}
  BY <1>2 DEF IsOpener, Special
<1>6. Closes(a) = "none"
  BY <1>2 DEF Closes, Special
<1> QED
  BY <1>1, <1>4, <1>5, <1>6 DEF Quiet, Plain

\* Newlines may be skipped anywhere.
LEMMA PlainSkip ==
  ASSUME NEW h
  PROVE  Plain(h, Skip)
<1>1. "skip" \notin Special /\ "skip" \notin StatementNames /\ "skip" \in FieldNames
  BY DEF Special, StatementNames, FieldNames
<1> QED
  BY <1>1, PlainDo, StepParts

\* Expressions have a flag.
LEMMA PlainFlag ==
  ASSUME NEW h, h[1] \notin FieldNames, NEW b \in BOOLEAN, NEW x \in {"expression", "assign"}
  PROVE  Plain(h, <<x, b>>)
<1>1. PICK a : a = <<x, b>>
  OBVIOUS
<1>2. a[1] = x /\ a[2] = b
  BY <1>1
<1>3. Fits(h, a)
  BY <1>2 DEF Fits, IsStep, StatementNames
<1>4. Quiet(a)
  BY <1>2 DEF Quiet, IsOpener, Closes
<1> QED
  BY <1>1, <1>2, <1>3, <1>4 DEF Plain

\* An expression is such a step, under either setting of the flag.
LEMMA PlainExpression ==
  ASSUME NEW h, h[1] \notin FieldNames, NEW b \in BOOLEAN
  PROVE  Plain(h, Expression(b))
BY PlainFlag DEF Expression

\* Series of operators have a level.
LEMMA PlainLevel ==
  ASSUME NEW h, h[1] \notin FieldNames, NEW l \in DOMAIN Levels,
         NEW x \in {"series", "loop_series", "loop", "boolean"}
  PROVE  Plain(h, <<x, l>>)
<1>1. PICK a : a = <<x, l>>
  OBVIOUS
<1>2. a[1] = x /\ a[2] = l
  BY <1>1
<1>3. Fits(h, a)
  BY <1>2 DEF Fits, IsStep, StatementNames
<1>4. Quiet(a)
  BY <1>2 DEF Quiet, IsOpener, Closes
<1> QED
  BY <1>1, <1>2, <1>3, <1>4 DEF Plain

\* The levels end where the operands begin.
LEMMA PlainOperand ==
  ASSUME NEW h, h[1] \notin FieldNames, NEW l \in DOMAIN Levels
  PROVE  Plain(h, Operand(l))
<1>1. DOMAIN Levels = 1..Len(Levels) /\ Len(Levels) \in Nat
  BY ParserAssumption, SeqIsSequence, Places
<1>2. CASE l = Len(Levels)
  <2>1. "cast" \notin Special /\ "cast" \notin StatementNames
    BY DEF Special, StatementNames
  <2> QED
    BY <1>2, <2>1, PlainDo DEF Operand
<1>3. CASE l # Len(Levels)
  <2>1. l + 1 \in DOMAIN Levels
    BY <1>1, <1>3
  <2> QED
    BY <1>3, <2>1, PlainLevel DEF Operand, Series
<1> QED
  BY <1>2, <1>3

\* A token may be asked for anywhere.
LEMMA PlainExpect ==
  ASSUME NEW h, NEW kind, kind \notin {"(", ")", "[", "]", "{", "}"}
  PROVE  Plain(h, Expect(kind))
<1>1. PICK a : a = Expect(kind)
  OBVIOUS
<1>2. a[1] = "expect" /\ a[2] = kind
  BY <1>1, StepParts
<1>3. Fits(h, a)
  <2>1. IsStep(a)
    <3>1. a = Expect(a[2])
      BY <1>1, <1>2
    <3>2. a[1] = "expect" /\ a[2] # "["
      BY <1>2
    <3> QED
      BY ONLY <3>1, <3>2 DEF IsStep
  <2> QED
    BY <1>2, <2>1 DEF Fits, StatementNames, FieldNames
<1>4. Quiet(a)
  BY <1>2 DEF Quiet, IsOpener, Closes
<1> QED
  BY <1>1, <1>2, <1>3, <1>4 DEF Plain

\* A bracket that is asked for is owed.
LEMMA ExpectCloser ==
  ASSUME NEW h, NEW kind \in {")", "]", "}"}
  PROVE  /\ Fits(h, Expect(kind)) /\ ~IsOpener(Expect(kind)) /\ Expect(kind)[1] \notin {"take", "fields"}
         /\ Closes(Expect(kind)) = CASE kind = ")" -> "(" [] kind = "]" -> "[" [] kind = "}" -> "{"
<1>1. PICK a : a = Expect(kind)
  OBVIOUS
<1>2. a[1] = "expect" /\ a[2] = kind
  BY <1>1, StepParts
<1>3. Fits(h, a)
  <2>1. IsStep(a)
    BY <1>1, <1>2 DEF IsStep
  <2> QED
    BY <1>2, <2>1 DEF Fits, StatementNames, FieldNames
<1>4. ~IsOpener(a)
  BY <1>2 DEF IsOpener
<1>5. Closes(a) = CASE kind = ")" -> "(" [] kind = "]" -> "[" [] kind = "}" -> "{"
  BY <1>2 DEF Closes
<1> QED
  BY <1>1, <1>2, <1>3, <1>4, <1>5

\* A token may be taken by any method, and first of all.
LEMMA PlainTake ==
  ASSUME NEW h, NEW role
  PROVE  Fits(h, Take(role)) /\ Quiet(Take(role)) /\ Take(role)[1] = "take" /\ Take(role)[2] = role
<1>1. PICK a : a = Take(role)
  OBVIOUS
<1>2. a[1] = "take" /\ a[2] = role
  BY <1>1, StepParts
<1>3. Fits(h, a)
  BY <1>2 DEF Fits, IsStep, StatementNames, FieldNames
<1>4. Quiet(a)
  BY <1>2 DEF Quiet, IsOpener, Closes
<1> QED
  BY <1>1, <1>2, <1>3, <1>4

\* Most steps may stand behind any that opens nothing.
LEMMA Behind ==
  ASSUME NEW a, Quiet(a), NEW b, b[1] \notin {"take", "fields"}
  PROVE  May(a, b)
BY DEF May, Quiet

\* Rows that owe nothing, of plain steps and perhaps a token that is taken first.
Calm(h, s, first) == Row(h, s) /\ Owes(s, "none") /\ s # <<>> /\ s[1] = first
First(h, a) == Fits(h, a) /\ Quiet(a)

\* A plain step alone is calm.
LEMMA Calm1 ==
  ASSUME NEW h, NEW a, First(h, a)
  PROVE  Calm(h, <<a>>, a)
<1>1. Fits(h, a) /\ Quiet(a)
  BY DEF First, Plain
<1> QED
  BY <1>1, Row1 DEF Calm, Quiet

\* So are two.
LEMMA Calm2 ==
  ASSUME NEW h, NEW a, First(h, a), NEW b, Plain(h, b)
  PROVE  Calm(h, <<a, b>>, a)
<1>1. Fits(h, a) /\ Quiet(a) /\ Fits(h, b) /\ Quiet(b)
  BY DEF First, Plain
<1>2. May(a, b)
  BY <1>1, Behind DEF Plain
<1> QED
  BY <1>1, <1>2, Row2 DEF Calm, Quiet

\* So are three.
LEMMA Calm3 ==
  ASSUME NEW h, NEW a, First(h, a), NEW b, Plain(h, b), NEW c, Plain(h, c)
  PROVE  Calm(h, <<a, b, c>>, a)
<1>1. Fits(h, a) /\ Quiet(a) /\ Fits(h, b) /\ Quiet(b) /\ Fits(h, c) /\ Quiet(c)
  BY DEF First, Plain
<1>2. May(a, b) /\ May(b, c)
  BY <1>1, Behind DEF Plain
<1> QED
  BY <1>1, <1>2, Row3 DEF Calm, Quiet

\* So are four.
LEMMA Calm4 ==
  ASSUME NEW h, NEW a, First(h, a), NEW b, Plain(h, b), NEW c, Plain(h, c), NEW d, Plain(h, d)
  PROVE  Calm(h, <<a, b, c, d>>, a)
<1>1. Fits(h, a) /\ Quiet(a) /\ Fits(h, b) /\ Quiet(b) /\ Fits(h, c) /\ Quiet(c) /\ Fits(h, d) /\ Quiet(d)
  BY DEF First, Plain
<1>2. May(a, b) /\ May(b, c) /\ May(c, d)
  BY <1>1, Behind DEF Plain
<1> QED
  BY <1>1, <1>2, Row4 DEF Calm, Quiet

\* A method that closes no bracket calls such a row, or consumes a token first.
LEMMA CallsCalm ==
  ASSUME IInv, NEW method, Runs(method), method \notin {"skip", "expect", "restore"},
         Closes(Head(todo)) = "none", NEW s, NEW first, Calm(Head(todo), s, first), first[1] # "take", Go(s)
  PROVE  IInv'
BY Calls DEF Calm

\* It may consume a token that is no bracket first; the token is what is taken.
LEMMA ReadsCalm ==
  ASSUME IInv, NEW method, Runs(method), method \notin {"skip", "expect", "restore"},
         Closes(Head(todo)) = "none", NEW s, NEW first, Calm(Head(todo), s, first),
         first[1] # "take" \/ first[2] = "unary" \/ cur \in Fit(first[2]),
         cur \notin Openers \cup Closers, Consume(s)
  PROVE  IInv'
<1>1. Ready(s, cur)
  BY DEF Calm, Ready
<1> QED
  BY <1>1, Reads DEF Calm

\* Operators and names are no brackets.
LEMMA NoBrackets ==
  ASSUME cur \in Operators \cup Identifiers
  PROVE  cur \notin Openers \cup Closers
BY ParserAssumption DEF Openers, Closers

\* What a method without an argument is.
LEMMA Method ==
  ASSUME NEW x, Runs(x), x \notin Special
  PROVE  Head(todo)[1] = x /\ Closes(Head(todo)) = "none" /\ x \notin {"expect", "restore"}
BY DEF Runs, Closes, Special

\* Newlines before a statement are skipped.
LEMMA StatementKeeps ==
  ASSUME IInv, Statement
  PROVE  IInv'
<1>1. Runs("statement") /\ Go(<<Skip, Do("statement_kind")>>)
  BY Running DEF Statement
<1>2. Head(todo)[1] = "statement" /\ Closes(Head(todo)) = "none"
  BY <1>1, Method DEF Special
<1>3. Plain(Head(todo), Skip) /\ Plain(Head(todo), Do("statement_kind"))
  BY <1>2, PlainSkip, PlainDo DEF Special, StatementNames, FieldNames
<1>4. Calm(Head(todo), <<Skip, Do("statement_kind")>>, Skip)
  BY <1>3, Calm2 DEF Plain, First
<1> QED
  BY <1>1, <1>2, <1>3, <1>4, CallsCalm DEF Plain

\* The tokens that are meant.
LEMMA Roles ==
  /\ Fit("name") = Identifiers /\ Fit("property") = Identifiers
  /\ Fit("binary") = Operators /\ Fit("unary") = Operators
  /\ Fit("keyword") = {"return"} /\ Fit("type") = Identifiers \cup {"type"}
  /\ Fit("literal") = {"literal", "bad_literal"}
BY DEF Fit

\* The operators of a level, and that of an assignment.
LEMMA AreOperators ==
  /\ "=" \in Operators /\ UnaryOps \subseteq Operators
  /\ \A l \in DOMAIN Levels : Levels[l].ops \subseteq Operators
<1>1. ASSUME NEW l \in DOMAIN Levels, NEW x \in Levels[l].ops PROVE x \in Operators
  <2>1. Levels[l].ops \in {Levels[k].ops : k \in DOMAIN Levels}
    OBVIOUS
  <2> QED
    BY <2>1 DEF Operators
<1>2. "=" \in Operators /\ UnaryOps \subseteq Operators
  <2>1. PICK binary : binary = UNION {Levels[l].ops : l \in DOMAIN Levels}
    OBVIOUS
  <2>2. Operators = UnaryOps \cup binary \cup {"="}
    BY <2>1, Zenon DEF Operators
  <2> QED
    BY <2>2
<1> QED
  BY <1>1, <1>2

\* A declaration ends with synchronize().
LEMMA DeclarationKeeps ==
  ASSUME IInv, Declaration
  PROVE  IInv'
<1>1. Runs("declaration") /\ Go(<<Skip, Do("declare"), Do("synchronize")>>)
  BY Running DEF Declaration
<1>2. Head(todo)[1] = "declaration" /\ Closes(Head(todo)) = "none"
  BY <1>1, Method DEF Special
<1>3. /\ Plain(Head(todo), Skip)
      /\ Plain(Head(todo), Do("declare"))
      /\ Plain(Head(todo), Do("synchronize"))
  BY <1>2, PlainDo, PlainSkip DEF Special, StatementNames, FieldNames, Series
<1>4. Calm(Head(todo), <<Skip, Do("declare"), Do("synchronize")>>, Skip)
  BY <1>3, Calm3 DEF Plain, First
<1> QED
  BY <1>1, <1>2, <1>3, <1>4, CallsCalm DEF Plain

\* An expression passes its flag on.
LEMMA StartExpressionKeeps ==
  ASSUME IInv, StartExpression
  PROVE  IInv'
<1>1. Runs("expression") /\ Go(<<Skip, <<"assign", Arg>> >>)
  BY Running DEF StartExpression
<1>2. Head(todo)[1] = "expression" /\ Closes(Head(todo)) = "none"
      /\ Arg \in BOOLEAN
  BY <1>1 DEF Runs, IsStep, Arg, Closes
<1>3. /\ Plain(Head(todo), Skip)
      /\ Plain(Head(todo), <<"assign", Arg>>)
  BY <1>2, PlainFlag, PlainSkip DEF Special, StatementNames, FieldNames, Series
<1>4. Calm(Head(todo), <<Skip, <<"assign", Arg>> >>, Skip)
  BY <1>3, Calm2 DEF Plain, First
<1> QED
  BY <1>1, <1>2, <1>3, <1>4, CallsCalm DEF Plain

\* An operand may be converted.
LEMMA CastKeeps ==
  ASSUME IInv, Cast
  PROVE  IInv'
<1>1. Runs("cast") /\ Go(<<Do("unary"), Do("as")>>)
  BY Running DEF Cast
<1>2. Head(todo)[1] = "cast" /\ Closes(Head(todo)) = "none"
  BY <1>1, Method DEF Special
<1>3. /\ Plain(Head(todo), Do("unary"))
      /\ Plain(Head(todo), Do("as"))
  BY <1>2, PlainDo DEF Special, StatementNames, FieldNames, Series
<1>4. Calm(Head(todo), <<Do("unary"), Do("as")>>, Do("unary"))
  BY <1>3, Calm2 DEF Plain, First
<1> QED
  BY <1>1, <1>2, <1>3, <1>4, CallsCalm DEF Plain

\* A variable may have an initial value.
LEMMA InitializerKeeps ==
  ASSUME IInv, Initializer
  PROVE  IInv'
<1>1. Runs("initializer")
  BY Running DEF Initializer
<1>2. Head(todo)[1] = "initializer" /\ Closes(Head(todo)) = "none"
  BY <1>1, Method DEF Special
<1>3. CASE cur = "="
  <2>1. Consume(<<Expression(FALSE)>>)
    BY <1>3 DEF Initializer, Try, Is
  <2>2. /\ Plain(Head(todo), Expression(FALSE))
    BY <1>2, PlainExpression 
    DEF Special, StatementNames, FieldNames, First, Series
  <2>3. Calm(Head(todo), <<Expression(FALSE)>>, Expression(FALSE))
    BY <2>2, Calm1 DEF Plain, First
  <2>4. cur \in Operators
    BY <1>2, <1>3, AreOperators
  <2> QED
    BY <1>1, <1>2, <2>1, <2>2, <2>3, <2>4, NoBrackets, ReadsCalm DEF Plain
<1>4. CASE cur # "="
  <2>1. Go(<<>>)
    BY <1>4 DEF Initializer, Try, Is
  <2> QED
    BY <1>1, <1>2, <2>1, Returns
<1> QED
  BY <1>3, <1>4

\* Nothing may be returned.
LEMMA ArgumentKeeps ==
  ASSUME IInv, Argument
  PROVE  IInv'
<1>1. Runs("argument")
  BY Running DEF Argument
<1>2. Head(todo)[1] = "argument" /\ Closes(Head(todo)) = "none"
  BY <1>1, Method DEF Special
<1>3. CASE cur \in StmtEnds
  <2>1. Go(<<>>)
    BY <1>3 DEF Argument
  <2> QED
    BY <1>1, <1>2, <2>1, Returns
<1>4. CASE cur \notin StmtEnds
  <2>1. Go(<<Expression(FALSE)>>)
    BY <1>4 DEF Argument
  <2>2. /\ Plain(Head(todo), Expression(FALSE))
    BY <1>2, PlainExpression 
    DEF Special, StatementNames, FieldNames, First, Series
  <2>3. Calm(Head(todo), <<Expression(FALSE)>>, Expression(FALSE))
    BY <2>2, Calm1 DEF Plain, First
  <2> QED
    BY <1>1, <1>2, <2>1, <2>2, <2>3, CallsCalm DEF Plain
<1> QED
  BY <1>3, <1>4

\* A statement ends.
LEMMA StmtEndKeeps ==
  ASSUME IInv, StmtEnd
  PROVE  IInv'
<1>1. Runs("stmt_end")
  BY Running DEF StmtEnd
<1>2. Head(todo)[1] = "stmt_end" /\ Closes(Head(todo)) = "none"
  BY <1>1, Method DEF Special
<1>3. CASE cur \in StmtEnds
  <2>1. Consume(<<>>) /\ cur \notin Openers \cup Closers
    BY <1>3 DEF StmtEnd, StmtEnds, Openers, Closers
  <2> QED
    BY <1>1, <1>2, <2>1, Passes
<1>4. CASE cur \notin StmtEnds
  <2>1. Fail(<<>>)
    BY <1>4 DEF StmtEnd, StmtEnds
  <2> QED
    BY <1>1, <2>1, Errs
<1> QED
  BY <1>3, <1>4

\* An if may have another branch.
LEMMA ElseKeeps ==
  ASSUME IInv, Else
  PROVE  IInv'
<1>1. Runs("else")
  BY Running DEF Else
<1>2. Head(todo)[1] = "else" /\ Closes(Head(todo)) = "none"
  BY <1>1, Method DEF Special
<1>3. CASE cur = "else"
  <2>1. Consume(<<Do("statement")>>)
    BY <1>3 DEF Else, Try, Is
  <2>2. /\ Plain(Head(todo), Do("statement"))
    BY <1>2, PlainDo 
    DEF Special, StatementNames, FieldNames, First, Series
  <2>3. Calm(Head(todo), <<Do("statement")>>, Do("statement"))
    BY <2>2, Calm1 DEF Plain, First
  <2>4. cur \notin Openers \cup Closers
    BY <1>3 DEF Openers, Closers
  <2> QED
    BY <1>1, <1>2, <2>1, <2>2, <2>3, <2>4, ReadsCalm DEF Plain
<1>4. CASE cur # "else"
  <2>1. Go(<<>>)
    BY <1>4 DEF Else, Try, Is
  <2> QED
    BY <1>1, <1>2, <2>1, Returns
<1> QED
  BY <1>3, <1>4

\* The operator of an assignment is taken.
LEMMA AssignmentKeeps ==
  ASSUME IInv, Assignment
  PROVE  IInv'
<1>1. Runs("assignment")
  BY Running DEF Assignment
<1>2. Head(todo)[1] = "assignment" /\ Closes(Head(todo)) = "none"
  BY <1>1, Method DEF Special
<1>3. CASE cur = "="
  <2>1. Consume(<<Take("binary"), Expression(FALSE)>>)
    BY <1>3 DEF Assignment, Try, Is
  <2>2. /\ First(Head(todo), Take("binary"))
        /\ Plain(Head(todo), Expression(FALSE))
    BY <1>2, PlainExpression, PlainTake 
    DEF Special, StatementNames, FieldNames, First, Series
  <2>3. Calm(Head(todo), <<Take("binary"), Expression(FALSE)>>, Take("binary"))
    BY <2>2, Calm2 DEF Plain, First
  <2>4. cur \in Operators
    BY <1>2, <1>3, AreOperators
  <2> QED
    BY <1>1, <1>2, <2>1, <2>3, <2>4, NoBrackets, Roles, PlainTake, ReadsCalm
<1>4. CASE cur # "="
  <2>1. Go(<<>>)
    BY <1>4 DEF Assignment, Try, Is
  <2> QED
    BY <1>1, <1>2, <2>1, Returns
<1> QED
  BY <1>3, <1>4

\* A conditional has three parts.
LEMMA ConditionalKeeps ==
  ASSUME IInv, Conditional
  PROVE  IInv'
<1>1. Runs("conditional")
  BY Running DEF Conditional
<1>2. Head(todo)[1] = "conditional" /\ Closes(Head(todo)) = "none"
  BY <1>1, Method DEF Special
<1>3. CASE cur = "?"
  <2>1. Consume(<<Expression(TRUE), Expect(":"), Expression(FALSE)>>)
    BY <1>3 DEF Conditional, Try, Is
  <2>2. /\ Plain(Head(todo), Expression(TRUE))
        /\ Plain(Head(todo), Expect(":"))
        /\ Plain(Head(todo), Expression(FALSE))
    BY <1>2, PlainExpect, PlainExpression 
    DEF Special, StatementNames, FieldNames, First, Series
  <2>3. Calm(Head(todo), <<Expression(TRUE), Expect(":"), Expression(FALSE)>>, Expression(TRUE))
    BY <2>2, Calm3 DEF Plain, First
  <2>4. cur \notin Openers \cup Closers
    BY <1>3 DEF Openers, Closers
  <2> QED
    BY <1>1, <1>2, <2>1, <2>2, <2>3, <2>4, ReadsCalm DEF Plain
<1>4. CASE cur # "?"
  <2>1. Go(<<>>)
    BY <1>4 DEF Conditional, Try, Is
  <2> QED
    BY <1>1, <1>2, <2>1, Returns
<1> QED
  BY <1>3, <1>4

\* A boolean operator is taken, and the series goes on.
LEMMA MoreBooleanKeeps ==
  ASSUME IInv, MoreBoolean
  PROVE  IInv'
<1>1. Runs("boolean")
  BY Running DEF MoreBoolean
<1>2. Head(todo)[1] = "boolean" /\ Closes(Head(todo)) = "none"
      /\ Arg \in DOMAIN Levels
  BY <1>1 DEF Runs, IsStep, Arg, Closes
<1>3. CASE cur \in Levels[Arg].ops
  <2>1. Consume(<<Take("binary"), Skip, Series(Arg)>>)
    BY <1>3 DEF MoreBoolean
  <2>2. /\ First(Head(todo), Take("binary"))
        /\ Plain(Head(todo), Skip)
        /\ Plain(Head(todo), Series(Arg))
    BY <1>2, PlainLevel, PlainSkip, PlainTake 
    DEF Special, StatementNames, FieldNames, First, Series
  <2>3. Calm(Head(todo), <<Take("binary"), Skip, Series(Arg)>>, Take("binary"))
    BY <2>2, Calm3 DEF Plain, First
  <2>4. cur \in Operators
    BY <1>2, <1>3, AreOperators
  <2> QED
    BY <1>1, <1>2, <2>1, <2>3, <2>4, NoBrackets, Roles, PlainTake, ReadsCalm
<1>4. CASE cur \notin Levels[Arg].ops
  <2>1. Go(<<>>)
    BY <1>4 DEF MoreBoolean
  <2> QED
    BY <1>1, <1>2, <2>1, Returns
<1> QED
  BY <1>3, <1>4

\* An operator is taken, and an operand follows.
LEMMA MoreKeeps ==
  ASSUME IInv, More
  PROVE  IInv'
<1>1. Runs("loop")
  BY Running DEF More
<1>2. Head(todo)[1] = "loop" /\ Closes(Head(todo)) = "none"
      /\ Arg \in DOMAIN Levels
  BY <1>1 DEF Runs, IsStep, Arg, Closes
<1>3. CASE cur \in Levels[Arg].ops
  <2>1. Consume(<<Take("binary"), Skip, Operand(Arg), <<"loop", Arg>> >>)
    BY <1>3 DEF More
  <2>2. /\ First(Head(todo), Take("binary"))
        /\ Plain(Head(todo), Skip)
        /\ Plain(Head(todo), Operand(Arg))
        /\ Plain(Head(todo), <<"loop", Arg>>)
    BY <1>2, PlainLevel, PlainOperand, PlainSkip, PlainTake 
    DEF Special, StatementNames, FieldNames, First, Series
  <2>3. Calm(Head(todo), <<Take("binary"), Skip, Operand(Arg), <<"loop", Arg>> >>, Take("binary"))
    BY <2>2, Calm4 DEF Plain, First
  <2>4. cur \in Operators
    BY <1>2, <1>3, AreOperators
  <2> QED
    BY <1>1, <1>2, <2>1, <2>3, <2>4, NoBrackets, Roles, PlainTake, ReadsCalm
<1>4. CASE cur \notin Levels[Arg].ops
  <2>1. Go(<<>>)
    BY <1>4 DEF More
  <2> QED
    BY <1>1, <1>2, <2>1, Returns
<1> QED
  BY <1>3, <1>4

(***************************************************************************)
(* Rows that owe a bracket.                                                *)
(***************************************************************************)
Pays(h, a, bracket) ==
    Fits(h, a) /\ ~IsOpener(a) /\ Closes(a) = bracket /\ a[1] \notin {"take", "fields"}
Owing(h, s, bracket, first) == Row(h, s) /\ Owes(s, bracket) /\ s # <<>> /\ s[1] = first

\* A bracket that is asked for is owed.
LEMMA PaysExpect ==
  ASSUME NEW h
  PROVE  Pays(h, Expect(")"), "(") /\ Pays(h, Expect("]"), "[") /\ Pays(h, Expect("}"), "{")
BY ExpectCloser DEF Pays

\* So are those of parameters, of the types of parameters and of a block.
LEMMA PaysDo ==
  ASSUME NEW h, NEW x \in {"params", "more_params", "type_params", "more_types", "block"},
         x = "block" => h[1] \in StatementNames, h[1] \in FieldNames => x \in FieldNames
  PROVE  Pays(h, Do(x), IF x = "block" THEN "{" ELSE "(")
<1>1. PICK a : a = Do(x)
  OBVIOUS
<1>2. a[1] = x
  BY <1>1, StepParts
<1>3. Fits(h, a)
  BY <1>2 DEF Fits, IsStep, StatementNames
<1>4. ~IsOpener(a)
  BY <1>2 DEF IsOpener
<1>5. Closes(a) = IF x = "block" THEN "{" ELSE "("
  BY <1>2 DEF Closes
<1> QED
  BY <1>1, <1>2, <1>3, <1>4, <1>5 DEF Pays

\* So is that of a list of expressions.
LEMMA PaysList ==
  ASSUME NEW h, h[1] \notin FieldNames, NEW x \in {"expr_list", "more_exprs"}
  PROVE  Pays(h, <<x, ")">>, "(") /\ Pays(h, <<x, "]">>, "[")
<1>1. ASSUME NEW c \in {")", "]"} PROVE Pays(h, <<x, c>>, IF c = ")" THEN "(" ELSE "[")
  <2>1. PICK a : a = <<x, c>>
    OBVIOUS
  <2>2. a[1] = x /\ a[2] = c
    BY <2>1
  <2>3. Fits(h, a)
    BY <2>2 DEF Fits, IsStep, StatementNames
  <2>4. ~IsOpener(a)
    BY <2>2 DEF IsOpener
  <2>5. Closes(a) = IF c = ")" THEN "(" ELSE "["
    BY <2>2 DEF Closes
  <2> QED
    BY <2>1, <2>2, <2>3, <2>4, <2>5 DEF Pays
<1> QED
  BY <1>1

\* One step that pays.
LEMMA Owing1of1 ==
  ASSUME NEW h, NEW bracket, NEW a, Pays(h, a, bracket)
  PROVE  Owing(h, <<a>>, bracket, a)
<1>1. /\ Fits(h, a) /\ ~IsOpener(a) /\ Closes(a) = bracket
  BY DEF First, Plain, Pays
<1> QED
  BY <1>1, Row1 DEF Owing

\* The first of two pays.
LEMMA Owing1of2 ==
  ASSUME NEW h, NEW bracket, NEW a, Pays(h, a, bracket), NEW b, Plain(h, b)
  PROVE  Owing(h, <<a, b>>, bracket, a)
<1>1. /\ Fits(h, a) /\ ~IsOpener(a) /\ Closes(a) = bracket
      /\ Fits(h, b) /\ Quiet(b)
  BY DEF First, Plain, Pays
<1>2. May(a, b)
  BY <1>1 DEF May, Quiet, Plain, Pays
<1> QED
  BY <1>1, <1>2, Row2 DEF Owing, Quiet

\* The second of two pays.
LEMMA Owing2of2 ==
  ASSUME NEW h, NEW bracket, NEW a, First(h, a), NEW b, Pays(h, b, bracket)
  PROVE  Owing(h, <<a, b>>, bracket, a)
<1>1. /\ Fits(h, a) /\ Quiet(a)
      /\ Fits(h, b) /\ ~IsOpener(b) /\ Closes(b) = bracket
  BY DEF First, Plain, Pays
<1>2. May(a, b)
  BY <1>1 DEF May, Quiet, Plain, Pays
<1> QED
  BY <1>1, <1>2, Row2 DEF Owing, Quiet

\* The second of three pays.
LEMMA Owing2of3 ==
  ASSUME NEW h, NEW bracket, NEW a, First(h, a), NEW b, Pays(h, b, bracket), NEW c, Plain(h, c)
  PROVE  Owing(h, <<a, b, c>>, bracket, a)
<1>1. /\ Fits(h, a) /\ Quiet(a)
      /\ Fits(h, b) /\ ~IsOpener(b) /\ Closes(b) = bracket
      /\ Fits(h, c) /\ Quiet(c)
  BY DEF First, Plain, Pays
<1>2. May(a, b) /\ May(b, c)
  BY <1>1 DEF May, Quiet, Plain, Pays
<1> QED
  BY <1>1, <1>2, Row3 DEF Owing, Quiet

\* The last of three pays.
LEMMA Owing3of3 ==
  ASSUME NEW h, NEW bracket, NEW a, First(h, a), NEW b, Plain(h, b), NEW c, Pays(h, c, bracket)
  PROVE  Owing(h, <<a, b, c>>, bracket, a)
<1>1. /\ Fits(h, a) /\ Quiet(a)
      /\ Fits(h, b) /\ Quiet(b)
      /\ Fits(h, c) /\ ~IsOpener(c) /\ Closes(c) = bracket
  BY DEF First, Plain, Pays
<1>2. May(a, b) /\ May(b, c)
  BY <1>1 DEF May, Quiet, Plain, Pays
<1> QED
  BY <1>1, <1>2, Row3 DEF Owing, Quiet

\* A method that has to close a bracket calls such a row, or consumes a token
\* first; another consumes the bracket.
LEMMA CallsOwing ==
  ASSUME IInv, NEW method, Runs(method), method \notin {"skip", "expect", "restore"},
         NEW s, NEW first, Owing(Head(todo), s, Closes(Head(todo)), first), first[1] # "take", Go(s)
  PROVE  IInv'
BY Calls DEF Owing

\* It may consume a token that is no bracket first.
LEMMA ReadsOwing ==
  ASSUME IInv, NEW method, Runs(method), method \notin {"skip", "expect", "restore"},
         NEW s, NEW first, Owing(Head(todo), s, Closes(Head(todo)), first), first[1] # "take",
         cur \notin Openers \cup Closers, Consume(s)
  PROVE  IInv'
<1>1. Ready(s, cur)
  BY DEF Owing, Ready
<1> QED
  BY <1>1, Reads DEF Owing

\* A method that closes no bracket consumes one, which the row owes.
LEMMA OpensOwing ==
  ASSUME IInv, NEW method, Runs(method), method \notin {"skip", "expect", "restore"},
         Closes(Head(todo)) = "none", NEW s, NEW first, Owing(Head(todo), s, cur, first), first[1] # "take",
         cur \in Openers, Consume(s)
  PROVE  IInv'
<1>1. Ready(s, cur)
  BY DEF Owing, Ready
<1> QED
  BY <1>1, Opens DEF Owing

\* There is a first level.
LEMMA FirstLevel == 1 \in DOMAIN Levels
<1>1. IsSequence(Levels) /\ Levels # <<>>
  BY ParserAssumption, SeqIsSequence
<1> QED
  BY <1>1, Behead

\* A ternary begins with the operators of the first level.
LEMMA TernaryKeeps ==
  ASSUME IInv, Ternary
  PROVE  IInv'
<1>1. Runs("ternary") /\ Go(<<Series(1), Do("conditional")>>)
  BY Running DEF Ternary
<1>2. Head(todo)[1] = "ternary" /\ Closes(Head(todo)) = "none"
  BY <1>1, Method DEF Special
<1>3. /\ Plain(Head(todo), Series(1))
      /\ Plain(Head(todo), Do("conditional"))
  BY <1>2, FirstLevel, PlainDo, PlainLevel DEF Special, StatementNames, FieldNames, Series
<1>4. Calm(Head(todo), <<Series(1), Do("conditional")>>, Series(1))
  BY <1>3, Calm2 DEF Plain, First
<1> QED
  BY <1>1, <1>2, <1>3, <1>4, CallsCalm DEF Plain

\* A function may have a type.
LEMMA RetTypeKeeps ==
  ASSUME IInv, RetType
  PROVE  IInv'
<1>1. Runs("ret_type")
  BY Running DEF RetType
<1>2. Head(todo)[1] = "ret_type" /\ Closes(Head(todo)) = "none"
  BY <1>1, Method DEF Special
<1>3. CASE cur = ":"
  <2>1. Consume(<<Skip, Do("need_type")>>)
    BY <1>3 DEF RetType, Try, Is, ExpectType
  <2>2. /\ Plain(Head(todo), Skip)
        /\ Plain(Head(todo), Do("need_type"))
    BY <1>2, PlainDo, PlainSkip 
    DEF Special, StatementNames, FieldNames, First, Series
  <2>3. Calm(Head(todo), <<Skip, Do("need_type")>>, Skip)
    BY <2>2, Calm2 DEF Plain, First
  <2>4. cur \notin Openers \cup Closers
    BY <1>3 DEF Openers, Closers
  <2> QED
    BY <1>1, <1>2, <2>1, <2>2, <2>3, <2>4, ReadsCalm DEF Plain
<1>4. CASE cur # ":"
  <2>1. Go(<<>>)
    BY <1>4 DEF RetType, Try, Is, ExpectType
  <2> QED
    BY <1>1, <1>2, <2>1, Returns
<1> QED
  BY <1>3, <1>4

\* The type of a conversion follows.
LEMMA AsTypeKeeps ==
  ASSUME IInv, AsType
  PROVE  IInv'
<1>1. Runs("as")
  BY Running DEF AsType
<1>2. Head(todo)[1] = "as" /\ Closes(Head(todo)) = "none"
  BY <1>1, Method DEF Special
<1>3. CASE cur = "as"
  <2>1. Consume(<<Skip, Do("need_type")>>)
    BY <1>3 DEF AsType, Try, Is, ExpectType
  <2>2. /\ Plain(Head(todo), Skip)
        /\ Plain(Head(todo), Do("need_type"))
    BY <1>2, PlainDo, PlainSkip 
    DEF Special, StatementNames, FieldNames, First, Series
  <2>3. Calm(Head(todo), <<Skip, Do("need_type")>>, Skip)
    BY <2>2, Calm2 DEF Plain, First
  <2>4. cur \notin Openers \cup Closers
    BY <1>3 DEF Openers, Closers
  <2> QED
    BY <1>1, <1>2, <2>1, <2>2, <2>3, <2>4, ReadsCalm DEF Plain
<1>4. CASE cur # "as"
  <2>1. Go(<<>>)
    BY <1>4 DEF AsType, Try, Is, ExpectType
  <2> QED
    BY <1>1, <1>2, <2>1, Returns
<1> QED
  BY <1>3, <1>4

\* The brackets behind a type are closed.
LEMMA ListTypeKeeps ==
  ASSUME IInv, ListType
  PROVE  IInv'
<1>1. Runs("list_type")
  BY Running DEF ListType
<1>2. Head(todo)[1] = "list_type" /\ Closes(Head(todo)) = "none"
  BY <1>1, Method DEF Special
<1>3. CASE cur = "["
  <2>1. Consume(<<Expect("]"), Do("list_type")>>)
    BY <1>3 DEF ListType, Try, Is
  <2>2. /\ Pays(Head(todo), Expect("]"), "[")
        /\ Plain(Head(todo), Do("list_type"))
    BY <1>2, <1>3, PaysExpect, PlainDo DEF Special, StatementNames, FieldNames, Series
  <2>3. Owing(Head(todo), <<Expect("]"), Do("list_type")>>, "[", Expect("]"))
    BY <2>2, Owing1of2 DEF Plain, First
  <2>4. Expect("]")[1] # "take"
    BY <2>2 DEF Plain, Pays
  <2> QED
    BY <1>1, <1>2, <1>3, <2>1, <2>3, <2>4, OpensOwing DEF Openers
<1>4. CASE cur # "["
  <2>1. Go(<<>>)
    BY <1>4 DEF ListType, Try, Is
  <2> QED
    BY <1>1, <1>2, <2>1, Returns
<1> QED
  BY <1>3, <1>4

\* A block ends at its brace, or goes on.
LEMMA BlockKeeps ==
  ASSUME IInv, Block
  PROVE  IInv'
<1>1. Runs("block")
  BY Running DEF Block
<1>2. Head(todo)[1] = "block" /\ Closes(Head(todo)) = "{"
  BY <1>1 DEF Runs, Closes
<1>3. CASE AtEnd \/ Is("}")
  <2>1. Go(<<Expect("}")>>)
    BY <1>3 DEF Block
  <2>2. /\ Pays(Head(todo), Expect("}"), "{")
    BY <1>2, <1>3, PaysExpect DEF Special, StatementNames, FieldNames, Series
  <2>3. Owing(Head(todo), <<Expect("}")>>, "{", Expect("}"))
    BY <2>2, Owing1of1 DEF Plain, First
  <2>4. Expect("}")[1] # "take"
    BY <2>2 DEF Plain, Pays
  <2>5. Closes(Head(todo)) = "{"
    BY <1>2, <1>3
  <2> QED
    BY <1>1, <1>2, <2>1, <2>3, <2>4, <2>5, CallsOwing
<1>4. CASE ~(AtEnd \/ Is("}"))
  <2>1. Go(<<Do("declaration"), Skip, Do("block")>>)
    BY <1>4 DEF Block
  <2>2. /\ Plain(Head(todo), Do("declaration"))
        /\ Plain(Head(todo), Skip)
        /\ Pays(Head(todo), Do("block"), "{")
    BY <1>2, <1>4, PaysDo, PlainDo, PlainSkip DEF Special, StatementNames, FieldNames, Series
  <2>3. Owing(Head(todo), <<Do("declaration"), Skip, Do("block")>>, "{", Do("declaration"))
    BY <2>2, Owing3of3 DEF Plain, First
  <2>4. Do("declaration")[1] # "take"
    BY <2>2 DEF Plain, Pays
  <2>5. Closes(Head(todo)) = "{"
    BY <1>2, <1>4
  <2> QED
    BY <1>1, <1>2, <2>1, <2>3, <2>4, <2>5, CallsOwing
<1> QED
  BY <1>3, <1>4

\* A body is a statement or a block.
LEMMA BodyKeeps ==
  ASSUME IInv, Body
  PROVE  IInv'
<1>1. Runs("body")
  BY Running DEF Body
<1>2. Head(todo)[1] = "body" /\ Closes(Head(todo)) = "none"
  BY <1>1, Method DEF Special
<1>3. CASE cur \in {"newline", ":"}
  <2>1. Consume(<<Do("statement")>>)
    BY <1>3 DEF Body
  <2>2. /\ Plain(Head(todo), Do("statement"))
    BY <1>2, PlainDo 
    DEF Special, StatementNames, FieldNames, First, Series
  <2>3. Calm(Head(todo), <<Do("statement")>>, Do("statement"))
    BY <2>2, Calm1 DEF Plain, First
  <2>4. cur \notin Openers \cup Closers
    BY <1>3 DEF Openers, Closers
  <2> QED
    BY <1>1, <1>2, <2>1, <2>2, <2>3, <2>4, ReadsCalm DEF Plain
<1>4. CASE cur = "{"
  <2>1. Consume(<<Do("block")>>)
    BY <1>4 DEF Body
  <2>2. /\ Pays(Head(todo), Do("block"), "{")
    BY <1>2, <1>4, PaysDo DEF Special, StatementNames, FieldNames, Series
  <2>3. Owing(Head(todo), <<Do("block")>>, "{", Do("block"))
    BY <2>2, Owing1of1 DEF Plain, First
  <2>4. Do("block")[1] # "take"
    BY <2>2 DEF Plain, Pays
  <2> QED
    BY <1>1, <1>2, <1>4, <2>1, <2>3, <2>4, OpensOwing DEF Openers
<1>5. CASE cur \notin {"newline", ":", "{"}
  <2>1. Fail(<<>>)
    BY <1>5 DEF Body
  <2> QED
    BY <1>1, <2>1, Errs
<1> QED
  BY <1>3, <1>4, <1>5

\* A list of expressions ends, or begins with one.
LEMMA ExprListKeeps ==
  ASSUME IInv, ExprList
  PROVE  IInv'
<1>1. Runs("expr_list")
  BY Running DEF ExprList
<1>2. /\ Head(todo)[1] = "expr_list"
      /\ (Arg = ")" /\ Closes(Head(todo)) = "(") \/ (Arg = "]" /\ Closes(Head(todo)) = "[")
  BY <1>1 DEF Runs, IsStep, Arg, Closes
<1>3. CASE Is(Arg) /\ Arg = ")"
  <2>1. Go(<<Expect(")")>>)
    BY <1>3 DEF ExprList
  <2>2. /\ Pays(Head(todo), Expect(")"), "(")
    BY <1>2, <1>3, PaysExpect DEF Special, StatementNames, FieldNames, Series
  <2>3. Owing(Head(todo), <<Expect(")")>>, "(", Expect(")"))
    BY <2>2, Owing1of1 DEF Plain, First
  <2>4. Expect(")")[1] # "take"
    BY <2>2 DEF Plain, Pays
  <2>5. Closes(Head(todo)) = "("
    BY <1>2, <1>3
  <2> QED
    BY <1>1, <1>2, <2>1, <2>3, <2>4, <2>5, CallsOwing
<1>4. CASE Is(Arg) /\ Arg = "]"
  <2>1. Go(<<Expect("]")>>)
    BY <1>4 DEF ExprList
  <2>2. /\ Pays(Head(todo), Expect("]"), "[")
    BY <1>2, <1>4, PaysExpect DEF Special, StatementNames, FieldNames, Series
  <2>3. Owing(Head(todo), <<Expect("]")>>, "[", Expect("]"))
    BY <2>2, Owing1of1 DEF Plain, First
  <2>4. Expect("]")[1] # "take"
    BY <2>2 DEF Plain, Pays
  <2>5. Closes(Head(todo)) = "["
    BY <1>2, <1>4
  <2> QED
    BY <1>1, <1>2, <2>1, <2>3, <2>4, <2>5, CallsOwing
<1>5. CASE ~Is(Arg) /\ Arg = ")"
  <2>1. Go(<<Expression(TRUE), <<"more_exprs", ")">> >>)
    BY <1>5 DEF ExprList
  <2>2. /\ Plain(Head(todo), Expression(TRUE))
        /\ Pays(Head(todo), <<"more_exprs", ")">>, "(")
    BY <1>2, <1>5, PaysList, PlainExpression DEF Special, StatementNames, FieldNames, Series
  <2>3. Owing(Head(todo), <<Expression(TRUE), <<"more_exprs", ")">> >>, "(", Expression(TRUE))
    BY <2>2, Owing2of2 DEF Plain, First
  <2>4. Expression(TRUE)[1] # "take"
    BY <2>2 DEF Plain, Pays
  <2>5. Closes(Head(todo)) = "("
    BY <1>2, <1>5
  <2> QED
    BY <1>1, <1>2, <2>1, <2>3, <2>4, <2>5, CallsOwing
<1>6. CASE ~Is(Arg) /\ Arg = "]"
  <2>1. Go(<<Expression(TRUE), <<"more_exprs", "]">> >>)
    BY <1>6 DEF ExprList
  <2>2. /\ Plain(Head(todo), Expression(TRUE))
        /\ Pays(Head(todo), <<"more_exprs", "]">>, "[")
    BY <1>2, <1>6, PaysList, PlainExpression DEF Special, StatementNames, FieldNames, Series
  <2>3. Owing(Head(todo), <<Expression(TRUE), <<"more_exprs", "]">> >>, "[", Expression(TRUE))
    BY <2>2, Owing2of2 DEF Plain, First
  <2>4. Expression(TRUE)[1] # "take"
    BY <2>2 DEF Plain, Pays
  <2>5. Closes(Head(todo)) = "["
    BY <1>2, <1>6
  <2> QED
    BY <1>1, <1>2, <2>1, <2>3, <2>4, <2>5, CallsOwing
<1> QED
  BY <1>3, <1>4, <1>5, <1>6, <1>2

\* Behind a comma there is another expression.
LEMMA MoreExprsKeeps ==
  ASSUME IInv, MoreExprs
  PROVE  IInv'
<1>1. Runs("more_exprs")
  BY Running DEF MoreExprs
<1>2. /\ Head(todo)[1] = "more_exprs"
      /\ (Arg = ")" /\ Closes(Head(todo)) = "(") \/ (Arg = "]" /\ Closes(Head(todo)) = "[")
  BY <1>1 DEF Runs, IsStep, Arg, Closes
<1>3. CASE cur = "," /\ Arg = ")"
  <2>1. Consume(<<Expression(TRUE), <<"more_exprs", ")">> >>)
    BY <1>3 DEF MoreExprs, Try, Is
  <2>2. /\ Plain(Head(todo), Expression(TRUE))
        /\ Pays(Head(todo), <<"more_exprs", ")">>, "(")
    BY <1>2, <1>3, PaysList, PlainExpression DEF Special, StatementNames, FieldNames, Series
  <2>3. Owing(Head(todo), <<Expression(TRUE), <<"more_exprs", ")">> >>, "(", Expression(TRUE))
    BY <2>2, Owing2of2 DEF Plain, First
  <2>4. Expression(TRUE)[1] # "take"
    BY <2>2 DEF Plain, Pays
  <2>5. cur \notin Openers \cup Closers
    BY <1>3 DEF Openers, Closers
  <2>6. Closes(Head(todo)) = "("
    BY <1>2, <1>3
  <2> QED
    BY <1>1, <1>2, <2>1, <2>3, <2>4, <2>5, <2>6, ReadsOwing
<1>4. CASE cur = "," /\ Arg = "]"
  <2>1. Consume(<<Expression(TRUE), <<"more_exprs", "]">> >>)
    BY <1>4 DEF MoreExprs, Try, Is
  <2>2. /\ Plain(Head(todo), Expression(TRUE))
        /\ Pays(Head(todo), <<"more_exprs", "]">>, "[")
    BY <1>2, <1>4, PaysList, PlainExpression DEF Special, StatementNames, FieldNames, Series
  <2>3. Owing(Head(todo), <<Expression(TRUE), <<"more_exprs", "]">> >>, "[", Expression(TRUE))
    BY <2>2, Owing2of2 DEF Plain, First
  <2>4. Expression(TRUE)[1] # "take"
    BY <2>2 DEF Plain, Pays
  <2>5. cur \notin Openers \cup Closers
    BY <1>4 DEF Openers, Closers
  <2>6. Closes(Head(todo)) = "["
    BY <1>2, <1>4
  <2> QED
    BY <1>1, <1>2, <2>1, <2>3, <2>4, <2>5, <2>6, ReadsOwing
<1>5. CASE cur # "," /\ Arg = ")"
  <2>1. Go(<<Expect(")")>>)
    BY <1>5 DEF MoreExprs, Try, Is
  <2>2. /\ Pays(Head(todo), Expect(")"), "(")
    BY <1>2, <1>5, PaysExpect DEF Special, StatementNames, FieldNames, Series
  <2>3. Owing(Head(todo), <<Expect(")")>>, "(", Expect(")"))
    BY <2>2, Owing1of1 DEF Plain, First
  <2>4. Expect(")")[1] # "take"
    BY <2>2 DEF Plain, Pays
  <2>5. Closes(Head(todo)) = "("
    BY <1>2, <1>5
  <2> QED
    BY <1>1, <1>2, <2>1, <2>3, <2>4, <2>5, CallsOwing
<1>6. CASE cur # "," /\ Arg = "]"
  <2>1. Go(<<Expect("]")>>)
    BY <1>6 DEF MoreExprs, Try, Is
  <2>2. /\ Pays(Head(todo), Expect("]"), "[")
    BY <1>2, <1>6, PaysExpect DEF Special, StatementNames, FieldNames, Series
  <2>3. Owing(Head(todo), <<Expect("]")>>, "[", Expect("]"))
    BY <2>2, Owing1of1 DEF Plain, First
  <2>4. Expect("]")[1] # "take"
    BY <2>2 DEF Plain, Pays
  <2>5. Closes(Head(todo)) = "["
    BY <1>2, <1>6
  <2> QED
    BY <1>1, <1>2, <2>1, <2>3, <2>4, <2>5, CallsOwing
<1> QED
  BY <1>3, <1>4, <1>5, <1>6, <1>2

(***************************************************************************)
(* Rows of named parts.                                                    *)
(***************************************************************************)
\* A row that others may follow.
Leads(h, s, first) == Calm(h, s, first) /\ Quiet(s[Len(s)])

\* What follows such a row decides what is owed.
LEMMA Follows ==
  ASSUME NEW h, NEW s, NEW first, Leads(h, s, first), NEW t, NEW second, second[1] \notin {"take", "fields"}
  PROVE  /\ \A x : Owing(h, t, x, second) => Owing(h, s \o t, x, first)
         /\ Calm(h, t, second) => Calm(h, s \o t, first)
         /\ Leads(h, t, second) => Leads(h, s \o t, first)
<1>1. SUFFICES ASSUME Row(h, t), t # <<>>, t[1] = second
               PROVE  /\ Row(h, s \o t) /\ s \o t # <<>> /\ (s \o t)[1] = first
                      /\ (s \o t)[Len(s \o t)] = t[Len(t)]
                      /\ \A x : Owes(t, x) => Owes(s \o t, x)
  BY DEF Calm, Owing, Leads
<1>2. PICK u, m, n : u = s \o t /\ m = Len(s) /\ n = Len(t)
  OBVIOUS
<1>3. Row(h, s) /\ Owes(s, "none") /\ s # <<>> /\ s[1] = first /\ Quiet(s[m])
  BY <1>2 DEF Leads, Calm
<1>4. m \in Nat \ {0} /\ n \in Nat \ {0} /\ IsSequence(s) /\ IsSequence(t)
  BY <1>1, <1>2, <1>3, Popped DEF Row
<1>5. Len(u) = m + n /\ u[1] = s[1] /\ u[m + n] = t[n]
  <2>1. 1 \in 1..m /\ n \in 1..n
    BY <1>4
  <2> QED
    BY <1>2, <1>4, <2>1, Joined
<1>6. u # <<>>
  BY <1>4, <1>5, SmallSequences
<1>7. May(s[m], t[1])
  BY <1>1, <1>3, Behind
<1>8. Row(h, u) /\ \A x : Owes(t, x) => Owes(u, x)
  BY <1>1, <1>2, <1>3, <1>7, RowsJoined
<1> QED
  BY <1>2, <1>3, <1>5, <1>6, <1>8

\* A name that is expected is taken at once.
LEMMA Named ==
  ASSUME NEW role \in {"name", "property"}
  PROVE  May(Expect("identifier"), Take(role))
<1>1. PICK a, b : a = Expect("identifier") /\ b = Take(role)
  OBVIOUS
<1>2. a[1] = "expect" /\ a[2] = "identifier" /\ b[1] = "take" /\ b[2] = role
  BY <1>1, StepParts
<1> QED
  BY <1>1, <1>2 DEF May, IsOpener

\* The name of a binding.
LEMMA BindingLeads ==
  ASSUME NEW h
  PROVE  Leads(h, ExpectBinding, Expect("identifier"))
<1>1. PICK a, b, s : a = Expect("identifier") /\ b = Take("name") /\ s = <<a, b>>
  OBVIOUS
<1>2. Fits(h, a) /\ Quiet(a) /\ Fits(h, b) /\ Quiet(b) /\ May(a, b)
  BY <1>1, PlainExpect, PlainTake, Named DEF Plain
<1>3. Row(h, s) /\ Owes(s, "none") /\ s # <<>> /\ s[1] = a
  BY <1>1, <1>2, Row2 DEF Quiet
<1>4. s[Len(s)] = b
  BY <1>1, Tuple2
<1> QED
  BY <1>1, <1>2, <1>3, <1>4 DEF ExpectBinding, Leads, Calm

\* A type.
LEMMA TypeLeads ==
  ASSUME NEW h
  PROVE  Leads(h, ExpectType, Skip)
<1>1. PICK a, b, s : a = Skip /\ b = Do("need_type") /\ s = <<a, b>>
  OBVIOUS
<1>2. Plain(h, a) /\ Plain(h, b)
  BY <1>1, PlainSkip, PlainDo DEF Special, StatementNames, FieldNames
<1>3. Calm(h, s, a)
  BY <1>1, <1>2, Calm2 DEF Plain, First
<1>4. s[Len(s)] = b
  BY <1>1, Tuple2
<1> QED
  BY <1>1, <1>2, <1>3, <1>4 DEF ExpectType, Leads, Plain

\* The type and the name of a parameter or a field.
LEMMA FieldLeads ==
  ASSUME NEW h
  PROVE  Leads(h, ExpectType \o ExpectBinding, Skip)
<1>1. Expect("identifier")[1] \notin {"take", "fields"}
  BY StepParts
<1> QED
  BY <1>1, TypeLeads, BindingLeads, Follows

\* A function and its parameters; those of a function type.
LEMMA ParamOwes ==
  ASSUME NEW h, h[1] \notin FieldNames
  PROVE  Owing(h, Param, "(", Skip)
<1>1. PICK a : a = Do("more_params")
  OBVIOUS
<1>2. Pays(h, a, "(") /\ a[1] \notin {"take", "fields"}
  BY <1>1, PaysDo DEF Pays
<1>3. Owing(h, <<a>>, "(", a)
  BY <1>2, Owing1of1
<1> QED
  BY <1>1, <1>2, <1>3, FieldLeads, Follows DEF Param

\* The types of a function type owe its bracket.
LEMMA TypesOwe ==
  ASSUME NEW h
  PROVE  Owing(h, ExpectType \o <<Do("more_types")>>, "(", Skip)
<1>1. PICK a : a = Do("more_types")
  OBVIOUS
<1>2. Pays(h, a, "(") /\ a[1] \notin {"take", "fields"}
  BY <1>1, PaysDo DEF Pays, FieldNames
<1>3. Owing(h, <<a>>, "(", a)
  BY <1>2, Owing1of1
<1> QED
  BY <1>1, <1>2, <1>3, TypeLeads, Follows

\* The definition of a variable owes nothing.
LEMMA VarDefCalm ==
  ASSUME NEW h, h[1] \notin FieldNames
  PROVE  Calm(h, VarDef, Do("try_type"))
<1>1. PICK a, b, c, s, t : /\ a = Do("try_type") /\ b = Expect("identifier") /\ c = Do("initializer")
                        /\ s = <<a>> /\ t = <<c>>
  OBVIOUS
<1>2. Plain(h, a) /\ Plain(h, c) /\ b[1] \notin {"take", "fields"} /\ c[1] \notin {"take", "fields"}
  BY <1>1, PlainDo, StepParts DEF Special, StatementNames
<1>3. Leads(h, s, a)
  <2>1. s[Len(s)] = a
    BY <1>1, Tuple1
  <2> QED
    BY <1>1, <1>2, <2>1, Calm1 DEF Leads, Plain, First
<1>4. Calm(h, t, c)
  BY <1>1, <1>2, Calm1 DEF Plain, First
<1>5. Leads(h, s \o ExpectBinding, a)
  BY <1>1, <1>2, <1>3, BindingLeads, Follows
<1>6. Calm(h, (s \o ExpectBinding) \o t, a)
  BY <1>2, <1>4, <1>5, Follows
<1> QED
  BY <1>1, <1>6 DEF VarDef

\* A for loop owes nothing.
LEMMA ForLoopCalm ==
  ASSUME NEW h, h[1] \in StatementNames
  PROVE  Calm(h, ForLoop, Expect("identifier"))
<1>1. PICK a, b, c : a = Expect("in") /\ b = Expression(FALSE) /\ c = Do("body")
  OBVIOUS
<1>2. h[1] \notin FieldNames
  BY DEF StatementNames, FieldNames
<1>3. Plain(h, a) /\ Plain(h, b) /\ Plain(h, c) /\ a[1] \notin {"take", "fields"}
  <2>1. Plain(h, a) /\ Plain(h, b)
    BY <1>1, <1>2, PlainExpect, PlainExpression
  <2>2. Plain(h, c)
    BY <1>1, <1>2, PlainDo DEF Special
  <2> QED
    BY <2>1, <2>2 DEF Plain
<1>4. Calm(h, <<a, b, c>>, a)
  BY <1>3, Calm3 DEF Plain, First
<1> QED
  BY <1>1, <1>3, <1>4, BindingLeads, Follows DEF ForLoop

\* A bracket that is expected is owed by the step behind it.
LEMMA Opener ==
  ASSUME NEW h, NEW kind \in {"(", "{"}
  PROVE  /\ Fits(h, Expect(kind)) /\ IsOpener(Expect(kind)) /\ Closes(Expect(kind)) = "none"
         /\ Expect(kind)[1] \notin {"take", "fields"} /\ Expect(kind)[2] = kind
<1>1. PICK a : a = Expect(kind)
  OBVIOUS
<1>2. a[1] = "expect" /\ a[2] = kind
  BY <1>1, StepParts
<1>3. Fits(h, a)
  <2>1. IsStep(a)
    BY <1>1, <1>2 DEF IsStep
  <2> QED
    BY <1>2, <2>1 DEF Fits, StatementNames, FieldNames
<1>4. IsOpener(a) /\ Closes(a) = "none"
  BY <1>2 DEF IsOpener, Closes
<1> QED
  BY <1>1, <1>2, <1>3, <1>4

\* The definition of a function owes nothing: both its brackets are expected.
LEMMA FunctionDefCalm ==
  ASSUME NEW h, h[1] \in StatementNames
  PROVE  Calm(h, FunctionDef, Expect("identifier"))
<1>1. PICK a, b, c, d, e, t :
         /\ a = Expect("(") /\ b = Do("params") /\ c = Do("ret_type") /\ d = Expect("{") /\ e = Do("block")
         /\ t = <<a, b, c, d, e>>
  OBVIOUS
<1>2. h[1] \notin FieldNames
  BY DEF StatementNames, FieldNames
<1>3. /\ Fits(h, a) /\ IsOpener(a) /\ Closes(a) = "none" /\ a[1] \notin {"take", "fields"} /\ a[2] = "("
      /\ Fits(h, d) /\ IsOpener(d) /\ Closes(d) = "none" /\ d[1] \notin {"take", "fields"} /\ d[2] = "{"
  BY <1>1, Opener
<1>4. Pays(h, b, "(") /\ Pays(h, e, "{") /\ b[1] = "params" /\ e[1] = "block"
  BY <1>1, <1>2, PaysDo, StepParts
<1>5. Plain(h, c)
  BY <1>1, <1>2, PlainDo DEF Special, StatementNames
<1>6. May(a, b) /\ May(b, c) /\ May(c, d) /\ May(d, e)
  <2>1. May(a, b)
    BY <1>3, <1>4 DEF May
  <2>2. May(b, c) /\ May(c, d)
    BY <1>3, <1>4, <1>5 DEF May, Plain, Quiet, Pays
  <2>3. May(d, e)
    BY <1>3, <1>4 DEF May
  <2> QED
    BY <2>1, <2>2, <2>3
<1>7. Row(h, t) /\ t # <<>> /\ t[1] = a
  BY <1>1, <1>3, <1>4, <1>5, <1>6, Row5 DEF Pays, Plain
<1>8. Owes(t, "none")
  <2>1. DOMAIN t = 1..5 /\ t[1] = a /\ t[2] = b /\ t[3] = c /\ t[4] = d /\ t[5] = e
    <3>1. t = <<a, b, c, d, e>>
      BY <1>1
    <3> QED
      BY <3>1, Tuple5
  <2>2. \A i \in DOMAIN t : i = 1 \/ (i = 2 /\ i - 1 = 1) \/ i = 3 \/ i = 4 \/ (i = 5 /\ i - 1 = 4)
    BY <2>1
  <2>3. Closes(c) = "none"
    BY <1>5 DEF Plain, Quiet
  <2>4. \A i \in DOMAIN t : Closes(t[i]) = "none" \/ (i # 1 /\ IsOpener(t[i - 1]))
    BY <1>3, <2>1, <2>2, <2>3
  <2> QED
    BY <2>4, OwesNothing
<1>9. Calm(h, t, a)
  BY <1>7, <1>8 DEF Calm
<1> QED
  BY <1>1, <1>3, <1>9, BindingLeads, Follows DEF FunctionDef

\* The parameters of a function type are those of no function.
LEMMA FunctionTypeCalm ==
  ASSUME NEW h
  PROVE  Calm(h, <<Expect("("), Do("type_params"), Do("ret_type")>>, Expect("("))
<1>1. PICK a, b, c, t : a = Expect("(") /\ b = Do("type_params") /\ c = Do("ret_type") /\ t = <<a, b, c>>
  OBVIOUS
<1>2. Fits(h, a) /\ IsOpener(a) /\ Closes(a) = "none" /\ a[1] \notin {"take", "fields"} /\ a[2] = "("
  BY <1>1, Opener
<1>3. Pays(h, b, "(") /\ b[1] = "type_params"
  BY <1>1, PaysDo, StepParts DEF FieldNames
<1>4. Plain(h, c)
  BY <1>1, PlainDo DEF Special, StatementNames, FieldNames
<1>5. May(a, b) /\ May(b, c)
  <2>1. May(a, b)
    BY <1>2, <1>3 DEF May
  <2>2. May(b, c)
    BY <1>3, <1>4 DEF May, Plain, Pays
  <2> QED
    BY <2>1, <2>2
<1>6. Row(h, t) /\ t # <<>> /\ t[1] = a
  BY <1>1, <1>2, <1>3, <1>4, <1>5, Row3 DEF Pays, Plain, Quiet
<1>7. Owes(t, "none")
  <2>1. DOMAIN t = 1..3 /\ t[1] = a /\ t[2] = b /\ t[3] = c
    BY <1>1, Tuple3
  <2>2. \A i \in DOMAIN t : i = 1 \/ (i = 2 /\ i - 1 = 1) \/ i = 3
    BY <2>1
  <2>3. Closes(c) = "none"
    BY <1>4 DEF Plain, Quiet
  <2>4. \A i \in DOMAIN t : Closes(t[i]) = "none" \/ (i # 1 /\ IsOpener(t[i - 1]))
    BY <1>2, <2>1, <2>2, <2>3
  <2> QED
    BY <2>4, OwesNothing
<1> QED
  BY <1>1, <1>6, <1>7 DEF Calm

\* A statement is what its first token says.
LEMMA StatementKindKeeps ==
  ASSUME IInv, StatementKind
  PROVE  IInv'
<1>1. Runs("statement_kind")
  BY Running DEF StatementKind
<1>2. Head(todo)[1] = "statement_kind" /\ Closes(Head(todo)) = "none"
  BY <1>1, Method DEF Special
<1>3. CASE cur = "{"
  <2>1. Consume(<<Do("block")>>)
    BY <1>3 DEF StatementKind, IfStmt, WhileLoop, KeywordStmt, ExpressionStmt
  <2>2. /\ Pays(Head(todo), Do("block"), "{")
    BY <1>2, <1>3, PaysDo DEF Special, StatementNames, FieldNames, Series
  <2>3. Owing(Head(todo), <<Do("block")>>, "{", Do("block"))
    BY <2>2, Owing1of1 DEF Plain, First
  <2>4. Do("block")[1] # "take"
    BY <2>2 DEF Plain, Pays
  <2> QED
    BY <1>1, <1>2, <1>3, <2>1, <2>3, <2>4, OpensOwing DEF Openers
<1>4. CASE cur = "if"
  <2>1. Consume(<<Expression(FALSE), Do("body"), Skip, Do("else")>>)
    BY <1>4 DEF StatementKind, IfStmt, WhileLoop, KeywordStmt, ExpressionStmt
  <2>2. /\ Plain(Head(todo), Expression(FALSE))
        /\ Plain(Head(todo), Do("body"))
        /\ Plain(Head(todo), Skip)
        /\ Plain(Head(todo), Do("else"))
    BY <1>2, PlainDo, PlainExpression, PlainSkip 
    DEF Special, StatementNames, FieldNames, First, Series
  <2>3. Calm(Head(todo), <<Expression(FALSE), Do("body"), Skip, Do("else")>>, Expression(FALSE))
    BY <2>2, Calm4 DEF Plain, First
  <2>4. cur \notin Openers \cup Closers
    BY <1>4 DEF Openers, Closers
  <2> QED
    BY <1>1, <1>2, <2>1, <2>2, <2>3, <2>4, ReadsCalm DEF Plain
<1>5. CASE cur = "while"
  <2>1. Consume(<<Expression(FALSE), Do("body")>>)
    BY <1>5 DEF StatementKind, IfStmt, WhileLoop, KeywordStmt, ExpressionStmt
  <2>2. /\ Plain(Head(todo), Expression(FALSE))
        /\ Plain(Head(todo), Do("body"))
    BY <1>2, PlainDo, PlainExpression 
    DEF Special, StatementNames, FieldNames, First, Series
  <2>3. Calm(Head(todo), <<Expression(FALSE), Do("body")>>, Expression(FALSE))
    BY <2>2, Calm2 DEF Plain, First
  <2>4. cur \notin Openers \cup Closers
    BY <1>5 DEF Openers, Closers
  <2> QED
    BY <1>1, <1>2, <2>1, <2>2, <2>3, <2>4, ReadsCalm DEF Plain
<1>6. CASE cur = "for"
  <2>1. Consume(ForLoop)
    BY <1>6 DEF StatementKind, IfStmt, WhileLoop, KeywordStmt, ExpressionStmt
  <2>2. Calm(Head(todo), ForLoop, Expect("identifier"))
    BY <1>2, ForLoopCalm DEF StatementNames, FieldNames, Leads
  <2>3. Expect("identifier")[1] # "take"
    BY StepParts
  <2>4. cur \notin Openers \cup Closers
    BY <1>6 DEF Openers, Closers
  <2> QED
    BY <1>1, <1>2, <2>1, <2>2, <2>3, <2>4, ReadsCalm
<1>7. CASE cur = "return"
  <2>1. Consume(<<Take("keyword"), Do("argument"), Do("stmt_end")>>)
    BY <1>7 DEF StatementKind, IfStmt, WhileLoop, KeywordStmt, ExpressionStmt
  <2>2. /\ First(Head(todo), Take("keyword"))
        /\ Plain(Head(todo), Do("argument"))
        /\ Plain(Head(todo), Do("stmt_end"))
    BY <1>2, PlainDo, PlainTake 
    DEF Special, StatementNames, FieldNames, First, Series
  <2>3. Calm(Head(todo), <<Take("keyword"), Do("argument"), Do("stmt_end")>>, Take("keyword"))
    BY <2>2, Calm3 DEF Plain, First
  <2>4. cur \notin Openers \cup Closers
    BY <1>7 DEF Openers, Closers
  <2>5. cur \in Fit("keyword")
    BY <1>7, Roles
  <2> QED
    BY <1>1, <1>2, <2>1, <2>3, <2>4, <2>5, PlainTake, ReadsCalm
<1>8. CASE cur \notin {"{", "if", "while", "for", "return"}
  <2>1. Go(<<Expression(FALSE), Do("stmt_end")>>)
    BY <1>8 DEF StatementKind, IfStmt, WhileLoop, KeywordStmt, ExpressionStmt
  <2>2. /\ Plain(Head(todo), Expression(FALSE))
        /\ Plain(Head(todo), Do("stmt_end"))
    BY <1>2, PlainDo, PlainExpression 
    DEF Special, StatementNames, FieldNames, First, Series
  <2>3. Calm(Head(todo), <<Expression(FALSE), Do("stmt_end")>>, Expression(FALSE))
    BY <2>2, Calm2 DEF Plain, First
  <2> QED
    BY <1>1, <1>2, <2>1, <2>2, <2>3, CallsCalm DEF Plain
<1> QED
  BY <1>3, <1>4, <1>5, <1>6, <1>7, <1>8

\* A declaration is what its first token says.
LEMMA DeclareKeeps ==
  ASSUME IInv, Declare
  PROVE  IInv'
<1>1. Runs("declare")
  BY Running DEF Declare
<1>2. Head(todo)[1] = "declare" /\ Closes(Head(todo)) = "none"
  BY <1>1, Method DEF Special
<1>3. CASE cur = "func"
  <2>1. Consume(FunctionDef)
    BY <1>3 DEF Declare, StructDef
  <2>2. Calm(Head(todo), FunctionDef, Expect("identifier"))
    BY <1>2, FunctionDefCalm DEF StatementNames, FieldNames, Leads
  <2>3. Expect("identifier")[1] # "take"
    BY StepParts
  <2>4. cur \notin Openers \cup Closers
    BY <1>3 DEF Openers, Closers
  <2> QED
    BY <1>1, <1>2, <2>1, <2>2, <2>3, <2>4, ReadsCalm
<1>4. CASE cur = "new"
  <2>1. Consume(VarDef)
    BY <1>4 DEF Declare, StructDef
  <2>2. Calm(Head(todo), VarDef, Do("try_type"))
    BY <1>2, VarDefCalm DEF StatementNames, FieldNames, Leads
  <2>3. Do("try_type")[1] # "take"
    BY StepParts
  <2>4. cur \notin Openers \cup Closers
    BY <1>4 DEF Openers, Closers
  <2> QED
    BY <1>1, <1>2, <2>1, <2>2, <2>3, <2>4, ReadsCalm
<1>5. CASE cur = "summon"
  <2>1. Consume(Import)
    BY <1>5 DEF Declare
  <2>2. PICK a, b, c, d : a = Expect("identifier") /\ b = Take("name") /\ c = Do("path") /\ d = Do("alias")
    OBVIOUS
  <2>3. /\ Plain(Head(todo), a) /\ Fits(Head(todo), b) /\ Quiet(b)
        /\ Plain(Head(todo), c) /\ Plain(Head(todo), d)
    BY <1>2, <2>2, PlainExpect, PlainTake, PlainDo DEF Special, StatementNames, FieldNames
  <2>4. May(a, b) /\ May(b, c) /\ May(c, d)
    BY <2>2, <2>3, Named, Behind DEF Plain
  <2>5. Calm(Head(todo), <<a, b, c, d>>, a)
    BY <2>3, <2>4, Row4 DEF Calm, Plain, Quiet
  <2>6. a[1] # "take" /\ Consume(<<a, b, c, d>>) /\ cur \notin Openers \cup Closers
    BY <1>5, <2>1, <2>2, <2>3 DEF Import, Plain, Openers, Closers
  <2> QED
    BY <1>1, <1>2, <2>5, <2>6, ReadsCalm
<1>6. CASE cur = "struct"
  <2>1. Consume(<<Expect("identifier"), Do("struct_name")>>)
    BY <1>6 DEF Declare, StructDef
  <2>2. /\ Plain(Head(todo), Expect("identifier"))
        /\ Plain(Head(todo), Do("struct_name"))
    BY <1>2, PlainDo, PlainExpect 
    DEF Special, StatementNames, FieldNames, First, Series
  <2>3. Calm(Head(todo), <<Expect("identifier"), Do("struct_name")>>, Expect("identifier"))
    BY <2>2, Calm2 DEF Plain, First
  <2>4. cur \notin Openers \cup Closers
    BY <1>6 DEF Openers, Closers
  <2> QED
    BY <1>1, <1>2, <2>1, <2>2, <2>3, <2>4, ReadsCalm DEF Plain
<1>7. CASE cur \notin {"func", "new", "summon", "struct"}
  <2>1. Go(<<Do("statement")>>)
    BY <1>7 DEF Declare, StructDef
  <2>2. /\ Plain(Head(todo), Do("statement"))
    BY <1>2, PlainDo 
    DEF Special, StatementNames, FieldNames, First, Series
  <2>3. Calm(Head(todo), <<Do("statement")>>, Do("statement"))
    BY <2>2, Calm1 DEF Plain, First
  <2> QED
    BY <1>1, <1>2, <2>1, <2>2, <2>3, CallsCalm DEF Plain
<1> QED
  BY <1>3, <1>4, <1>5, <1>6, <1>7

\* Parameters end, or begin.
LEMMA ParamsKeeps ==
  ASSUME IInv, Params
  PROVE  IInv'
<1>1. Runs("params")
  BY Running DEF Params
<1>2. Head(todo)[1] = "params" /\ Closes(Head(todo)) = "("
  BY <1>1 DEF Runs, Closes
<1>3. CASE Is(")")
  <2>1. Go(<<Expect(")")>>)
    BY <1>3 DEF Params
  <2>2. /\ Pays(Head(todo), Expect(")"), "(")
    BY <1>2, <1>3, PaysExpect DEF Special, StatementNames, FieldNames, Series
  <2>3. Owing(Head(todo), <<Expect(")")>>, "(", Expect(")"))
    BY <2>2, Owing1of1 DEF Plain, First
  <2>4. Expect(")")[1] # "take"
    BY <2>2 DEF Plain, Pays
  <2>5. Closes(Head(todo)) = "("
    BY <1>2, <1>3
  <2> QED
    BY <1>1, <1>2, <2>1, <2>3, <2>4, <2>5, CallsOwing
<1>4. CASE ~Is(")")
  <2>1. Go(Param)
    BY <1>4 DEF Params
  <2>2. Owing(Head(todo), Param, "(", Skip)
    BY <1>2, ParamOwes DEF FieldNames
  <2>3. Skip[1] # "take"
    BY StepParts
  <2> QED
    BY <1>1, <1>2, <2>1, <2>2, <2>3, CallsOwing
<1> QED
  BY <1>3, <1>4

\* Behind a comma there is another parameter.
LEMMA MoreParamsKeeps ==
  ASSUME IInv, MoreParams
  PROVE  IInv'
<1>1. Runs("more_params")
  BY Running DEF MoreParams
<1>2. Head(todo)[1] = "more_params" /\ Closes(Head(todo)) = "("
  BY <1>1 DEF Runs, Closes
<1>3. CASE cur = ","
  <2>1. Consume(Param)
    BY <1>3 DEF MoreParams, Try, Is
  <2>2. Owing(Head(todo), Param, "(", Skip)
    BY <1>2, ParamOwes DEF FieldNames
  <2>3. Skip[1] # "take"
    BY StepParts
  <2>4. cur \notin Openers \cup Closers
    BY <1>3 DEF Openers, Closers
  <2> QED
    BY <1>1, <1>2, <2>1, <2>2, <2>3, <2>4, ReadsOwing
<1>4. CASE cur # ","
  <2>1. Go(<<Expect(")")>>)
    BY <1>4 DEF MoreParams, Try, Is
  <2>2. /\ Pays(Head(todo), Expect(")"), "(")
    BY <1>2, <1>4, PaysExpect DEF Special, StatementNames, FieldNames, Series
  <2>3. Owing(Head(todo), <<Expect(")")>>, "(", Expect(")"))
    BY <2>2, Owing1of1 DEF Plain, First
  <2>4. Expect(")")[1] # "take"
    BY <2>2 DEF Plain, Pays
  <2>5. Closes(Head(todo)) = "("
    BY <1>2, <1>4
  <2> QED
    BY <1>1, <1>2, <2>1, <2>3, <2>4, <2>5, CallsOwing
<1> QED
  BY <1>3, <1>4

\* The parameters of a type end, or begin.
LEMMA TypeParamsKeeps ==
  ASSUME IInv, TypeParams
  PROVE  IInv'
<1>1. Runs("type_params")
  BY Running DEF TypeParams
<1>2. Head(todo)[1] = "type_params" /\ Closes(Head(todo)) = "("
  BY <1>1 DEF Runs, Closes
<1>3. CASE Is(")")
  <2>1. Go(<<Expect(")")>>)
    BY <1>3 DEF TypeParams
  <2>2. /\ Pays(Head(todo), Expect(")"), "(")
    BY <1>2, <1>3, PaysExpect DEF Special, StatementNames, FieldNames, Series
  <2>3. Owing(Head(todo), <<Expect(")")>>, "(", Expect(")"))
    BY <2>2, Owing1of1 DEF Plain, First
  <2>4. Expect(")")[1] # "take"
    BY <2>2 DEF Plain, Pays
  <2>5. Closes(Head(todo)) = "("
    BY <1>2, <1>3
  <2> QED
    BY <1>1, <1>2, <2>1, <2>3, <2>4, <2>5, CallsOwing
<1>4. CASE ~Is(")")
  <2>1. Go(ExpectType \o <<Do("more_types")>>)
    BY <1>4 DEF TypeParams
  <2>2. Owing(Head(todo), ExpectType \o <<Do("more_types")>>, "(", Skip)
    BY <1>2, TypesOwe DEF FieldNames
  <2>3. Skip[1] # "take"
    BY StepParts
  <2> QED
    BY <1>1, <1>2, <2>1, <2>2, <2>3, CallsOwing
<1> QED
  BY <1>3, <1>4

\* Behind a comma there is another type.
LEMMA MoreTypesKeeps ==
  ASSUME IInv, MoreTypes
  PROVE  IInv'
<1>1. Runs("more_types")
  BY Running DEF MoreTypes
<1>2. Head(todo)[1] = "more_types" /\ Closes(Head(todo)) = "("
  BY <1>1 DEF Runs, Closes
<1>3. CASE cur = ","
  <2>1. Consume(ExpectType \o <<Do("more_types")>>)
    BY <1>3 DEF MoreTypes, Try, Is
  <2>2. Owing(Head(todo), ExpectType \o <<Do("more_types")>>, "(", Skip)
    BY <1>2, TypesOwe DEF FieldNames
  <2>3. Skip[1] # "take"
    BY StepParts
  <2>4. cur \notin Openers \cup Closers
    BY <1>3 DEF Openers, Closers
  <2> QED
    BY <1>1, <1>2, <2>1, <2>2, <2>3, <2>4, ReadsOwing
<1>4. CASE cur # ","
  <2>1. Go(<<Expect(")")>>)
    BY <1>4 DEF MoreTypes, Try, Is
  <2>2. /\ Pays(Head(todo), Expect(")"), "(")
    BY <1>2, <1>4, PaysExpect DEF Special, StatementNames, FieldNames, Series
  <2>3. Owing(Head(todo), <<Expect(")")>>, "(", Expect(")"))
    BY <2>2, Owing1of1 DEF Plain, First
  <2>4. Expect(")")[1] # "take"
    BY <2>2 DEF Plain, Pays
  <2>5. Closes(Head(todo)) = "("
    BY <1>2, <1>4
  <2> QED
    BY <1>1, <1>2, <2>1, <2>3, <2>4, <2>5, CallsOwing
<1> QED
  BY <1>3, <1>4

\* An import may be given a name.
LEMMA AliasKeeps ==
  ASSUME IInv, Alias
  PROVE  IInv'
<1>1. Runs("alias")
  BY Running DEF Alias
<1>2. Head(todo)[1] = "alias" /\ Closes(Head(todo)) = "none"
  BY <1>1, Method DEF Special
<1>3. CASE cur = "as"
  <2>1. Consume(ExpectBinding)
    BY <1>3 DEF Alias, Try, Is
  <2>2. Calm(Head(todo), ExpectBinding, Expect("identifier"))
    BY <1>2, BindingLeads DEF StatementNames, FieldNames, Leads
  <2>3. Expect("identifier")[1] # "take"
    BY StepParts
  <2>4. cur \notin Openers \cup Closers
    BY <1>3 DEF Openers, Closers
  <2> QED
    BY <1>1, <1>2, <2>1, <2>2, <2>3, <2>4, ReadsCalm
<1>4. CASE cur # "as"
  <2>1. Go(<<>>)
    BY <1>4 DEF Alias, Try, Is
  <2> QED
    BY <1>1, <1>2, <2>1, Returns
<1> QED
  BY <1>3, <1>4

\* The path of an import consists of names.
LEMMA PathKeeps ==
  ASSUME IInv, Path
  PROVE  IInv'
<1>1. Runs("path")
  BY Running DEF Path
<1>2. Head(todo)[1] = "path" /\ Closes(Head(todo)) = "none"
  BY <1>1, Method DEF Special
<1>3. CASE cur = "."
  <2>1. Consume(<<Expect("identifier"), Take("name"), Do("path")>>)
    BY <1>3 DEF Path, Try, Is
  <2>2. PICK a, b, c : a = Expect("identifier") /\ b = Take("name") /\ c = Do("path")
    OBVIOUS
  <2>3. Plain(Head(todo), a) /\ Fits(Head(todo), b) /\ Quiet(b) /\ Plain(Head(todo), c)
    BY <1>2, <2>2, PlainExpect, PlainTake, PlainDo DEF Special, StatementNames, FieldNames
  <2>4. May(a, b) /\ May(b, c)
    BY <2>2, <2>3, Named, Behind DEF Plain
  <2>5. Calm(Head(todo), <<a, b, c>>, a)
    BY <2>3, <2>4, Row3 DEF Calm, Plain, Quiet
  <2>6. a[1] # "take" /\ Consume(<<a, b, c>>) /\ cur \notin Openers \cup Closers
    BY <1>3, <2>1, <2>2, <2>3 DEF Plain, Openers, Closers
  <2> QED
    BY <1>1, <1>2, <2>5, <2>6, ReadsCalm
<1>4. CASE cur # "."
  <2>1. Go(<<>>)
    BY <1>4 DEF Path, Try, Is
  <2> QED
    BY <1>1, <1>2, <2>1, Returns
<1> QED
  BY <1>3, <1>4

\* A call, a property or an index may follow.
LEMMA SuffixKeeps ==
  ASSUME IInv, Suffix
  PROVE  IInv'
<1>1. Runs("suffix")
  BY Running DEF Suffix
<1>2. Head(todo)[1] = "suffix" /\ Closes(Head(todo)) = "none"
  BY <1>1, Method DEF Special
<1>3. CASE cur = "("
  <2>1. Consume(<< <<"expr_list", ")">>, Do("suffix")>>)
    BY <1>3 DEF Suffix
  <2>2. /\ Pays(Head(todo), <<"expr_list", ")">>, "(")
        /\ Plain(Head(todo), Do("suffix"))
    BY <1>2, <1>3, PaysList, PlainDo DEF Special, StatementNames, FieldNames, Series
  <2>3. Owing(Head(todo), << <<"expr_list", ")">>, Do("suffix")>>, "(", <<"expr_list", ")">>)
    BY <2>2, Owing1of2 DEF Plain, First
  <2>4. <<"expr_list", ")">>[1] # "take"
    BY <2>2 DEF Plain, Pays
  <2> QED
    BY <1>1, <1>2, <1>3, <2>1, <2>3, <2>4, OpensOwing DEF Openers
<1>4. CASE cur = "."
  <2>1. Consume(<<Expect("identifier"), Take("property"), Do("suffix")>>)
    BY <1>4 DEF Suffix
  <2>2. PICK a, b, c : a = Expect("identifier") /\ b = Take("property") /\ c = Do("suffix")
    OBVIOUS
  <2>3. Plain(Head(todo), a) /\ Fits(Head(todo), b) /\ Quiet(b) /\ Plain(Head(todo), c)
    BY <1>2, <2>2, PlainExpect, PlainTake, PlainDo DEF Special, StatementNames, FieldNames
  <2>4. May(a, b) /\ May(b, c)
    BY <2>2, <2>3, Named, Behind DEF Plain
  <2>5. Calm(Head(todo), <<a, b, c>>, a)
    BY <2>3, <2>4, Row3 DEF Calm, Plain, Quiet
  <2>6. a[1] # "take" /\ Consume(<<a, b, c>>) /\ cur \notin Openers \cup Closers
    BY <1>4, <2>1, <2>2, <2>3 DEF Plain, Openers, Closers
  <2> QED
    BY <1>1, <1>2, <2>5, <2>6, ReadsCalm
<1>5. CASE cur = "["
  <2>1. Consume(<<Expression(TRUE), Expect("]"), Do("suffix")>>)
    BY <1>5 DEF Suffix
  <2>2. /\ Plain(Head(todo), Expression(TRUE))
        /\ Pays(Head(todo), Expect("]"), "[")
        /\ Plain(Head(todo), Do("suffix"))
    BY <1>2, <1>5, PaysExpect, PlainDo, PlainExpression DEF Special, StatementNames, FieldNames, Series
  <2>3. Owing(Head(todo), <<Expression(TRUE), Expect("]"), Do("suffix")>>, "[", Expression(TRUE))
    BY <2>2, Owing2of3 DEF Plain, First
  <2>4. Expression(TRUE)[1] # "take"
    BY <2>2 DEF Plain, Pays
  <2> QED
    BY <1>1, <1>2, <1>5, <2>1, <2>3, <2>4, OpensOwing DEF Openers
<1>6. CASE cur \notin {"(", ".", "["}
  <2>1. Go(<<>>)
    BY <1>6 DEF Suffix
  <2> QED
    BY <1>1, <1>2, <2>1, Returns
<1> QED
  BY <1>3, <1>4, <1>5, <1>6

\* A name is no literal, no bracket and no keyword.
LEMMA Kinded == {"literal", "bad_literal", "func", "(", "["} \cap Identifiers = {}
BY ParserAssumption

\* The first token of an operand says what it is.
LEMMA PrimaryKeeps ==
  ASSUME IInv, Primary
  PROVE  IInv'
<1>1. Runs("primary")
  BY Running DEF Primary
<1>2. Head(todo)[1] = "primary" /\ Closes(Head(todo)) = "none"
  BY <1>1, Method DEF Special
<1>3. CASE cur = "literal"
  <2>1. Consume(<<Take("literal")>>)
    BY Kinded, <1>3 DEF Primary
  <2>2. /\ First(Head(todo), Take("literal"))
    BY <1>2, PlainTake 
    DEF Special, StatementNames, FieldNames, First, Series
  <2>3. Calm(Head(todo), <<Take("literal")>>, Take("literal"))
    BY <2>2, Calm1 DEF Plain, First
  <2>4. cur \notin Openers \cup Closers
    BY <1>3 DEF Openers, Closers
  <2>5. cur \in Fit("literal")
    BY <1>3, Roles
  <2> QED
    BY <1>1, <1>2, <2>1, <2>3, <2>4, <2>5, PlainTake, ReadsCalm
<1>4. CASE cur = "bad_literal"
  <2>1. Consume(<<Take("literal"), Do("error")>>)
    BY Kinded, <1>4 DEF Primary
  <2>2. /\ First(Head(todo), Take("literal"))
        /\ Plain(Head(todo), Do("error"))
    BY <1>2, PlainDo, PlainTake 
    DEF Special, StatementNames, FieldNames, First, Series
  <2>3. Calm(Head(todo), <<Take("literal"), Do("error")>>, Take("literal"))
    BY <2>2, Calm2 DEF Plain, First
  <2>4. cur \notin Openers \cup Closers
    BY <1>4 DEF Openers, Closers
  <2>5. cur \in Fit("literal")
    BY <1>4, Roles
  <2> QED
    BY <1>1, <1>2, <2>1, <2>3, <2>4, <2>5, PlainTake, ReadsCalm
<1>5. CASE cur = "("
  <2>1. Consume(<<Expression(TRUE), Expect(")")>>)
    BY Kinded, <1>5 DEF Primary
  <2>2. /\ Plain(Head(todo), Expression(TRUE))
        /\ Pays(Head(todo), Expect(")"), "(")
    BY <1>2, <1>5, PaysExpect, PlainExpression DEF Special, StatementNames, FieldNames, Series
  <2>3. Owing(Head(todo), <<Expression(TRUE), Expect(")")>>, "(", Expression(TRUE))
    BY <2>2, Owing2of2 DEF Plain, First
  <2>4. Expression(TRUE)[1] # "take"
    BY <2>2 DEF Plain, Pays
  <2> QED
    BY <1>1, <1>2, <1>5, <2>1, <2>3, <2>4, OpensOwing DEF Openers
<1>6. CASE cur = "["
  <2>1. Consume(<< <<"expr_list", "]">> >>)
    BY Kinded, <1>6 DEF Primary
  <2>2. /\ Pays(Head(todo), <<"expr_list", "]">>, "[")
    BY <1>2, <1>6, PaysList DEF Special, StatementNames, FieldNames, Series
  <2>3. Owing(Head(todo), << <<"expr_list", "]">> >>, "[", <<"expr_list", "]">>)
    BY <2>2, Owing1of1 DEF Plain, First
  <2>4. <<"expr_list", "]">>[1] # "take"
    BY <2>2 DEF Plain, Pays
  <2> QED
    BY <1>1, <1>2, <1>6, <2>1, <2>3, <2>4, OpensOwing DEF Openers
<1>7. CASE cur \in Identifiers
  <2>1. Consume(<<Take("name")>>)
    BY Kinded, <1>7 DEF Primary
  <2>2. /\ First(Head(todo), Take("name"))
    BY <1>2, PlainTake 
    DEF Special, StatementNames, FieldNames, First, Series
  <2>3. Calm(Head(todo), <<Take("name")>>, Take("name"))
    BY <2>2, Calm1 DEF Plain, First
  <2>4. cur \notin Openers \cup Closers
    BY <1>7, NoBrackets
  <2>5. cur \in Fit("name")
    BY <1>7, Roles
  <2> QED
    BY <1>1, <1>2, <2>1, <2>3, <2>4, <2>5, PlainTake, ReadsCalm
<1>8. CASE cur = "func"
  <2>1. Consume(<<Do("todo")>>)
    BY Kinded, <1>8 DEF Primary
  <2>2. /\ Plain(Head(todo), Do("todo"))
    BY <1>2, PlainDo 
    DEF Special, StatementNames, FieldNames, First, Series
  <2>3. Calm(Head(todo), <<Do("todo")>>, Do("todo"))
    BY <2>2, Calm1 DEF Plain, First
  <2>4. cur \notin Openers \cup Closers
    BY <1>8 DEF Openers, Closers
  <2> QED
    BY <1>1, <1>2, <2>1, <2>2, <2>3, <2>4, ReadsCalm DEF Plain
<1>9. CASE cur \notin Identifiers \cup {"literal", "bad_literal", "(", "[", "func"}
  <2>1. Fail(<<>>)
    BY <1>9 DEF Primary
  <2> QED
    BY <1>1, <2>1, Errs
<1> QED
  BY <1>3, <1>4, <1>5, <1>6, <1>7, <1>8, <1>9

\* A type begins a function type, or is a name.
LEMMA ConsumeTypeKeeps ==
  ASSUME IInv, NEW method \in {"try_type", "need_type"}, Runs(method), StartsType, ConsumeType
  PROVE  IInv'
<1>1. /\ Closes(Head(todo)) = "none" /\ method \notin {"skip", "expect", "restore"}
      /\ Head(todo)[1] = method
  BY DEF Runs, Closes
<1>2. CASE cur = "func"
  <2>1. Consume(<<Expect("("), Do("type_params"), Do("ret_type")>>)
    BY <1>2 DEF ConsumeType
  <2>2. Calm(Head(todo), <<Expect("("), Do("type_params"), Do("ret_type")>>, Expect("("))
    BY FunctionTypeCalm
  <2>3. Expect("(")[1] # "take" /\ cur \notin Openers \cup Closers
    BY <1>2, StepParts DEF Openers, Closers
  <2> QED
    BY <1>1, <2>1, <2>2, <2>3, ReadsCalm
<1>3. CASE cur # "func"
  <2>1. Consume(<<Take("type"), Do("list_type")>>)
    BY <1>3 DEF ConsumeType
  <2>2. /\ First(Head(todo), Take("type"))
        /\ Plain(Head(todo), Do("list_type"))
    BY <1>1, PlainTake, PlainDo DEF Special, StatementNames, FieldNames, First
  <2>3. Calm(Head(todo), <<Take("type"), Do("list_type")>>, Take("type"))
    BY <2>2, Calm2 DEF Plain, First
  <2>4. cur \in Identifiers \/ cur = "type"
    BY <1>3 DEF StartsType, IInv, ParserTypeOK
  <2>5. cur \notin Openers \cup Closers
    BY <2>4, NoBrackets DEF Openers, Closers
  <2>6. cur \in Fit("type")
    BY <2>4, Roles
  <2> QED
    BY <1>1, <2>1, <2>3, <2>5, <2>6, PlainTake, ReadsCalm
<1> QED
  BY <1>2, <1>3

\* A type may stand before the name of a variable.
LEMMA TryConsumeTypeKeeps ==
  ASSUME IInv, TryConsumeType
  PROVE  IInv'
<1>1. Runs("try_type")
  BY Running DEF TryConsumeType
<1>2. CASE StartsType
  BY <1>1, <1>2, ConsumeTypeKeeps DEF TryConsumeType
<1>3. CASE ~StartsType
  <2>1. Go(<<>>) /\ Closes(Head(todo)) = "none"
    BY <1>1, <1>3, Method DEF TryConsumeType, Special
  <2> QED
    BY <1>1, <2>1, Returns
<1> QED
  BY <1>2, <1>3

\* Elsewhere there must be one.
LEMMA NeedTypeKeeps ==
  ASSUME IInv, NeedType
  PROVE  IInv'
<1>1. Runs("need_type")
  BY Running DEF NeedType
<1>2. CASE StartsType
  BY <1>1, <1>2, ConsumeTypeKeeps DEF NeedType
<1>3. CASE ~StartsType
  BY <1>1, <1>3, Errs DEF NeedType
<1> QED
  BY <1>2, <1>3

\* A unary operator is taken behind the newlines.
LEMMA UnaryKeeps ==
  ASSUME IInv, Unary
  PROVE  IInv'
<1>1. Runs("unary")
  BY Running DEF Unary
<1>2. Head(todo)[1] = "unary" /\ Closes(Head(todo)) = "none"
  BY <1>1, Method DEF Special
<1>3. CASE cur \in UnaryOps
  <2>1. PICK a, b, c : a = Skip /\ b = Take("unary") /\ c = Do("unary")
    OBVIOUS
  <2>2. /\ Plain(Head(todo), a) /\ Plain(Head(todo), c)
        /\ Fits(Head(todo), b) /\ Quiet(b) /\ b[1] = "take" /\ b[2] = "unary"
    BY <1>2, <2>1, PlainSkip, PlainTake, PlainDo DEF Special, StatementNames, FieldNames
  <2>3. May(a, b) /\ May(b, c)
    BY <2>2 DEF May, Quiet, Plain
  <2>4. Calm(Head(todo), <<a, b, c>>, a)
    BY <2>2, <2>3, Row3 DEF Calm, Plain, Quiet
  <2>5. cur \notin Openers \cup Closers
    BY <1>3, AreOperators, NoBrackets
  <2>6. a[1] # "take" /\ Consume(<<a, b, c>>)
    BY <1>3, <2>1, <2>2 DEF Unary, Plain
  <2> QED
    BY <1>1, <1>2, <2>4, <2>5, <2>6, ReadsCalm
<1>4. CASE cur \notin UnaryOps
  <2>1. Go(<<Do("primary"), Do("suffix")>>)
    BY <1>4 DEF Unary
  <2>2. /\ Plain(Head(todo), Do("primary"))
        /\ Plain(Head(todo), Do("suffix"))
    BY <1>2, PlainDo DEF Special, StatementNames, FieldNames
  <2>3. Calm(Head(todo), <<Do("primary"), Do("suffix")>>, Do("primary"))
    BY <2>2, Calm2 DEF Plain, First
  <2> QED
    BY <1>1, <1>2, <2>1, <2>2, <2>3, CallsCalm DEF Plain
<1> QED
  BY <1>3, <1>4

\* An operator without a left operand is passed over, with an error.
LEMMA MissingLeftKeeps ==
  ASSUME IInv, NEW method \in {"series", "loop_series"}, Runs(method), Arg \in DOMAIN Levels,
         Advance(TRUE), Then(<< <<"loop_series", Arg>> >>), Quietly
  PROVE  IInv'
<1>1. Head(todo)[1] = method /\ method \notin {"skip", "expect", "restore"} /\ Head(todo)[1] \notin FieldNames
      /\ status = "parsing" /\ todo # <<>>
  BY DEF Runs, FieldNames
<1>2. PICK a : a = <<"loop_series", Arg>>
  OBVIOUS
<1>3. Plain(Head(todo), a)
  BY <1>1, <1>2, PlainLevel
<1>4. Calm(Head(todo), <<a>>, a)
  BY <1>3, Calm1 DEF Plain, First
<1>5. Ordinary(Head(todo), <<a>>)
  BY <1>1, <1>4, RowsArePushed DEF Calm
<1>6. /\ Pushes(Head(todo), <<a>>)
      /\ \A i \in DOMAIN <<a>> : <<a>>[i][1] # "restore" /\ (<<a>>[i][1] = "resume" => failed)
  BY <1>5 DEF Ordinary
<1>7. Then(<<a>>)
  BY <1>2
<1> QED
  BY <1>1, <1>6, <1>7, AdvanceFails

\* A series begins with an operand of the next level.
LEMMA StartSeriesKeeps ==
  ASSUME IInv, StartSeries
  PROVE  IInv'
<1>1. Runs("series")
  BY Running DEF StartSeries
<1>2. Head(todo)[1] = "series" /\ Closes(Head(todo)) = "none" /\ Arg \in DOMAIN Levels
  BY <1>1 DEF Runs, IsStep, Arg, Closes
<1>3. CASE MissingLeft(Arg)
  BY <1>1, <1>2, <1>3, MissingLeftKeeps DEF StartSeries
<1>4. CASE ~MissingLeft(Arg)
  <2>1. PICK x \in {"boolean", "loop"} : Go(<<Operand(Arg), <<x, Arg>> >>)
    BY <1>4 DEF StartSeries
  <2>2. /\ Plain(Head(todo), Operand(Arg))
        /\ Plain(Head(todo), <<x, Arg>>)
    BY <1>2, PlainOperand, PlainLevel DEF FieldNames
  <2>3. Calm(Head(todo), <<Operand(Arg), <<x, Arg>> >>, Operand(Arg))
    BY <2>2, Calm2 DEF Plain, First
  <2> QED
    BY <1>1, <1>2, <2>1, <2>2, <2>3, CallsCalm DEF Plain
<1> QED
  BY <1>3, <1>4

\* After an operator without a left operand a series goes on.
LEMMA LoopSeriesKeeps ==
  ASSUME IInv, LoopSeries
  PROVE  IInv'
<1>1. Runs("loop_series")
  BY Running DEF LoopSeries
<1>2. Head(todo)[1] = "loop_series" /\ Closes(Head(todo)) = "none" /\ Arg \in DOMAIN Levels
  BY <1>1 DEF Runs, IsStep, Arg, Closes
<1>3. CASE MissingLeft(Arg)
  BY <1>1, <1>2, <1>3, MissingLeftKeeps DEF LoopSeries
<1>4. CASE ~MissingLeft(Arg)
  <2>1. Go(<<Operand(Arg), <<"loop", Arg>> >>)
    BY <1>4 DEF LoopSeries
  <2>2. /\ Plain(Head(todo), Operand(Arg))
        /\ Plain(Head(todo), <<"loop", Arg>>)
    BY <1>2, PlainOperand, PlainLevel DEF FieldNames
  <2>3. Calm(Head(todo), <<Operand(Arg), <<"loop", Arg>> >>, Operand(Arg))
    BY <2>2, Calm2 DEF Plain, First
  <2> QED
    BY <1>1, <1>2, <2>1, <2>2, <2>3, CallsCalm DEF Plain
<1> QED
  BY <1>3, <1>4

\* A value out of range is an error.
LEMMA ErrorAtKeeps ==
  ASSUME IInv, ErrorAt
  PROVE  IInv'
BY Running, Errs DEF ErrorAt

\* The first token is no bracket, since there was none before it.
LEMMA FirstAdvanceKeeps ==
  ASSUME IInv, FirstAdvance
  PROVE  IInv'
<1>1. Runs("advance") /\ Consume(<<>>)
  BY Running DEF FirstAdvance
<1>2. Closes(Head(todo)) = "none"
  BY <1>1 DEF Runs, Closes
<1>3. cur = "taken"
  <2>1. PICK s : s = todo
    OBVIOUS
  <2>2. IsSequence(s) /\ s # <<>>
    BY <1>1, <2>1 DEF IInv, Linked, Runs
  <2>3. Head(s) = s[1] /\ 1 \in DOMAIN s
    BY <2>2, Behead
  <2> QED
    BY <1>1, <2>1, <2>3 DEF IInv, Begun, Runs
<1>4. cur \notin Openers \cup Closers
  BY <1>3 DEF Openers, Closers
<1> QED
  BY <1>1, <1>2, <1>4, Passes

(***************************************************************************)
(* Actions that do more than consume and call.                             *)
(***************************************************************************)
\* A step that neither consumes a token nor touches the flag.
LEMMA OthersKeep ==
  ASSUME IInv, NEW method, Runs(method), method \notin {"expect", "restore"},
         NEW steps, Pushes(Head(todo), steps), Owes(steps, Closes(Head(todo))),
         \A i \in DOMAIN steps : steps[i][1] # "restore" /\ (steps[i][1] = "resume" => failed),
         Ready(steps, prev'), Then(steps),
         UNCHANGED <<cur, left, tokens, ignore_newlines, failed>>,
         panic_mode' \in BOOLEAN, panic_mode' => failed, ~failed => opens' = opens,
         prev' \in {prev, "taken"}, user_types' \subseteq Identifiers, TakesWhatFits',
         status' \in {"parsing", "panicked", "todo"}
  PROVE  IInv'
<1>1. todo' = steps \o Tail(todo) /\ todo # <<>> /\ Head(todo)[1] \notin {"expect", "restore"}
  BY DEF Then, Runs
<1>2. /\ Linked(todo)' /\ InFields(todo)' /\ ProgramLast(todo)'
      /\ FlagOff(todo, ignore_newlines)' /\ ErrorsKnown' /\ Begun'
  <2>1. (panic_mode' => failed') /\ (failed => failed') /\ UNCHANGED ignore_newlines
    OBVIOUS
  <2>2. \A i \in DOMAIN steps : steps[i][1] # "restore" /\ (steps[i][1] = "resume" => failed')
    OBVIOUS
  <2> QED
    BY <1>1, <2>1, <2>2, StackKeeps
<1>3. HeadFits'
  BY <1>1, TopFits
<1>4. Balanced'
  <2>1. (AtEnd => AtEnd') /\ (~failed' => ~failed /\ opens' = opens) /\ ~IsOpener(Head(todo))
    BY <1>1 DEF AtEnd, IsOpener
  <2> QED
    BY <1>1, <2>1, BalanceKept
<1>5. ParserTypeOK'
  <2>1. /\ cur \in Kinds /\ prev \in Kinds /\ Kinds' = Kinds /\ "taken" \in Kinds
        /\ \E s \in Sources : tokens = s.tokens /\ left \in 0..s.length
        /\ ignore_newlines \in BOOLEAN /\ failed \in BOOLEAN
    BY DEF IInv, ParserTypeOK, Kinds
  <2> QED
    BY <2>1 DEF ParserTypeOK
<1>6. EndStays' /\ Ended'
  BY DEF IInv, EndStays, Ended, AtEnd
<1> QED
  BY <1>2, <1>3, <1>4, <1>5, <1>6 DEF IInv

\* The token consumed last is handed out once.
LEMMA TakePrevKeeps ==
  ASSUME IInv, TakePrev
  PROVE  IInv'
<1>1. /\ Runs("take") /\ prev' = "taken"
      /\ Record(FALSE, opens, IF prev \in Fit(Arg) THEN odd ELSE odd \cup {Arg})
      /\ Then(<<>>) /\ Quietly /\ UNCHANGED <<cur, left, tokens, panic_mode>>
  BY Running DEF TakePrev
<1>2. Closes(Head(todo)) = "none" /\ status = "parsing"
  BY <1>1 DEF Runs, Closes
<1>3. ~failed => Arg = "unary" \/ prev \in Fit(Arg)
  <2>1. PICK s : s = todo
    OBVIOUS
  <2>2. Head(s) = s[1]
    BY <1>1, <2>1, Behead DEF IInv, Linked, Runs
  <2> QED
    BY <1>1, <2>1, <2>2 DEF IInv, HeadFits, Ready, Runs, Arg
<1>4. UNCHANGED <<ignore_newlines, user_types, status>>
  BY <1>1 DEF Quietly
<1>5. failed' = failed /\ (~failed => opens' = opens)
  <2>1. failed \in BOOLEAN
    BY DEF IInv, ParserTypeOK
  <2> QED
    BY <1>1, <2>1 DEF Record
<1>6. TakesWhatFits'
  <2>1. odd \subseteq {"unary"}
    BY DEF IInv, TakesWhatFits
  <2>2. odd' = IF failed' THEN {} ELSE IF prev \in Fit(Arg) THEN odd ELSE odd \cup {Arg}
    BY <1>1 DEF Record
  <2>3. odd' \subseteq {"unary"}
    BY <1>3, <1>5, <2>1, <2>2
  <2> QED
    BY <2>3 DEF TakesWhatFits
<1>7. PICK steps : steps = <<>>
  OBVIOUS
<1>8. /\ Pushes(Head(todo), steps) /\ Owes(steps, Closes(Head(todo)))
      /\ \A i \in DOMAIN steps : steps[i][1] # "restore" /\ (steps[i][1] = "resume" => failed)
      /\ Ready(steps, prev') /\ Then(steps)
  BY <1>1, <1>2, <1>7, NothingPushed, SmallSequences DEF Ready
<1>9. panic_mode' \in BOOLEAN /\ (panic_mode' => failed) /\ user_types' \subseteq Identifiers
      /\ status' \in {"parsing", "panicked", "todo"}
  BY <1>1, <1>2, <1>4 DEF IInv, ParserTypeOK, ErrorsKnown
<1> QED
  BY <1>1, <1>4, <1>5, <1>6, <1>8, <1>9, OthersKeep

\* Functions without a name are not parsed.
LEMMA TodoKeeps ==
  ASSUME IInv, Todo
  PROVE  IInv'
<1>1. /\ Runs("todo") /\ status' = "todo" /\ Then(<<>>)
      /\ UNCHANGED <<source, errors, ignore_newlines, user_types, opens, odd>>
  BY Running DEF Todo
<1>2. Closes(Head(todo)) = "none"
  BY <1>1 DEF Runs, Closes
<1>3. PICK steps : steps = <<>>
  OBVIOUS
<1>4. /\ Pushes(Head(todo), steps) /\ Owes(steps, Closes(Head(todo)))
      /\ \A i \in DOMAIN steps : steps[i][1] # "restore" /\ (steps[i][1] = "resume" => failed)
      /\ Ready(steps, prev') /\ Then(steps)
  BY <1>1, <1>2, <1>3, NothingPushed, SmallSequences DEF Ready
<1>5. /\ UNCHANGED <<cur, left, tokens, ignore_newlines, failed, prev, panic_mode, opens, user_types>>
      /\ TakesWhatFits'
  BY <1>1 DEF source, errors, IInv, TakesWhatFits
<1>6. panic_mode' \in BOOLEAN /\ (panic_mode' => failed) /\ user_types' \subseteq Identifiers
      /\ status' \in {"parsing", "panicked", "todo"}
  BY <1>1, <1>5 DEF IInv, ParserTypeOK, ErrorsKnown
<1> QED
  BY <1>1, <1>4, <1>5, <1>6, OthersKeep

\* Only a name becomes a type.
LEMMA UserTypeKeeps ==
  ASSUME IInv, UserType
  PROVE  IInv'
<1>1. /\ Runs("user_type") /\ Then(<<>>)
      /\ user_types' = user_types \cup ({Arg} \cap Identifiers)
      /\ status' = IF HasLexeme(Arg) THEN status ELSE "panicked"
      /\ UNCHANGED <<source, errors, ignore_newlines, opens, odd>>
  BY Running DEF UserType
<1>2. Closes(Head(todo)) = "none" /\ status = "parsing"
  BY <1>1 DEF Runs, Closes
<1>3. PICK steps : steps = <<>>
  OBVIOUS
<1>4. /\ Pushes(Head(todo), steps) /\ Owes(steps, Closes(Head(todo)))
      /\ \A i \in DOMAIN steps : steps[i][1] # "restore" /\ (steps[i][1] = "resume" => failed)
      /\ Ready(steps, prev') /\ Then(steps)
  BY <1>1, <1>2, <1>3, NothingPushed, SmallSequences DEF Ready
<1>5. /\ UNCHANGED <<cur, left, tokens, ignore_newlines, failed, prev, panic_mode, opens>>
      /\ TakesWhatFits'
  BY <1>1 DEF source, errors, IInv, TakesWhatFits
<1>6. panic_mode' \in BOOLEAN /\ (panic_mode' => failed) /\ user_types' \subseteq Identifiers
      /\ status' \in {"parsing", "panicked", "todo"}
  BY <1>1, <1>2, <1>5 DEF IInv, ParserTypeOK, ErrorsKnown
<1> QED
  BY <1>1, <1>4, <1>5, <1>6, OthersKeep

\* A step for the parser to find its way back.
LEMMA ResumePushed ==
  ASSUME NEW h, h[1] \in {"synchronize", "resume"}
  PROVE  LET s == <<Do("resume")>>
         IN Pushes(h, s) /\ Owes(s, "none") /\ s[1][1] # "take" /\ \A i \in DOMAIN s : s[i][1] = "resume"
<1>1. PICK a, s : a = Do("resume") /\ s = <<a>>
  OBVIOUS
<1>2. a[1] = "resume"
  BY <1>1, StepParts
<1>3. IsSequence(s) /\ DOMAIN s = 1..1 /\ Len(s) = 1 /\ s[1] = a
  BY <1>1, Tuple1
<1>4. \A i \in DOMAIN s : i = 1 /\ s[i] = a /\ i + 1 \notin DOMAIN s
  BY <1>3
<1>5. IsStep(a) /\ ~IsOpener(a) /\ Closes(a) = "none"
  BY <1>2 DEF IsStep, IsOpener, Closes
<1>6. Linked(s) /\ InFields(s)
  BY <1>2, <1>3, <1>4, <1>5 DEF Linked, InFields
<1>7. Pushes(h, s)
  BY <1>2, <1>4, <1>6 DEF Pushes, StatementNames, FieldNames
<1>8. Owes(s, "none")
  BY <1>4, <1>5, OwesNothing
<1> QED
  BY <1>1, <1>2, <1>3, <1>4, <1>7, <1>8

\* After an error the parser passes over tokens.
LEMMA SynchronizeKeeps ==
  ASSUME IInv, Synchronize
  PROVE  IInv'
<1>1. /\ Runs("synchronize") /\ panic_mode' = FALSE
      /\ Then(IF panic_mode THEN <<Do("resume")>> ELSE <<>>)
      /\ Quietly /\ UNCHANGED <<source, failed, opens, odd>>
  BY Running DEF Synchronize
<1>2. Closes(Head(todo)) = "none" /\ status = "parsing" /\ Head(todo)[1] = "synchronize"
  BY <1>1 DEF Runs, Closes
<1>3. PICK steps : steps = IF panic_mode THEN <<Do("resume")>> ELSE <<>>
  OBVIOUS
<1>4. panic_mode => failed
  BY DEF IInv, ErrorsKnown
<1>5. /\ Pushes(Head(todo), steps) /\ Owes(steps, Closes(Head(todo)))
      /\ \A i \in DOMAIN steps : steps[i][1] # "restore" /\ (steps[i][1] = "resume" => failed)
      /\ Ready(steps, prev')
  <2>1. CASE panic_mode
    BY <1>2, <1>3, <1>4, <2>1, ResumePushed DEF Ready
  <2>2. CASE ~panic_mode
    BY <1>2, <1>3, <2>2, NothingPushed, SmallSequences DEF Ready
  <2> QED
    BY <2>1, <2>2
<1>6. /\ UNCHANGED <<cur, left, tokens, ignore_newlines, failed, prev, opens, user_types, status>>
      /\ TakesWhatFits'
  BY <1>1 DEF source, Quietly, IInv, TakesWhatFits
<1>7. panic_mode' \in BOOLEAN /\ (panic_mode' => failed) /\ user_types' \subseteq Identifiers
      /\ status' \in {"parsing", "panicked", "todo"}
  BY <1>1, <1>2, <1>6 DEF IInv, ParserTypeOK
<1>8. Then(steps)
  BY <1>1, <1>3
<1> QED
  BY <1>1, <1>5, <1>6, <1>7, <1>8, OthersKeep

\* Those that are passed over need not be closed.
LEMMA ResumeKeeps ==
  ASSUME IInv, Resume
  PROVE  IInv'
<1>1. Runs("resume")
  BY Running DEF Resume
<1>2. Closes(Head(todo)) = "none" /\ status = "parsing" /\ Head(todo)[1] = "resume" /\ todo # <<>>
  BY <1>1 DEF Runs, Closes
<1>3. failed
  <2>1. PICK s : s = todo
    OBVIOUS
  <2>2. Head(s) = s[1] /\ 1 \in DOMAIN s
    BY <1>2, <2>1, Behead DEF IInv, Linked
  <2> QED
    BY <1>2, <2>1, <2>2 DEF IInv, ErrorsKnown
<1>4. CASE Go(<<>>)
  BY <1>1, <1>2, <1>4, Returns
<1>5. CASE Consume(<<>>) \/ Consume(<<Do("resume")>>)
  <2>1. PICK steps \in {<<>>, <<Do("resume")>>} : Consume(steps)
    BY <1>5
  <2>2. /\ Pushes(Head(todo), steps)
        /\ \A i \in DOMAIN steps : steps[i][1] # "restore" /\ (steps[i][1] = "resume" => failed)
        /\ Ready(steps, cur)
    <3>1. CASE steps = <<>>
      BY <3>1, NothingPushed, SmallSequences DEF Ready
    <3>2. CASE steps = <<Do("resume")>>
      BY <1>2, <1>3, <3>2, ResumePushed DEF Ready
    <3> QED
      BY <3>1, <3>2
  <2>3. Head(todo)[1] \notin {"skip", "expect", "restore"}
    BY <1>2
  <2> QED
    BY <1>2, <1>3, <2>1, <2>2, <2>3, ConsumeKeeps
<1> QED
  BY <1>4, <1>5 DEF Resume

\* The name of a struct waits below its fields.
LEMMA StructNameKeeps ==
  ASSUME IInv, StructName
  PROVE  IInv'
<1>1. /\ Runs("struct_name") /\ prev' = "taken"
      /\ Then(<<Expect("{"), Do("fields"), <<"user_type", prev>> >>)
      /\ Quietly /\ UNCHANGED <<cur, left, tokens, errors, opens, odd>>
  BY Running DEF StructName
<1>2. Closes(Head(todo)) = "none" /\ status = "parsing" /\ Head(todo)[1] = "struct_name"
  BY <1>1 DEF Runs, Closes
<1>3. PICK h, a, b, c, s : /\ h = Head(todo) /\ a = Expect("{") /\ b = Do("fields")
                        /\ c = <<"user_type", prev>> /\ s = <<a, b, c>>
  OBVIOUS
<1>4. /\ a[1] = "expect" /\ a[2] = "{" /\ b[1] = "fields" /\ c[1] = "user_type"
      /\ h[1] = "struct_name"
  BY <1>2, <1>3, StepParts
<1>5. IsSequence(s) /\ DOMAIN s = 1..3 /\ Len(s) = 3 /\ s[1] = a /\ s[2] = b /\ s[3] = c
  <2>1. s = <<a, b, c>>
    BY <1>3
  <2> QED
    BY <2>1, Tuple3
<1>6. \A i \in DOMAIN s : i = 1 \/ (i = 2 /\ i - 1 = 1) \/ i = 3
  BY <1>5
<1>7. IsStep(a) /\ IsStep(b) /\ IsStep(c)
  BY <1>3, <1>4 DEF IsStep
<1>8. IsOpener(a) /\ ~IsOpener(b) /\ ~IsOpener(c) /\ Closes(a) = "none" /\ Closes(c) = "none"
  BY <1>4 DEF IsOpener, Closes
<1>9. May(a, b) /\ May(b, c)
  BY <1>4, <1>8 DEF May
<1>10. Linked(s)
  <2>1. \A i \in DOMAIN s : IsStep(s[i]) /\ (IsOpener(s[i]) => i + 1 \in DOMAIN s)
    BY <1>5, <1>6, <1>7, <1>8
  <2>2. \A i \in DOMAIN s : i + 1 \in DOMAIN s => (i = 1 /\ i + 1 = 2) \/ (i = 2 /\ i + 1 = 3)
    BY <1>5
  <2>3. \A i \in DOMAIN s : i + 1 \in DOMAIN s => May(s[i], s[i + 1])
    BY <1>5, <1>9, <2>2
  <2> QED
    BY <1>5, <2>1, <2>3 DEF Linked
<1>11. InFields(s)
  <2>1. \A j \in DOMAIN s : s[j][1] \in {"field", "fields"} => j = 2
    BY <1>4, <1>5, <1>6
  <2>2. \A i \in DOMAIN s : i < 2 => i = 1
    BY <1>5
  <2> QED
    BY <1>4, <1>5, <2>1, <2>2 DEF InFields, FieldNames
<1>12. Pushes(h, s)
  BY <1>4, <1>5, <1>6, <1>10, <1>11 DEF Pushes, StatementNames, FieldNames
<1>13. Owes(s, "none")
  <2>1. \A i \in DOMAIN s : Closes(s[i]) = "none" \/ (i # 1 /\ IsOpener(s[i - 1]))
    BY <1>5, <1>6, <1>8
  <2> QED
    BY <2>1, OwesNothing
<1>14. \A i \in DOMAIN s : s[i][1] # "restore" /\ (s[i][1] = "resume" => failed)
  BY <1>4, <1>5, <1>6
<1>15. Ready(s, prev') /\ Then(s)
  BY <1>1, <1>3, <1>4, <1>5 DEF Ready
<1>16. /\ UNCHANGED <<cur, left, tokens, ignore_newlines, failed, opens, user_types, status, panic_mode>>
       /\ TakesWhatFits'
  BY <1>1 DEF errors, Quietly, IInv, TakesWhatFits
<1>17. panic_mode' \in BOOLEAN /\ (panic_mode' => failed) /\ user_types' \subseteq Identifiers
       /\ status' \in {"parsing", "panicked", "todo"}
  BY <1>2, <1>16 DEF IInv, ParserTypeOK, ErrorsKnown
<1>18. Pushes(Head(todo), s) /\ Owes(s, Closes(Head(todo)))
  BY <1>2, <1>3, <1>12, <1>13
<1> QED
  BY <1>1, <1>14, <1>15, <1>16, <1>17, <1>18, OthersKeep

\* A method that closes a bracket consumes it and returns.
LEMMA ClosingKeeps ==
  ASSUME IInv, status = "parsing", todo # <<>>, ~IsOpener(Head(todo)), Head(todo)[1] # "restore",
         Ready(<<>> \o Tail(todo), cur), cur \in Closers, <<Closes(Head(todo)), cur>> \in Pairs,
         Closes(Head(todo)) # "none", Consume(<<>>)
  PROVE  IInv'
<1>1. /\ todo' = <<>> \o Tail(todo) /\ UNCHANGED <<ignore_newlines, user_types, status>>
      /\ Advance(FALSE)
  BY DEF Consume, Then, Quietly
<1>2. /\ ParserTypeOK' /\ TakesWhatFits' /\ EndStays'
      /\ prev' = cur /\ (AtEnd => AtEnd')
      /\ (failed => failed') /\ (panic_mode' => failed')
      /\ (~failed' => ~failed /\ opens' = Brackets)
  <2>1. ParserTypeOK /\ TakesWhatFits /\ ErrorsKnown /\ EndStays /\ FALSE \in BOOLEAN
    BY DEF IInv
  <2> QED
    BY <1>1, <2>1, AdvanceEffect
<1>3. PICK steps : steps = <<>>
  OBVIOUS
<1>4. /\ Pushes(Head(todo), steps) /\ Owes(steps, "none")
      /\ \A i \in DOMAIN steps : steps[i][1] # "restore" /\ (steps[i][1] = "resume" => failed')
  BY <1>3, NothingPushed, SmallSequences
<1>5. /\ Linked(todo)' /\ InFields(todo)' /\ ProgramLast(todo)'
      /\ FlagOff(todo, ignore_newlines)' /\ ErrorsKnown' /\ Begun'
  <2>1. /\ todo' = steps \o Tail(todo) /\ UNCHANGED ignore_newlines
        /\ (failed => failed') /\ (panic_mode' => failed')
    BY <1>1, <1>2, <1>3
  <2> QED
    BY <1>4, <2>1, StackKeeps
<1>6. HeadFits'
  BY <1>1, <1>2 DEF HeadFits
<1>7. Balanced'
  <2>1. SUFFICES ASSUME ~failed' PROVE Closed(opens, todo)'
    BY DEF Balanced
  <2>2. PICK s, o : s = todo /\ o = opens
    OBVIOUS
  <2>3. ~failed /\ opens' = Brackets
    BY <1>2, <2>1
  <2>4. Linked(s) /\ Closed(o, s) /\ s # <<>> /\ Closes(Head(s)) # "none"
    BY <2>2, <2>3 DEF IInv, Balanced, Unclosed, AtEnd, Closers
  <2>5. o # <<>> /\ Last(o) = Closes(Head(s))
    BY <2>4, LastIsOwed
  <2>6. Brackets = Front(o)
    BY <2>2, <2>5 DEF Brackets, Closers
  <2>7. Closed(Front(o), steps \o Tail(s))
    <3>1. ~IsOpener(Head(s)) /\ Pushes(Head(s), steps) /\ Owes(steps, "none")
      BY <1>4, <2>2
    <3> QED
      BY <2>4, <3>1, ClosedClosed
  <2> QED
    BY <1>1, <1>3, <2>2, <2>3, <2>6, <2>7
<1>8. Ended'
  BY <1>1 DEF Ended
<1> QED
  BY <1>2, <1>5, <1>6, <1>7, <1>8 DEF IInv

\* The stack without its top.
LEMMA Dropped ==
  ASSUME NEW s, IsSequence(s), s # <<>>
  PROVE  LET t == <<>> \o Tail(s)
         IN /\ IsSequence(t) /\ Len(t) = Len(s) - 1 /\ DOMAIN t = 1..(Len(s) - 1)
            /\ Len(s) \in Nat \ {0} /\ DOMAIN s = 1..Len(s)
            /\ \A i \in 1..(Len(s) - 1) : t[i] = s[i + 1]
<1>1. PICK e, r, t, n : e = <<>> /\ r = Tail(s) /\ t = e \o r /\ n = Len(s)
  OBVIOUS
<1>2. /\ IsSequence(r) /\ Len(r) = n - 1 /\ \A i \in 1..(n - 1) : r[i] = s[i + 1]
  BY <1>1, Behead
<1>3. n \in Nat \ {0} /\ DOMAIN s = 1..n
  BY <1>1, Places, Popped
<1>4. IsSequence(e) /\ Len(e) = 0
  BY <1>1, SmallSequences
<1>5. /\ IsSequence(t) /\ Len(t) = Len(e) + Len(r) /\ DOMAIN t = 1..(Len(e) + Len(r))
      /\ \A i \in 1..Len(r) : t[Len(e) + i] = r[i]
  <2>1. t = e \o r
    BY <1>1
  <2> QED
    BY <1>2, <1>4, <2>1, Joined
<1>6. Len(t) = n - 1 /\ DOMAIN t = 1..(n - 1) /\ \A i \in 1..(n - 1) : t[i] = r[i]
  <2>1. \A i \in 1..(n - 1) : 0 + i = i
    OBVIOUS
  <2> QED
    BY <1>2, <1>3, <1>4, <1>5, <2>1
<1> QED
  BY <1>1, <1>2, <1>3, <1>5, <1>6

\* Below a method that is not the one that expects a name no token is taken but a
\* unary operator.
LEMMA NothingTaken ==
  ASSUME IInv, todo # <<>>, Head(todo)[1] # "expect" \/ Head(todo)[2] # "identifier", NEW token
  PROVE  Ready(<<>> \o Tail(todo), token)
<1>1. PICK s, t, n : s = todo /\ t = <<>> \o Tail(s) /\ n = Len(s)
  OBVIOUS
<1>2. Linked(s) /\ IsSequence(s) /\ s # <<>>
  BY <1>1 DEF IInv, Linked
<1>3. /\ IsSequence(t) /\ DOMAIN t = 1..(n - 1) /\ n \in Nat \ {0} /\ DOMAIN s = 1..n
      /\ \A i \in 1..(n - 1) : t[i] = s[i + 1]
  BY <1>1, <1>2, Dropped
<1>4. Head(s) = s[1]
  BY <1>2, Behead
<1>5. SUFFICES ASSUME t # <<>>, t[1][1] = "take" PROVE t[1][2] = "unary"
  BY <1>1 DEF Ready
<1>6. 1 \in DOMAIN t
  BY <1>3, <1>5, Behead
<1>7. 1 \in 1..(n - 1) /\ 1 \in DOMAIN s /\ 1 + 1 \in DOMAIN s /\ 1 + 1 = 2
  BY <1>3, <1>6
<1>8. t[1] = s[2] /\ May(s[1], s[2])
  BY <1>2, <1>3, <1>7 DEF Linked
<1> QED
  BY <1>1, <1>4, <1>5, <1>8 DEF May

\* The brace of a struct closes it.
LEMMA FieldsKeeps ==
  ASSUME IInv, Fields
  PROVE  IInv'
<1>1. Runs("fields")
  BY Running DEF Fields
<1>2. Closes(Head(todo)) = "struct" /\ status = "parsing" /\ Head(todo)[1] = "fields" /\ todo # <<>>
  BY <1>1 DEF Runs, Closes
<1>3. CASE cur = "}"
  <2>1. Consume(<<>>)
    BY <1>3 DEF Fields, Try, Is
  <2>2. Ready(<<>> \o Tail(todo), cur)
    BY <1>2, NothingTaken
  <2>3. cur \in Closers /\ <<Closes(Head(todo)), cur>> \in Pairs /\ ~IsOpener(Head(todo))
    BY <1>2, <1>3 DEF Closers, Pairs, IsOpener
  <2> QED
    BY <1>2, <2>1, <2>2, <2>3, ClosingKeeps
<1>4. CASE cur # "}"
  <2>1. PICK a, s, h : a = Do("field") /\ s = <<a>> /\ h = Head(todo)
    OBVIOUS
  <2>2. a[1] = "field" /\ h[1] = "fields" /\ Go(s)
    BY <1>2, <1>4, <2>1, StepParts DEF Fields, Try, Is
  <2>3. IsSequence(s) /\ DOMAIN s = 1..1 /\ Len(s) = 1 /\ s[1] = a
    BY <2>1, Tuple1
  <2>4. \A i \in DOMAIN s : i = 1 /\ i + 1 \notin DOMAIN s
    BY <2>3
  <2>5. IsStep(a) /\ ~IsOpener(a) /\ Closes(a) = "struct"
    BY <2>2 DEF IsStep, IsOpener, Closes
  <2>6. Linked(s) /\ InFields(s)
    BY <2>3, <2>4, <2>5 DEF Linked, InFields
  <2>7. Ordinary(h, s)
    BY <2>2, <2>3, <2>4, <2>6 DEF Ordinary, Pushes, StatementNames, FieldNames
  <2>8. Owes(s, "struct")
    BY <2>3, <2>4, <2>5 DEF Owes, Owed
  <2>9. Ordinary(Head(todo), s) /\ Owes(s, Closes(Head(todo))) /\ s[1][1] # "take"
    BY <1>2, <2>1, <2>2, <2>3, <2>7, <2>8
  <2> QED
    BY <1>2, <2>2, <2>9, GoKeeps
<1> QED
  BY <1>3, <1>4

\* The stack is rebuilt from its parts.
LEMMA SameStack ==
  ASSUME NEW s, IsSequence(s), s # <<>>
  PROVE  <<Head(s)>> \o Tail(s) = s
<1>1. PICK e, t, n : e = <<Head(s)>> /\ t = e \o Tail(s) /\ n = Len(s)
  OBVIOUS
<1>2. IsSequence(e) /\ Len(e) = 1 /\ e[1] = Head(s)
  BY <1>1, SmallSequences
<1>3. /\ IsSequence(t) /\ Len(t) = 1 + n - 1 /\ n \in Nat \ {0}
      /\ t[1] = s[1] /\ \A i \in 2..n : t[1 + i - 1] = s[i]
  <2>1. t = e \o Tail(s) /\ 1 \in 1..1
    BY <1>1
  <2> QED
    BY <1>1, <1>2, <2>1, Rewritten
<1>4. Len(t) = n
  BY <1>3
<1>5. \A i \in 1..n : t[i] = s[i]
  <2>1. \A i \in 1..n : (i = 1 \/ i \in 2..n) /\ 1 + i - 1 = i
    BY <1>3
  <2> QED
    BY <1>3, <2>1
<1>6. s \in Seq(Range(s)) /\ t \in Seq(Range(s))
  <2>1. PICK S : S = Range(s)
    OBVIOUS
  <2>2. s \in Seq(S)
    BY <2>1 DEF IsSequence
  <2>3. Head(s) \in S /\ Tail(s) \in Seq(S)
    BY <2>2, HeadTailProperties
  <2>4. PICK r : r = Tail(s)
    OBVIOUS
  <2>5. e \in Seq(S) /\ r \in Seq(S)
    BY <1>1, <2>3, <2>4
  <2>6. e \o r \in Seq(S)
    BY <2>5
  <2> QED
    BY <1>1, <2>1, <2>2, <2>4, <2>6
<1>7. t = s
  <2>1. Len(s) = Len(t) /\ \A i \in 1..Len(s) : s[i] = t[i]
    BY <1>1, <1>4, <1>5
  <2> QED
    BY <1>6, <2>1, SeqEqual
<1> QED
  BY <1>1, <1>7

\* A newline is passed over, and the step is done again.
LEMMA NewlineKeeps ==
  ASSUME IInv, status = "parsing", todo # <<>>, Head(todo)[1] \in {"skip", "expect"},
         cur = "newline", Consume(<<Head(todo)>>)
  PROVE  IInv'
<1>1. /\ todo' = <<Head(todo)>> \o Tail(todo) /\ UNCHANGED <<ignore_newlines, user_types, status>>
      /\ Advance(FALSE)
  BY DEF Consume, Then, Quietly
<1>2. IsSequence(todo)
  BY DEF IInv, Linked
<1>3. todo' = todo
  BY <1>1, <1>2, SameStack
<1>4. /\ ParserTypeOK' /\ TakesWhatFits' /\ EndStays'
      /\ prev' = cur /\ (AtEnd => AtEnd')
      /\ (failed => failed') /\ (panic_mode' => failed')
      /\ (~failed' => ~failed /\ opens' = Brackets)
  <2>1. ParserTypeOK /\ TakesWhatFits /\ ErrorsKnown /\ EndStays /\ FALSE \in BOOLEAN
    BY DEF IInv
  <2> QED
    BY <1>1, <2>1, AdvanceEffect
<1>5. Head(todo) = todo[1]
  <2>1. PICK s : s = todo
    OBVIOUS
  <2>2. Head(s) = s[1]
    BY <1>2, <2>1, Behead
  <2> QED
    BY <2>1, <2>2
<1>6. /\ Linked(todo)' /\ InFields(todo)' /\ ProgramLast(todo)'
      /\ FlagOff(todo, ignore_newlines)'
  BY <1>1, <1>3 DEF IInv
<1>7. ErrorsKnown' /\ Begun' /\ HeadFits'
  <2>1. ErrorsKnown'
    BY <1>3, <1>4 DEF IInv, ErrorsKnown
  <2>2. Begun'
    BY <1>3, <1>5 DEF IInv, Begun
  <2>3. HeadFits'
    BY <1>3, <1>5 DEF HeadFits, Ready
  <2> QED
    BY <2>1, <2>2, <2>3
<1>8. Balanced'
  <2>1. Brackets = opens
    BY DEF Brackets
  <2>2. ~failed => Closed(opens, todo)
    BY DEF IInv, Balanced, Unclosed, AtEnd
  <2> QED
    BY <1>3, <1>4, <2>1, <2>2 DEF Balanced
<1>9. Ended'
  BY <1>1 DEF Ended
<1> QED
  BY <1>4, <1>6, <1>7, <1>8, <1>9 DEF IInv

\* Newlines are skipped until there is none.
LEMMA SkipNewlinesKeeps ==
  ASSUME IInv, SkipNewlines
  PROVE  IInv'
<1>1. Runs("skip")
  BY Running DEF SkipNewlines
<1>2. /\ Head(todo) = Skip /\ Closes(Head(todo)) = "none" /\ Head(todo)[1] = "skip"
      /\ status = "parsing" /\ todo # <<>>
  BY <1>1 DEF Runs, IsStep, Closes
<1>3. CASE cur = "newline"
  <2>1. Consume(<<Head(todo)>>)
    BY <1>2, <1>3 DEF SkipNewlines, Try, Is
  <2> QED
    BY <1>2, <1>3, <2>1, NewlineKeeps
<1>4. CASE cur # "newline"
  <2>1. Go(<<>>)
    BY <1>4 DEF SkipNewlines, Try, Is
  <2> QED
    BY <1>1, <1>2, <2>1, Returns
<1> QED
  BY <1>3, <1>4

\* A step consumes a token and is done.
LEMMA DropsKeep ==
  ASSUME IInv, status = "parsing", todo # <<>>, Head(todo)[1] # "restore",
         Ready(<<>> \o Tail(todo), cur), Consume(<<>>), opens' = Brackets /\ ~failed /\ ~failed' => Balanced'
  PROVE  IInv'
<1>1. /\ todo' = <<>> \o Tail(todo) /\ UNCHANGED <<ignore_newlines, user_types, status>>
      /\ Advance(FALSE)
  BY DEF Consume, Then, Quietly
<1>2. /\ ParserTypeOK' /\ TakesWhatFits' /\ EndStays'
      /\ prev' = cur /\ (AtEnd => AtEnd')
      /\ (failed => failed') /\ (panic_mode' => failed')
      /\ (~failed' => ~failed /\ opens' = Brackets)
  <2>1. ParserTypeOK /\ TakesWhatFits /\ ErrorsKnown /\ EndStays /\ FALSE \in BOOLEAN
    BY DEF IInv
  <2> QED
    BY <1>1, <2>1, AdvanceEffect
<1>3. PICK steps : steps = <<>>
  OBVIOUS
<1>4. /\ Pushes(Head(todo), steps)
      /\ \A i \in DOMAIN steps : steps[i][1] # "restore" /\ (steps[i][1] = "resume" => failed')
  BY <1>3, NothingPushed, SmallSequences
<1>5. /\ Linked(todo)' /\ InFields(todo)' /\ ProgramLast(todo)'
      /\ FlagOff(todo, ignore_newlines)' /\ ErrorsKnown' /\ Begun'
  <2>1. /\ todo' = steps \o Tail(todo) /\ UNCHANGED ignore_newlines
        /\ (failed => failed') /\ (panic_mode' => failed')
    BY <1>1, <1>2, <1>3
  <2> QED
    BY <1>4, <2>1, StackKeeps
<1>6. HeadFits'
  BY <1>1, <1>2 DEF HeadFits
<1>7. Balanced'
  BY <1>2 DEF Balanced
<1>8. Ended'
  BY <1>1 DEF Ended
<1> QED
  BY <1>2, <1>5, <1>6, <1>7, <1>8 DEF IInv

\* Where a name is expected and found, it is what is taken next.
LEMMA NameTaken ==
  ASSUME IInv, todo # <<>>, Head(todo)[1] = "expect", cur \in Identifiers
  PROVE  Ready(<<>> \o Tail(todo), cur)
<1>1. PICK s, t, n : s = todo /\ t = <<>> \o Tail(s) /\ n = Len(s)
  OBVIOUS
<1>2. Linked(s) /\ IsSequence(s) /\ s # <<>>
  BY <1>1 DEF IInv, Linked
<1>3. /\ IsSequence(t) /\ DOMAIN t = 1..(n - 1) /\ n \in Nat \ {0} /\ DOMAIN s = 1..n
      /\ \A i \in 1..(n - 1) : t[i] = s[i + 1]
  BY <1>1, <1>2, Dropped
<1>4. Head(s) = s[1]
  BY <1>2, Behead
<1>5. SUFFICES ASSUME t # <<>>, t[1][1] = "take", t[1][2] # "unary" PROVE cur \in Fit(t[1][2])
  BY <1>1 DEF Ready
<1>6. 1 \in DOMAIN t
  BY <1>3, <1>5, Behead
<1>7. 1 \in 1..(n - 1) /\ 1 \in DOMAIN s /\ 1 + 1 \in DOMAIN s /\ 1 + 1 = 2
  BY <1>3, <1>6
<1>8. t[1] = s[2] /\ May(s[1], s[2])
  BY <1>2, <1>3, <1>7 DEF Linked
<1>9. t[1][2] \in {"name", "property"}
  BY <1>5, <1>8 DEF May
<1> QED
  BY <1>9, Roles

\* What is expected is found, newlines are passed over, anything else is an error.
LEMMA ExpectBecauseKeeps ==
  ASSUME IInv, ExpectBecause
  PROVE  IInv'
<1>1. Runs("expect")
  BY Running DEF ExpectBecause
<1>2. PICK s, kind : s = todo /\ kind = Arg
  OBVIOUS
<1>3. /\ status = "parsing" /\ todo # <<>> /\ Head(todo)[1] = "expect" /\ Head(todo)[2] = kind
      /\ Head(todo) = Expect(kind) /\ kind # "["
  BY <1>1, <1>2 DEF Runs, IsStep, Arg
<1>4. CASE cur = "newline"
  <2>1. Consume(<<Head(todo)>>)
    BY <1>2, <1>3, <1>4 DEF ExpectBecause
  <2> QED
    BY <1>3, <1>4, <2>1, NewlineKeeps
<1>5. CASE cur # "newline" /\ ~Is(Arg)
  <2>1. Fail(<<>>)
    BY <1>5 DEF ExpectBecause
  <2> QED
    BY <1>1, <2>1, Errs
<1>6. CASE cur # "newline" /\ Is(Arg)
  <2>1. Consume(<<>>)
    BY <1>6 DEF ExpectBecause
  <2>2. IF kind = "identifier" THEN cur \in Identifiers ELSE cur = kind
    BY <1>2, <1>6 DEF Is
  <2>3. Ready(<<>> \o Tail(todo), cur)
    BY <1>3, <2>2, NameTaken, NothingTaken
  <2>4. CASE cur \in Closers
    <3>1. kind = cur /\ kind \in {")", "]", "}"}
      BY <2>2, <2>4, NoBrackets DEF Closers
    <3>2. ~IsOpener(Head(todo)) /\ <<Closes(Head(todo)), cur>> \in Pairs /\ Closes(Head(todo)) # "none"
      BY <1>3, <3>1 DEF IsOpener, Closes, Pairs
    <3> QED
      BY <1>3, <2>1, <2>3, <2>4, <3>2, ClosingKeeps
  <2>5. CASE cur \notin Openers \cup Closers
    <3>1. kind \notin {"(", ")", "[", "]", "{", "}"}
      BY <2>2, <2>5 DEF Openers, Closers
    <3>2. ~IsOpener(Head(todo)) /\ Closes(Head(todo)) = "none"
      BY <1>3, <3>1 DEF IsOpener, Closes
    <3>3. ASSUME opens' = Brackets, ~failed, ~failed' PROVE Balanced'
      <4>1. opens' = opens
        BY <2>5, <3>3 DEF Brackets, Openers, Closers
      <4>2. PICK steps : steps = <<>>
        OBVIOUS
      <4>3. Pushes(Head(todo), steps) /\ Owes(steps, Closes(Head(todo)))
        BY <3>2, <4>2, NothingPushed
      <4>4. todo' = steps \o Tail(todo) /\ (AtEnd => AtEnd')
        <5>1. /\ ParserTypeOK /\ TakesWhatFits /\ ErrorsKnown /\ EndStays /\ FALSE \in BOOLEAN
              /\ Advance(FALSE) /\ UNCHANGED <<ignore_newlines, user_types, status>>
          BY <2>1 DEF IInv, Consume, Quietly
        <5>2. AtEnd => AtEnd'
          BY <5>1, AdvanceEffect
        <5> QED
          BY <2>1, <4>2, <5>2 DEF Consume, Then
      <4>5. ~failed' => ~failed /\ opens' = opens
        BY <3>3, <4>1
      <4> QED
        BY <1>3, <3>2, <4>3, <4>4, <4>5, BalanceKept
    <3> QED
      BY <1>3, <2>1, <2>3, <3>3, DropsKeep
  <2>6. CASE cur \in Openers
    <3>1. kind = cur /\ kind \in {"(", "{"}
      BY <1>3, <2>2, <2>6, NoBrackets DEF Openers
    <3>2. IsOpener(Head(todo))
      BY <1>3, <3>1 DEF IsOpener
    <3>3. ASSUME opens' = Brackets, ~failed, ~failed' PROVE Balanced'
      <4>1. Linked(s) /\ s # <<>> /\ IsOpener(Head(s)) /\ IsSequence(s)
        BY <1>2, <1>3, <3>2 DEF IInv, Linked
      <4>2. PICK o : o = opens
        OBVIOUS
      <4>3. Closed(o, s)
        BY <1>2, <2>6, <3>3, <4>2 DEF IInv, Balanced, Unclosed, AtEnd, Openers
      <4>4. 2 \in DOMAIN s /\ Closed(Append(o, Closes(s[2])), Tail(s))
        BY <4>1, <4>3, ClosedBegun
      <4>5. /\ Head(s) = s[1] /\ 1 \in DOMAIN s /\ 1 + 1 = 2 /\ DOMAIN s = 1..Len(s) /\ Len(s) \in Nat
        BY <4>1, Behead, Places
      <4>6. May(s[1], s[2]) /\ IsStep(s[2]) /\ Len(s) > 1
        BY <4>1, <4>4, <4>5 DEF Linked
      <4>7. Opened = Closes(s[2])
        <5>1. s[1][2] = kind /\ IsOpener(s[1])
          BY <1>2, <1>3, <4>1, <4>5
        <5>2. CASE kind = "("
          <6>1. Closes(s[2]) = "("
            BY <4>6, <5>1, <5>2 DEF May, Closes
          <6> QED
            BY <3>1, <5>2, <6>1 DEF Opened
        <5>3. CASE kind = "{" /\ s[2][1] = "block"
          <6>1. Closes(s[2]) = "{"
            BY <5>3 DEF Closes
          <6>2. s[2] # Do("fields")
            <7>1. Do("fields")[1] = "fields"
              BY StepParts
            <7> SUFFICES ASSUME s[2] = Do("fields") PROVE FALSE
              OBVIOUS
            <7>2. s[2][1] = "fields"
              BY <7>1
            <7> QED
              BY <5>3, <7>2
          <6> QED
            BY <1>2, <3>1, <5>3, <6>1, <6>2 DEF Opened
        <5>4. CASE kind = "{" /\ s[2][1] = "fields"
          <6>1. Closes(s[2]) = "struct"
            BY <5>4 DEF Closes
          <6>2. s[2] = Do("fields")
            BY <4>6, <5>4 DEF IsStep
          <6> QED
            BY <1>2, <3>1, <4>6, <5>4, <6>1, <6>2 DEF Opened
        <5>5. kind = "{" => s[2][1] \in {"block", "fields"}
          BY <4>6, <5>1 DEF May
        <5> QED
          BY <3>1, <5>2, <5>3, <5>4, <5>5
      <4>8. opens' = Append(o, Closes(s[2]))
        BY <2>6, <3>3, <4>2, <4>7 DEF Brackets, Openers
      <4>9. todo' = Tail(s)
        <5>1. Tail(s) \in Seq(Range(Tail(s)))
          BY <4>1, Behead DEF IsSequence
        <5>2. PICK r : r = Tail(s)
          OBVIOUS
        <5>3. <<>> \o r = r
          BY <5>1, <5>2
        <5> QED
          BY <1>2, <2>1, <5>2, <5>3 DEF Consume, Then
      <4> QED
        BY <4>4, <4>8, <4>9 DEF Balanced
    <3> QED
      BY <1>3, <2>1, <2>3, <3>3, DropsKeep
  <2> QED
    BY <2>4, <2>5, <2>6
<1> QED
  BY <1>4, <1>5, <1>6

\* A sequence is its last element behind the others.
LEMMA Rejoined ==
  ASSUME NEW s, IsSequence(s), s # <<>>
  PROVE  s = Append(Front(s), Last(s))
<1>1. PICK S, f, t, n : S = Range(s) /\ f = Front(s) /\ t = Append(f, s[n]) /\ n = Len(s)
  OBVIOUS
<1>2. /\ n \in Nat \ {0} /\ IsSequence(f) /\ Len(f) = n - 1 /\ DOMAIN s = 1..n
      /\ \A i \in 1..(n - 1) : f[i] = s[i]
  BY <1>1, Popped, Places
<1>3. /\ Len(t) = n - 1 + 1 /\ IsSequence(t)
      /\ \A i \in 1..(n - 1) : t[i] = f[i]
      /\ t[n - 1 + 1] = s[n]
  BY <1>1, <1>2, Appended
<1>4. Len(t) = n /\ \A i \in 1..n : s[i] = t[i]
  <2>1. n - 1 + 1 = n /\ \A i \in 1..n : i = n \/ i \in 1..(n - 1)
    BY <1>2
  <2> QED
    BY <1>2, <1>3, <2>1
<1>5. t \in Seq(S)
  <2>1. Range(t) = S
    <3>1. DOMAIN t = 1..n
      BY <1>3, <1>4, Places
    <3> QED
      BY <1>1, <1>2, <1>4, <3>1 DEF Range
  <2> QED
    BY <1>3, <2>1 DEF IsSequence
<1>6. s \in Seq(S)
  BY <1>1 DEF IsSequence
<1>7. s = t
  BY <1>1, <1>4, <1>5, <1>6, SeqEqual
<1> QED
  BY <1>1, <1>7 DEF Last

\* Nothing owes the brace of a struct but its fields.
LEMMA FreeOfStructs ==
  ASSUME NEW t, IsSequence(t), \A i \in DOMAIN t : t[i][1] \notin {"field", "fields"}, NEW o, Closed(o, t)
  PROVE  \A k \in DOMAIN o : o[k] # "struct"
<1>1. PICK d, n : d = Debts(t) /\ n = Len(t)
  OBVIOUS
<1>2. n \in Nat /\ DOMAIN t = 1..n
  BY <1>1, Places
<1>3. PICK at : \A k \in DOMAIN o : at[k] \in DOMAIN d /\ d[at[k]] = o[k]
  BY <1>1 DEF Closed, Enumerates
<1>4. \A e \in DOMAIN d : (\E i \in Owed(t) : e = FromEnd(t, i)) /\ d[e] = Closes(t[FromEnd(t, e)])
  BY <1>1 DEF Debts
<1>5. \A i \in Owed(t) : i \in DOMAIN t
  BY DEF Owed
<1>6. \A i \in 1..n : FromEnd(t, FromEnd(t, i)) = i
  BY <1>1, <1>2 DEF FromEnd
<1>7. \A e \in DOMAIN d : FromEnd(t, e) \in DOMAIN t
  BY <1>2, <1>4, <1>5, <1>6
<1>8. \A i \in DOMAIN t : Closes(t[i]) # "struct"
  BY DEF Closes
<1> QED
  BY <1>3, <1>4, <1>7, <1>8

\* At the end of the source the brace of a struct is not asked for.
LEMMA FieldEnds ==
  ASSUME IInv, Field, AtEnd
  PROVE  IInv'
<1>1. Runs("field") /\ Go(<<>>)
  BY Running DEF Field
<1>2. Closes(Head(todo)) = "struct" /\ status = "parsing" /\ Head(todo)[1] = "field" /\ todo # <<>>
      /\ ~IsOpener(Head(todo))
  BY <1>1 DEF Runs, Closes, IsOpener
<1>3. PICK steps : steps = <<>>
  OBVIOUS
<1>4. /\ Pushes(Head(todo), steps) /\ Owes(steps, "none")
      /\ \A i \in DOMAIN steps : steps[i][1] # "restore" /\ (steps[i][1] = "resume" => failed')
  BY <1>3, NothingPushed, SmallSequences
<1>5. /\ todo' = steps \o Tail(todo) /\ todo' = <<>> \o Tail(todo)
      /\ UNCHANGED <<ignore_newlines, user_types, status, opens, odd>>
      /\ UNCHANGED <<cur, prev, left, tokens, panic_mode, failed>>
  BY <1>1, <1>3 DEF Go, Then, Quietly, source, errors
<1>6. /\ Linked(todo)' /\ InFields(todo)' /\ ProgramLast(todo)'
      /\ FlagOff(todo, ignore_newlines)' /\ ErrorsKnown' /\ Begun'
  <2>1. (panic_mode' => failed') /\ (failed => failed') /\ UNCHANGED ignore_newlines
        /\ Head(todo)[1] # "restore"
    BY <1>2, <1>5 DEF IInv, ErrorsKnown
  <2> QED
    BY <1>2, <1>4, <1>5, <2>1, StackKeeps
<1>7. HeadFits'
  <2>1. Ready(steps, prev')
    BY <1>3 DEF Ready
  <2>2. Head(todo)[1] # "expect" /\ todo' = steps \o Tail(todo)
    BY <1>2, <1>5
  <2> QED
    BY <1>2, <1>4, <2>1, <2>2, TopFits
<1>8. ParserTypeOK' /\ TakesWhatFits' /\ EndStays'
  <2>1. ParserTypeOK'
    BY <1>5 DEF IInv, ParserTypeOK, Kinds
  <2>2. TakesWhatFits' /\ EndStays'
    BY <1>5 DEF IInv, TakesWhatFits, EndStays, AtEnd
  <2> QED
    BY <2>1, <2>2
<1>9. Ended'
  BY <1>2, <1>5 DEF Ended
<1>10. Balanced'
  <2>1. PICK s, t, p, n : s = todo /\ t = <<>> \o Tail(s) /\ p = opens /\ n = Len(s)
    OBVIOUS
  <2>2. /\ Linked(s) /\ InFields(s) /\ IsSequence(s) /\ s # <<>>
        /\ Closes(Head(s)) = "struct" /\ ~IsOpener(Head(s)) /\ Head(s)[1] = "field"
    BY <1>2, <2>1 DEF IInv, Linked
  <2>3. SUFFICES ASSUME ~failed PROVE Unclosed'
    BY <1>5 DEF Balanced
  <2>4. CASE Closed(p, s)
    <3>1. p # <<>> /\ Last(p) = "struct"
      <4>1. Closes(Head(s)) # "none"
        BY <2>2
      <4> QED
        BY <2>2, <2>4, <4>1, LastIsOwed
    <3>2. PICK o : o = Front(p)
      OBVIOUS
    <3>3. Closed(o, t)
      <4>1. Closed(Front(p), steps \o Tail(s))
        <5>1. Pushes(Head(s), steps) /\ Closes(Head(s)) # "none"
          BY <1>4, <2>1, <2>2
        <5> QED
          BY <1>4, <2>2, <2>4, <5>1, ClosedClosed
      <4> QED
        BY <1>3, <2>1, <3>2, <4>1
    <3>4. IsSequence(t) /\ \A i \in DOMAIN t : t[i][1] \notin {"field", "fields"}
      <4>1. /\ IsSequence(t) /\ DOMAIN t = 1..(n - 1) /\ n \in Nat \ {0} /\ DOMAIN s = 1..n
            /\ \A i \in 1..(n - 1) : t[i] = s[i + 1]
        BY <2>1, <2>2, Dropped
      <4>2. Head(s) = s[1]
        BY <2>2, Behead
      <4>3. s[1][1] \notin FieldNames
        BY <2>2, <4>2 DEF FieldNames
      <4>4. \A i \in 1..(n - 1) : 1 \in DOMAIN s /\ i + 1 \in DOMAIN s /\ 1 < i + 1
        BY <4>1
      <4>5. \A i \in 1..(n - 1) : s[i + 1][1] \notin {"field", "fields"}
        BY <2>2, <4>3, <4>4 DEF InFields
      <4> QED
        BY <4>1, <4>5
    <3>5. \A k \in DOMAIN o : o[k] # "struct"
      BY <3>3, <3>4, FreeOfStructs
    <3>6. p = Append(o, "struct")
      <4>1. IsSequence(p)
        BY <2>4 DEF Closed, Enumerates
      <4> QED
        BY <3>1, <3>2, <4>1, Rejoined
    <3> QED
      BY <1>5, <2>1, <3>3, <3>5, <3>6 DEF Unclosed, AtEnd
  <2>5. CASE ~Closed(p, s)
    <3>1. PICK o : Closed(o, s) /\ \A k \in DOMAIN o : o[k] # "struct"
      BY <2>1, <2>3, <2>5 DEF IInv, Balanced, Unclosed
    <3>2. o # <<>> /\ Last(o) = "struct"
      <4>1. Closes(Head(s)) # "none"
        BY <2>2
      <4> QED
        BY <2>2, <3>1, <4>1, LastIsOwed
    <3>3. Len(o) \in DOMAIN o /\ Last(o) = o[Len(o)]
      <4>1. IsSequence(o)
        BY <3>1 DEF Closed, Enumerates
      <4> QED
        BY <3>2, <4>1, Popped, Places DEF Last
    <3> QED
      BY <3>1, <3>2, <3>3
  <2> QED
    BY <2>4, <2>5
<1> QED
  BY <1>6, <1>7, <1>8, <1>9, <1>10 DEF IInv

\* A field is followed by the other fields.
LEMMA FieldGoesOn ==
  ASSUME IInv, Field, ~AtEnd
  PROVE  IInv'
<1>1. Runs("field") /\ Go((ExpectType \o ExpectBinding) \o <<Skip, Do("fields")>>)
  BY Running DEF Field
<1>2. Closes(Head(todo)) = "struct" /\ status = "parsing" /\ Head(todo)[1] = "field" /\ todo # <<>>
  BY <1>1 DEF Runs, Closes
<1>3. PICK h, a, b, s, t, u, m : /\ h = Head(todo) /\ a = Skip /\ b = Do("fields")
                              /\ s = ExpectType \o ExpectBinding /\ t = <<a, b>>
                              /\ u = s \o t /\ m = Len(s)
  OBVIOUS
<1>4. a[1] = "skip" /\ b[1] = "fields" /\ h[1] = "field" /\ Go(u)
  BY <1>1, <1>2, <1>3, StepParts
<1>5. IsSequence(t) /\ DOMAIN t = 1..2 /\ Len(t) = 2 /\ t[1] = a /\ t[2] = b
  <2>1. t = <<a, b>>
    BY <1>3
  <2> QED
    BY <2>1, Tuple2
<1>6. Row(a, s) /\ Owes(s, "none") /\ s # <<>> /\ s[1] = a /\ Quiet(s[m])
  <2>1. Leads(a, s, a)
    BY <1>3, FieldLeads
  <2> QED
    BY <1>3, <2>1 DEF Leads, Calm
<1>7. a[1] \in FieldNames /\ a[1] \notin StatementNames
  BY <1>4 DEF FieldNames, StatementNames
<1>8. /\ IsSequence(s) /\ m \in Nat \ {0} /\ DOMAIN s = 1..m
      /\ \A i \in 1..m : /\ IsStep(s[i]) /\ s[i][1] \in FieldNames
                         /\ (IsOpener(s[i]) => i + 1 \in 1..m)
                         /\ (i + 1 \in 1..m => May(s[i], s[i + 1]))
  <2>1. IsSequence(s) /\ m \in Nat \ {0} /\ DOMAIN s = 1..m
    BY <1>3, <1>6, Places, Popped DEF Row
  <2> QED
    BY <1>6, <1>7, <2>1 DEF Row, Fits
<1>9. /\ IsSequence(u) /\ Len(u) = m + 2 /\ DOMAIN u = 1..(m + 2)
      /\ \A i \in 1..m : u[i] = s[i]
      /\ u[m + 1] = a /\ u[m + 2] = b
  <2>1. 1 \in 1..2 /\ 2 \in 1..2
    OBVIOUS
  <2> QED
    BY <1>3, <1>5, <1>8, <2>1, Joined
<1>10. \A i \in DOMAIN u : i \in 1..m \/ i = m + 1 \/ i = m + 2
  BY <1>8, <1>9
<1>11. IsStep(a) /\ IsStep(b) /\ Quiet(a) /\ ~IsOpener(b) /\ Closes(b) = "struct"
  BY <1>3, <1>4 DEF IsStep, IsOpener, Closes, Quiet
<1>12. May(a, b) /\ May(s[m], a)
  <2>1. May(a, b)
    BY <1>4, <1>11 DEF May, Quiet
  <2>2. a[1] \notin {"take", "fields"}
    BY <1>4
  <2> QED
    BY <1>6, <2>1, <2>2, Behind
<1>13. Linked(u)
  <2>1. ASSUME NEW i \in DOMAIN u
        PROVE  /\ IsStep(u[i])
               /\ IsOpener(u[i]) => i + 1 \in DOMAIN u
               /\ i + 1 \in DOMAIN u => May(u[i], u[i + 1])
    <3>1. CASE i \in 1..m /\ i # m
      <4>1. i + 1 \in 1..m /\ i + 1 \in DOMAIN u
        BY <1>8, <1>9, <3>1
      <4> QED
        BY <1>8, <1>9, <3>1, <4>1
    <3>2. CASE i = m
      <4>1. i \in 1..m /\ i + 1 \in DOMAIN u
        BY <1>8, <1>9, <3>2
      <4> QED
        BY <1>8, <1>9, <1>12, <3>2, <4>1
    <3>3. CASE i = m + 1
      <4>1. i + 1 = m + 2 /\ i + 1 \in DOMAIN u
        BY <1>8, <1>9, <3>3
      <4> QED
        BY <1>9, <1>11, <1>12, <3>3, <4>1
    <3>4. CASE i = m + 2
      <4>1. i + 1 \notin DOMAIN u
        BY <1>8, <1>9, <3>4
      <4> QED
        BY <1>9, <1>11, <3>4, <4>1
    <3> QED
      BY <1>10, <3>1, <3>2, <3>3, <3>4
  <2> QED
    BY <1>9, <2>1 DEF Linked
<1>14. \A i \in DOMAIN u : i # m + 2 => u[i][1] \in FieldNames
  BY <1>4, <1>7, <1>8, <1>9, <1>10
<1>15. InFields(u)
  <2>1. \A j \in DOMAIN u : u[j][1] \in {"field", "fields"} => j = m + 2
    BY <1>14 DEF FieldNames
  <2>2. m + 2 \in Nat /\ DOMAIN u \subseteq Nat
    BY <1>8, <1>9
  <2> QED
    BY <1>14, <2>1, <2>2 DEF InFields
<1>16. \A i \in DOMAIN u : u[i][1] \in FieldNames \cup {"fields"}
  BY <1>4, <1>9, <1>14
<1>17. Ordinary(h, u)
  <2>1. h[1] \notin FieldNames /\ h[1] \notin {"skip", "expect", "restore"}
    BY <1>4 DEF FieldNames
  <2>2. \A i \in DOMAIN u : u[i][1] \notin StatementNames \cup {"program", "advance", "restore", "resume"}
    BY <1>16 DEF FieldNames, StatementNames
  <2>3. Pushes(h, u)
    BY <1>13, <1>15, <2>1, <2>2 DEF Pushes
  <2> QED
    BY <2>1, <2>2, <2>3 DEF Ordinary
<1>18. Owes(u, "struct")
  <2>1. m + 2 \in Owed(u)
    <3>1. (m + 2) - 1 = m + 1 /\ m + 2 \in DOMAIN u
      BY <1>8, <1>9
    <3> QED
      BY <1>9, <1>11, <3>1 DEF Owed, Quiet
  <2>2. m + 1 \notin Owed(u)
    BY <1>9, <1>11 DEF Owed, Quiet
  <2>3. \A i \in 1..m : i \notin Owed(u)
    <3>1. \A i \in 1..m : i \notin Owed(s)
      BY <1>6 DEF Owes
    <3>2. \A i \in 1..m : i \in DOMAIN s /\ (i # 1 => i - 1 \in 1..m)
      BY <1>8
    <3> QED
      BY <1>9, <3>1, <3>2 DEF Owed
  <2>4. Owed(u) = {m + 2}
    <3>1. Owed(u) \subseteq DOMAIN u
      BY DEF Owed
    <3> QED
      BY <1>10, <2>1, <2>2, <2>3, <3>1
  <2>5. m + 2 \in DOMAIN u
    BY <1>8, <1>9
  <2> QED
    BY <1>9, <1>11, <2>4, <2>5 DEF Owes
<1>19. Ordinary(Head(todo), u) /\ Owes(u, Closes(Head(todo))) /\ u[1][1] # "take"
  <2>1. 1 \in 1..m
    BY <1>8
  <2>2. u[1] = a
    BY <1>6, <1>9, <2>1
  <2> QED
    BY <1>2, <1>3, <1>4, <1>17, <1>18, <2>2
<1> QED
  BY <1>2, <1>4, <1>19, GoKeeps

\* A field is parsed, or the source has ended.
LEMMA FieldKeeps ==
  ASSUME IInv, Field
  PROVE  IInv'
BY FieldEnds, FieldGoesOn

\* The flag is put aside below a method, and brought back above what was below it.
LEMMA FlagSaved ==
  ASSUME NEW s, IsSequence(s), s # <<>>, NEW flag, FlagOff(s, flag),
         Head(s)[1] \notin StatementNames \cup {"restore"},
         NEW steps, IsSequence(steps), Len(steps) = 3, steps[3] = <<"restore", flag>>,
         \A i \in DOMAIN steps : steps[i][1] \notin StatementNames, NEW other
  PROVE  FlagOff(steps \o Tail(s), other)
<1>1. PICK t, n, h : t = steps \o Tail(s) /\ n = Len(s) /\ h = Head(s)
  OBVIOUS
<1>2. /\ DOMAIN t = 1..(3 + n - 1) /\ n \in Nat \ {0}
      /\ \A i \in 1..3 : t[i] = steps[i]
      /\ \A i \in 2..n : t[3 + i - 1] = s[i]
      /\ \A i \in DOMAIN t : i \notin 1..3 => \E j \in 2..n : i = 3 + j - 1
      /\ h = s[1] /\ DOMAIN s = 1..n /\ DOMAIN steps = 1..3
  <2>1. PICK m : m = Len(steps)
    OBVIOUS
  <2>2. /\ Len(t) = m + n - 1 /\ DOMAIN t = 1..Len(t) /\ n \in Nat \ {0}
        /\ \A i \in 1..m : t[i] = steps[i]
        /\ \A i \in 2..n : t[m + i - 1] = s[i]
        /\ \A i \in DOMAIN t : i \notin 1..m => \E j \in 2..n : i = m + j - 1
        /\ h = s[1] /\ DOMAIN s = 1..n /\ DOMAIN steps = 1..m
    <3>1. IsSequence(s) /\ s # <<>> /\ IsSequence(steps)
      OBVIOUS
    <3> QED
      BY ONLY <1>1, <2>1, <3>1, Rewritten
  <2>3. m = 3
    BY <2>1
  <2> QED
    BY <2>2, <2>3
<1> SUFFICES ASSUME NEW i \in DOMAIN t, t[i][1] \in StatementNames
             PROVE  /\ ~NoRestore(t, 1, i - 1)
                    /\ \A j \in 1..(i - 1) :
                          t[j][1] = "restore" /\ NoRestore(t, j + 1, i - 1) => t[j][2] = FALSE
  BY <1>1 DEF FlagOff
<1>3. i \notin 1..3
  BY <1>2
<1>4. PICK a \in 2..n : i = 3 + a - 1
  BY <1>2, <1>3
<1>5. /\ a \in DOMAIN s /\ s[a][1] \in StatementNames
      /\ 3 \in 1..(i - 1) /\ t[3][1] = "restore" /\ t[3][2] = flag
  <2>1. 3 \in 1..3 /\ <<"restore", flag>>[1] = "restore" /\ <<"restore", flag>>[2] = flag
    OBVIOUS
  <2> QED
    BY <1>2, <1>4, <2>1
<1>6. ~NoRestore(t, 1, i - 1)
  BY <1>5 DEF NoRestore
<1>7. ASSUME NEW j \in 1..(i - 1), t[j][1] = "restore", NoRestore(t, j + 1, i - 1)
      PROVE  t[j][2] = FALSE
  <2>1. j \notin 1..2
    <3>1. j \in 1..2 => 3 \in (j + 1)..(i - 1)
      BY <1>4
    <3> QED
      BY <1>5, <1>7, <3>1 DEF NoRestore
  <2>2. CASE j = 3
    <3>1. \A k \in 2..(a - 1) : k \in 2..n /\ 3 + k - 1 \in (j + 1)..(i - 1)
      BY <1>2, <1>4, <2>2
    <3>2. \A k \in 2..(a - 1) : s[k][1] # "restore"
      BY <1>2, <1>7, <3>1 DEF NoRestore
    <3>3. \A k \in 1..(a - 1) : k = 1 \/ k \in 2..(a - 1)
      BY <1>4
    <3>4. NoRestore(s, 1, a - 1)
      BY <1>1, <1>2, <3>2, <3>3 DEF NoRestore
    <3>5. flag = FALSE
      BY <1>5, <3>4 DEF FlagOff
    <3> QED
      BY <1>5, <2>2, <3>5
  <2>3. CASE j # 3
    <3>1. j \notin 1..3 /\ j \in 1..(3 + n - 1)
      BY <1>2, <1>4, <2>1, <2>3
    <3>2. PICK b \in 2..n : j = 3 + b - 1
      BY <1>2, <3>1
    <3>3. b \in 1..(a - 1) /\ t[j] = s[b]
      BY <1>2, <1>4, <3>2
    <3>4. \A k \in (b + 1)..(a - 1) : k \in 2..n /\ 3 + k - 1 \in (j + 1)..(i - 1)
      BY <1>2, <1>4, <3>2
    <3>5. NoRestore(s, b + 1, a - 1)
      BY <1>2, <1>7, <3>4 DEF NoRestore
    <3> QED
      BY <1>5, <1>7, <3>3, <3>5 DEF FlagOff
  <2> QED
    BY <2>2, <2>3
<1> QED
  BY <1>6, <1>7

\* The setting that was put aside is brought back.
LEMMA FlagRestored ==
  ASSUME NEW s, IsSequence(s), s # <<>>, NEW flag, FlagOff(s, flag), Head(s)[1] = "restore"
  PROVE  FlagOff(<<>> \o Tail(s), Head(s)[2])
<1>1. PICK t, n, h : t = <<>> \o Tail(s) /\ n = Len(s) /\ h = Head(s)
  OBVIOUS
<1>2. /\ DOMAIN t = 1..(n - 1) /\ n \in Nat \ {0} /\ DOMAIN s = 1..n
      /\ \A i \in 1..(n - 1) : t[i] = s[i + 1]
      /\ h = s[1]
  BY <1>1, Dropped, Behead
<1> SUFFICES ASSUME NEW i \in 1..(n - 1), t[i][1] \in StatementNames
             PROVE  /\ NoRestore(t, 1, i - 1) => h[2] = FALSE
                    /\ \A j \in 1..(i - 1) :
                          t[j][1] = "restore" /\ NoRestore(t, j + 1, i - 1) => t[j][2] = FALSE
  BY <1>1, <1>2 DEF FlagOff
<1>3. i + 1 \in DOMAIN s /\ s[i + 1][1] \in StatementNames /\ 1 \in 1..((i + 1) - 1)
  BY <1>2
<1>4. ASSUME NEW j \in 0..(i - 1), NoRestore(t, j + 1, i - 1)
      PROVE  NoRestore(s, (j + 1) + 1, (i + 1) - 1)
  <2>1. \A k \in ((j + 1) + 1)..((i + 1) - 1) :
          k - 1 \in (j + 1)..(i - 1) /\ k - 1 \in 1..(n - 1) /\ (k - 1) + 1 = k
    BY <1>2
  <2>2. \A k \in ((j + 1) + 1)..((i + 1) - 1) : t[k - 1] = s[k]
    BY <1>2, <2>1
  <2> QED
    BY <1>4, <2>1, <2>2 DEF NoRestore
<1>5. ASSUME NoRestore(t, 1, i - 1) PROVE h[2] = FALSE
  <2>1. 0 \in 0..(i - 1) /\ 0 + 1 = 1
    BY <1>2
  <2>2. NoRestore(s, 1 + 1, (i + 1) - 1)
    BY <1>4, <1>5, <2>1
  <2>3. s[1][1] = "restore"
    BY <1>1, <1>2
  <2> QED
    BY <1>2, <1>3, <2>2, <2>3 DEF FlagOff
<1>6. ASSUME NEW j \in 1..(i - 1), t[j][1] = "restore", NoRestore(t, j + 1, i - 1)
      PROVE  t[j][2] = FALSE
  <2>1. j \in 0..(i - 1) /\ j \in 1..(n - 1) /\ j + 1 \in 1..((i + 1) - 1)
    BY <1>2
  <2>2. NoRestore(s, (j + 1) + 1, (i + 1) - 1)
    BY <1>4, <1>6, <2>1
  <2>3. t[j] = s[j + 1]
    BY <1>2, <2>1
  <2> QED
    BY <1>3, <1>6, <2>1, <2>2, <2>3 DEF FlagOff
<1> QED
  BY <1>5, <1>6

\* The flag changes, and the steps are told to bring it back.
LEMMA FlagChanges ==
  ASSUME IInv, status = "parsing", todo # <<>>, NEW steps, Pushes(Head(todo), steps),
         Head(todo)[1] \in {"assign", "restore"}, Owes(steps, "none"),
         \A i \in DOMAIN steps : steps[i][1] \notin {"take", "resume"},
         FlagOff(steps \o Tail(todo), ignore_newlines'), ignore_newlines' \in BOOLEAN, Then(steps),
         UNCHANGED <<source, errors, user_types, status, opens, odd>>
  PROVE  IInv'
<1>1. /\ todo' = steps \o Tail(todo)
      /\ UNCHANGED <<user_types, status, opens, odd, cur, prev, left, tokens, panic_mode, failed>>
  BY DEF Then, source, errors
<1>2. PICK s, t : s = todo /\ t = steps \o Tail(s)
  OBVIOUS
<1>3. /\ Linked(s) /\ InFields(s) /\ ProgramLast(s) /\ IsSequence(s) /\ s # <<>> /\ IsSequence(steps)
      /\ \A i \in DOMAIN s : s[i][1] = "resume" => failed
      /\ \A i \in DOMAIN s : s[i][1] = "advance" => i = 1
  BY <1>2 DEF IInv, ErrorsKnown, Begun, Linked, Pushes
<1>4. Linked(t) /\ InFields(t) /\ ProgramLast(t)
  BY <1>2, <1>3, LinkedPushed, PlacesPushed
<1>5. FlagOff(todo, ignore_newlines)'
  BY <1>1
<1>6. \A i \in DOMAIN t : \/ \E j \in DOMAIN steps : t[i] = steps[j]
                         \/ \E j \in DOMAIN s : j # 1 /\ t[i] = s[j]
  BY <1>2, <1>3, Elements
<1>7. todo' = t
  BY <1>1, <1>2
<1>8. ErrorsKnown'
  <2>1. \A i \in DOMAIN t : t[i][1] = "resume" => failed
    BY <1>3, <1>6
  <2>2. panic_mode => failed
    BY DEF IInv, ErrorsKnown
  <2> QED
    BY <1>1, <1>7, <2>1, <2>2 DEF ErrorsKnown
<1>9. Begun'
  <2>1. \A j \in DOMAIN steps : steps[j][1] # "advance"
    BY DEF Pushes
  <2>2. \A i \in DOMAIN t : t[i][1] # "advance"
    BY <1>3, <1>6, <2>1
  <2> QED
    BY <1>7, <2>2 DEF Begun
<1>10. HeadFits'
  <2>1. Ready(steps, prev')
    <3>1. steps # <<>> => steps[1][1] # "take"
      BY <1>3, Behead
    <3> QED
      BY <3>1 DEF Ready
  <2>2. Head(todo)[1] # "expect"
    OBVIOUS
  <2> QED
    BY <1>1, <2>1, <2>2, TopFits
<1>11. Balanced'
  <2>1. ~IsOpener(Head(todo)) /\ Closes(Head(todo)) = "none"
    BY DEF IsOpener, Closes
  <2>2. (AtEnd => AtEnd') /\ (~failed' => ~failed /\ opens' = opens) /\ Owes(steps, Closes(Head(todo)))
    BY <1>1, <2>1 DEF AtEnd
  <2> QED
    BY <1>1, <2>1, <2>2, BalanceKept
<1>12. ParserTypeOK'
  BY <1>1 DEF IInv, ParserTypeOK, Kinds
<1>13. TakesWhatFits' /\ EndStays' /\ Ended'
  BY <1>1 DEF IInv, TakesWhatFits, EndStays, AtEnd, Ended
<1>14. Linked(todo)' /\ InFields(todo)' /\ ProgramLast(todo)'
  BY <1>4, <1>7
<1> QED
  BY <1>5, <1>8, <1>9, <1>10, <1>11, <1>12, <1>13, <1>14 DEF IInv

\* An expression begins, under a setting of its own.
LEMMA AssignKeeps ==
  ASSUME IInv, Assign
  PROVE  IInv'
<1>1. Runs("assign") /\ ignore_newlines' = Arg
      /\ Then(<<Do("ternary"), Do("assignment"), <<"restore", ignore_newlines>> >>)
      /\ UNCHANGED <<source, errors, user_types, status, opens, odd>>
  BY Running DEF Assign
<1>2. status = "parsing" /\ Head(todo)[1] = "assign" /\ todo # <<>> /\ Arg \in BOOLEAN
  BY <1>1 DEF Runs, IsStep, Arg
<1>3. PICK h, f, a, b, c, s : /\ h = Head(todo) /\ f = ignore_newlines
                           /\ a = Do("ternary") /\ b = Do("assignment")
                           /\ c = <<"restore", f>> /\ s = <<a, b, c>>
  OBVIOUS
<1>4. a[1] = "ternary" /\ b[1] = "assignment" /\ c[1] = "restore" /\ c[2] = f /\ h[1] = "assign"
  BY <1>2, <1>3, StepParts
<1>5. IsSequence(s) /\ DOMAIN s = 1..3 /\ Len(s) = 3 /\ s[1] = a /\ s[2] = b /\ s[3] = c
  <2>1. s = <<a, b, c>>
    BY <1>3
  <2> QED
    BY <2>1, Tuple3
<1>6. \A i \in DOMAIN s : i = 1 \/ i = 2 \/ i = 3
  BY <1>5
<1>7. IsStep(a) /\ IsStep(b) /\ IsStep(c)
  <2>1. f \in BOOLEAN
    BY <1>3 DEF IInv, ParserTypeOK
  <2> QED
    BY <1>4, <2>1 DEF IsStep
<1>8. \A i \in DOMAIN s : s[i][1] \in {"ternary", "assignment", "restore"}
  BY <1>4, <1>5, <1>6
<1>9. \A i \in DOMAIN s : ~IsOpener(s[i]) /\ Closes(s[i]) = "none"
  BY <1>8 DEF IsOpener, Closes
<1>10. Linked(s)
  <2>1. \A i \in DOMAIN s : IsStep(s[i])
    BY <1>5, <1>6, <1>7
  <2>2. \A i \in DOMAIN s : i + 1 \in DOMAIN s => May(s[i], s[i + 1])
    BY <1>8, <1>9 DEF May
  <2> QED
    BY <1>5, <1>9, <2>1, <2>2 DEF Linked
<1>11. Pushes(h, s)
  <2>1. InFields(s)
    BY <1>8 DEF InFields
  <2>2. h[1] \notin FieldNames
    BY <1>4 DEF FieldNames
  <2> QED
    BY <1>4, <1>8, <1>10, <2>1, <2>2 DEF Pushes, StatementNames
<1>12. Owes(s, "none")
  BY <1>9, OwesNothing
<1>13. PICK r : r = todo
  OBVIOUS
<1>14. FlagOff(s \o Tail(r), ignore_newlines')
  <2>1. IsSequence(r) /\ r # <<>> /\ FlagOff(r, f)
    BY <1>2, <1>3, <1>13 DEF IInv, Linked
  <2>2. Head(r)[1] \notin StatementNames \cup {"restore"}
    BY <1>2, <1>13 DEF StatementNames
  <2>3. \A i \in DOMAIN s : s[i][1] \notin StatementNames
    BY <1>8 DEF StatementNames
  <2>4. Len(s) = 3 /\ s[3] = <<"restore", f>> /\ IsSequence(s)
    BY <1>3, <1>5
  <2> QED
    BY <2>1, <2>2, <2>3, <2>4, FlagSaved
<1>15. /\ Pushes(Head(todo), s) /\ Head(todo)[1] \in {"assign", "restore"}
       /\ \A i \in DOMAIN s : s[i][1] \notin {"take", "resume"}
       /\ FlagOff(s \o Tail(todo), ignore_newlines')
       /\ Then(s)
  BY <1>1, <1>2, <1>3, <1>8, <1>11, <1>13, <1>14
<1>16. ignore_newlines' \in BOOLEAN
  BY <1>1, <1>2
<1> QED
  BY <1>1, <1>2, <1>12, <1>15, <1>16, FlagChanges

\* An expression ends, and the setting is that from before it.
LEMMA RestoreKeeps ==
  ASSUME IInv, Restore
  PROVE  IInv'
<1>1. Runs("restore") /\ ignore_newlines' = Arg /\ Then(<<>>)
      /\ UNCHANGED <<source, errors, user_types, status, opens, odd>>
  BY Running DEF Restore
<1>2. status = "parsing" /\ Head(todo)[1] = "restore" /\ todo # <<>> /\ Arg \in BOOLEAN
  BY <1>1 DEF Runs, IsStep, Arg
<1>3. PICK r, s : r = todo /\ s = <<>>
  OBVIOUS
<1>4. FlagOff(<<>> \o Tail(r), Head(r)[2])
  <2>1. IsSequence(r) /\ r # <<>> /\ FlagOff(r, ignore_newlines) /\ Head(r)[1] = "restore"
    BY <1>2, <1>3 DEF IInv, Linked
  <2> QED
    BY <2>1, FlagRestored
<1>5. FlagOff(s \o Tail(todo), ignore_newlines')
  BY <1>1, <1>3, <1>4 DEF Arg
<1>6. Pushes(Head(todo), s) /\ Owes(s, "none") /\ \A i \in DOMAIN s : s[i][1] \notin {"take", "resume"}
  BY <1>3, NothingPushed, SmallSequences
<1>7. ignore_newlines' \in BOOLEAN /\ Head(todo)[1] \in {"assign", "restore"} /\ Then(s)
  BY <1>1, <1>2, <1>3
<1> QED
  BY <1>1, <1>2, <1>5, <1>6, <1>7, FlagChanges

\* The program is parsed when its source has ended, and goes on otherwise.
LEMMA ParseEndsIt ==
  ASSUME IInv, Parse, AtEnd
  PROVE  IInv'
<1>1. /\ Runs("program") /\ status' = (IF failed THEN "refused" ELSE "accepted")
      /\ todo' = <<>>
      /\ UNCHANGED <<source, errors, ignore_newlines, user_types, opens, odd>>
  BY Running DEF Parse
<1>2. status = "parsing" /\ Head(todo)[1] = "program" /\ todo # <<>>
  BY <1>1 DEF Runs
<1>3. UNCHANGED <<ignore_newlines, user_types, opens, odd, cur, prev, left, tokens, panic_mode, failed>>
  BY <1>1 DEF source, errors
<1>4. PICK s, t : s = todo /\ t = <<>>
  OBVIOUS
<1>5. IsSequence(t) /\ DOMAIN t = {} /\ Len(t) = 0 /\ todo' = t
  BY <1>1, <1>4, SmallSequences
<1>6. t = <<>> \o Tail(s)
  <2>1. IsSequence(s) /\ s # <<>> /\ ProgramLast(s) /\ Head(s)[1] = "program"
    BY <1>2, <1>4 DEF IInv, Linked
  <2>2. Len(s) = 1
    <3>1. Head(s) = s[1] /\ 1 \in DOMAIN s
      BY <2>1, Behead
    <3> QED
      BY <2>1, <3>1 DEF ProgramLast
  <2>3. PICK u : u = <<>> \o Tail(s)
    OBVIOUS
  <2>4. IsSequence(u) /\ Len(u) = 1 - 1
    BY <2>1, <2>2, <2>3, Dropped
  <2>5. u = <<>>
    <3> SUFFICES ASSUME u # <<>> PROVE FALSE
      OBVIOUS
    <3>1. Len(u) \in Nat \ {0}
      BY <2>4, Popped
    <3> QED
      BY <2>4, <3>1
  <2> QED
    BY <1>4, <2>3, <2>5
<1>7. Linked(t) /\ InFields(t) /\ ProgramLast(t) /\ FlagOff(t, ignore_newlines')
  BY <1>5 DEF Linked, InFields, ProgramLast, FlagOff
<1>8. Begun' /\ HeadFits' /\ ErrorsKnown'
  <2>1. Begun'
    BY <1>5 DEF Begun
  <2>2. HeadFits'
    BY <1>1 DEF HeadFits, Ready
  <2>3. ErrorsKnown'
    BY <1>3, <1>5 DEF IInv, ErrorsKnown
  <2> QED
    BY <2>1, <2>2, <2>3
<1>9. Balanced'
  <2>1. PICK steps : steps = <<>>
    OBVIOUS
  <2>2. ~IsOpener(Head(todo)) /\ Closes(Head(todo)) = "none"
    BY <1>2 DEF IsOpener, Closes
  <2>3. Pushes(Head(todo), steps) /\ Owes(steps, Closes(Head(todo)))
    BY <2>1, <2>2, NothingPushed
  <2>4. todo' = steps \o Tail(todo) /\ (AtEnd => AtEnd') /\ (~failed' => ~failed /\ opens' = opens)
    BY <1>3, <1>4, <1>5, <1>6, <2>1 DEF AtEnd
  <2> QED
    BY <1>2, <2>2, <2>3, <2>4, BalanceKept
<1>10. ParserTypeOK'
  <2>1. status' \in {"parsing", "accepted", "refused", "panicked", "todo"}
    BY <1>1
  <2> QED
    BY <1>3, <2>1 DEF IInv, ParserTypeOK, Kinds
<1>11. TakesWhatFits' /\ EndStays'
  BY <1>3 DEF IInv, TakesWhatFits, EndStays, AtEnd
<1>12. Ended'
  BY <1>1, <1>3 DEF Ended
<1>13. Linked(todo)' /\ InFields(todo)' /\ ProgramLast(todo)' /\ FlagOff(todo, ignore_newlines)'
  BY <1>5, <1>7
<1> QED
  BY <1>8, <1>9, <1>10, <1>11, <1>12, <1>13 DEF IInv

\* A declaration is parsed, and the program goes on.
LEMMA ParseGoesOn ==
  ASSUME IInv, Parse, ~AtEnd
  PROVE  IInv'
<1>1. Runs("program") /\ Go(<<Do("declaration"), Skip, Do("program")>>)
  BY Running DEF Parse
<1>2. Closes(Head(todo)) = "none" /\ status = "parsing" /\ Head(todo)[1] = "program" /\ todo # <<>>
  BY <1>1 DEF Runs, Closes
<1>3. PICK h, a, b, c, s : /\ h = Head(todo) /\ a = Do("declaration") /\ b = Skip /\ c = Do("program")
                        /\ s = <<a, b, c>>
  OBVIOUS
<1>4. a[1] = "declaration" /\ b[1] = "skip" /\ c[1] = "program" /\ h[1] = "program" /\ Go(s)
  BY <1>1, <1>2, <1>3, StepParts
<1>5. IsSequence(s) /\ DOMAIN s = 1..3 /\ Len(s) = 3 /\ s[1] = a /\ s[2] = b /\ s[3] = c
  <2>1. s = <<a, b, c>>
    BY <1>3
  <2> QED
    BY <2>1, Tuple3
<1>6. \A i \in DOMAIN s : i = 1 \/ i = 2 \/ i = 3
  BY <1>5
<1>7. IsStep(a) /\ IsStep(b) /\ IsStep(c)
  BY <1>3, <1>4 DEF IsStep
<1>8. \A i \in DOMAIN s : s[i][1] \in {"declaration", "skip", "program"}
  BY <1>4, <1>5, <1>6
<1>9. \A i \in DOMAIN s : ~IsOpener(s[i]) /\ Closes(s[i]) = "none"
  BY <1>8 DEF IsOpener, Closes
<1>10. Linked(s)
  <2>1. \A i \in DOMAIN s : IsStep(s[i])
    BY <1>5, <1>6, <1>7
  <2>2. \A i \in DOMAIN s : i + 1 \in DOMAIN s => May(s[i], s[i + 1])
    BY <1>8, <1>9 DEF May
  <2> QED
    BY <1>5, <1>9, <2>1, <2>2 DEF Linked
<1>11. Pushes(h, s)
  <2>1. InFields(s)
    BY <1>8 DEF InFields
  <2>2. h[1] \notin FieldNames /\ h[1] \in StatementNames
    BY <1>4 DEF FieldNames, StatementNames
  <2>3. \A i \in DOMAIN s : s[i][1] = "program" => i = Len(s)
    BY <1>4, <1>5, <1>6
  <2> QED
    BY <1>4, <1>8, <1>10, <2>1, <2>2, <2>3 DEF Pushes
<1>12. Owes(s, "none")
  BY <1>9, OwesNothing
<1>13. Ordinary(Head(todo), s) /\ Owes(s, Closes(Head(todo))) /\ s[1][1] # "take"
  BY <1>2, <1>3, <1>4, <1>5, <1>8, <1>11, <1>12 DEF Ordinary
<1> QED
  BY <1>2, <1>4, <1>13, GoKeeps

\* The program goes on until its source has ended.
LEMMA ParseKeeps ==
  ASSUME IInv, Parse
  PROVE  IInv'
BY ParseEndsIt, ParseGoesOn

(***************************************************************************)
(* The theorems.                                                           *)
(***************************************************************************)
\* The parser begins with nothing open.
LEMMA InitEstablishes == Init => IInv
<1> SUFFICES ASSUME Init PROVE IInv
  OBVIOUS
<1>1. PICK a, b, s : a = Do("advance") /\ b = Do("program") /\ s = <<a, b>> /\ todo = s
  BY DEF Init
<1>2. IsSequence(s) /\ DOMAIN s = 1..2 /\ Len(s) = 2 /\ s[1] = a /\ s[2] = b /\ s # <<>>
  <2>1. s = <<a, b>>
    BY <1>1
  <2> QED
    BY <2>1, Tuple2
<1>3. a[1] = "advance" /\ b[1] = "program"
  BY <1>1, StepParts
<1>4. \A i \in DOMAIN s : i = 1 \/ i = 2
  BY <1>2
<1>5. \A i \in DOMAIN s : s[i][1] \in {"advance", "program"}
  BY <1>2, <1>3, <1>4
<1>6. \A i \in DOMAIN s : IsStep(s[i]) /\ ~IsOpener(s[i]) /\ Closes(s[i]) = "none"
  BY <1>5 DEF IsStep, IsOpener, Closes
<1>7. Linked(s)
  <2>1. \A i \in DOMAIN s : i + 1 \in DOMAIN s => May(s[i], s[i + 1])
    BY <1>5, <1>6 DEF May
  <2> QED
    BY <1>2, <1>6, <2>1 DEF Linked
<1>8. InFields(s) /\ ProgramLast(s)
  <2>1. InFields(s)
    BY <1>5 DEF InFields
  <2>2. ProgramLast(s)
    BY <1>2, <1>3, <1>4 DEF ProgramLast
  <2> QED
    BY <2>1, <2>2
<1>9. FlagOff(s, FALSE)
  <2>1. \A i \in DOMAIN s : \A j \in 1..(i - 1) : j \in DOMAIN s
    BY <1>2
  <2>2. \A i \in DOMAIN s : \A j \in 1..(i - 1) : s[j][1] # "restore"
    BY <1>5, <2>1
  <2> QED
    BY <2>2 DEF FlagOff
<1>10. Begun /\ HeadFits /\ ErrorsKnown
  <2>1. Begun
    BY <1>1, <1>2, <1>3, <1>4 DEF Init, Begun
  <2>2. HeadFits
    BY <1>1, <1>2, <1>3 DEF HeadFits, Ready
  <2>3. ErrorsKnown
    BY <1>1, <1>5 DEF Init, ErrorsKnown
  <2> QED
    BY <2>1, <2>2, <2>3
<1>11. Balanced
  <2>1. PICK o : o = <<>>
    OBVIOUS
  <2>2. IsSequence(o) /\ DOMAIN o = {}
    BY <2>1, SmallSequences
  <2>3. Owed(s) = {}
    BY <1>6 DEF Owed
  <2>4. DOMAIN Debts(s) = {}
    BY <2>3 DEF Debts
  <2>5. Closed(o, s)
    BY <2>2, <2>4 DEF Closed, Enumerates
  <2>6. opens = o
    BY <2>1 DEF Init
  <2> QED
    BY <1>1, <2>5, <2>6 DEF Balanced
<1>12. ParserTypeOK
  <2>1. PICK x \in Sources : tokens = x.tokens /\ left = x.length
    BY DEF Init
  <2>2. left \in 0..x.length
    <3>1. PICK n \in Nat : n = x.length
      BY ParserAssumption
    <3> QED
      BY <2>1, <3>1
  <2> QED
    BY <2>1, <2>2 DEF Init, ParserTypeOK, Kinds
<1>13. TakesWhatFits /\ EndStays /\ Ended
  BY DEF Init, TakesWhatFits, EndStays, AtEnd, Ended
<1>14. FlagOff(todo, ignore_newlines)
  BY <1>1, <1>9 DEF Init
<1> QED
  BY <1>1, <1>7, <1>8, <1>10, <1>11, <1>12, <1>13, <1>14 DEF IInv

\* Every step of the methods keeps it.
LEMMA NextKeeps == IInv /\ [Next]_vars => IInv'
<1> SUFFICES ASSUME IInv, [Next]_vars PROVE IInv'
  OBVIOUS
<1>1. CASE DeclarationStep
  BY <1>1, ParseKeeps, FirstAdvanceKeeps, DeclarationKeeps, DeclareKeeps, ParamsKeeps, MoreParamsKeeps,
     RetTypeKeeps, InitializerKeeps, PathKeeps, AliasKeeps, StructNameKeeps, FieldsKeeps, FieldKeeps,
     UserTypeKeeps, TryConsumeTypeKeeps, NeedTypeKeeps, ListTypeKeeps, TypeParamsKeeps, MoreTypesKeeps
  DEF DeclarationStep
<1>2. CASE StatementStep
  BY <1>2, StatementKeeps, StatementKindKeeps, BlockKeeps, BodyKeeps, ElseKeeps, ArgumentKeeps,
     StmtEndKeeps, SynchronizeKeeps, ResumeKeeps
  DEF StatementStep
<1>3. CASE ExpressionStep
  BY <1>3, StartExpressionKeeps, AssignKeeps, RestoreKeeps, AssignmentKeeps, TernaryKeeps,
     ConditionalKeeps, StartSeriesKeeps, LoopSeriesKeeps, MoreKeeps, MoreBooleanKeeps, CastKeeps,
     AsTypeKeeps, UnaryKeeps, SuffixKeeps, ExprListKeeps, MoreExprsKeeps, PrimaryKeeps, TodoKeeps
  DEF ExpressionStep
<1>4. CASE HelperStep
  BY <1>4, SkipNewlinesKeeps, ExpectBecauseKeeps, TakePrevKeeps, ErrorAtKeeps DEF HelperStep
<1>5. CASE UNCHANGED vars
  <2>1. /\ UNCHANGED <<todo, cur, prev, left, tokens, ignore_newlines, panic_mode, failed>>
        /\ UNCHANGED <<user_types, status, opens, odd>>
    BY <1>5 DEF vars, source, errors
  <2>2. ParserTypeOK' /\ TakesWhatFits'
    BY <2>1 DEF IInv, ParserTypeOK, Kinds, TakesWhatFits
  <2>3. Linked(todo)' /\ InFields(todo)' /\ ProgramLast(todo)' /\ FlagOff(todo, ignore_newlines)'
    BY <2>1 DEF IInv
  <2>4. Begun' /\ HeadFits' /\ ErrorsKnown' /\ EndStays' /\ Ended'
    BY <2>1 DEF IInv, Begun, HeadFits, ErrorsKnown, EndStays, Ended, AtEnd
  <2>5. Balanced'
    BY <2>1 DEF IInv, Balanced, Unclosed, AtEnd
  <2> QED
    BY <2>2, <2>3, <2>4, <2>5 DEF IInv
<1> QED
  BY <1>1, <1>2, <1>3, <1>4, <1>5 DEF Next

\* The inductive invariant holds for every source.
THEOREM InvariantHolds == Spec => []IInv
<1>1. Init => IInv
  BY InitEstablishes
<1>2. IInv /\ [Next]_vars => IInv'
  BY NextKeeps
<1> QED
  BY <1>1, <1>2, PTL DEF Spec

\* The parser never asks for a token beyond the end of the source, and its types
\* are names.
THEOREM ParserTypesHold == Spec => []ParserTypeOK
<1>1. IInv => ParserTypeOK
  BY DEF IInv
<1> QED
  BY <1>1, InvariantHolds, PTL

\* Newlines end statements wherever a declaration begins.
THEOREM NewlinesEndStatements == Spec => []NewlinesCount
<1>1. ASSUME IInv PROVE NewlinesCount
  <2>1. SUFFICES ASSUME todo # <<>>, Head(todo)[1] = "declaration" PROVE ignore_newlines = FALSE
    BY DEF NewlinesCount
  <2>2. PICK s : s = todo
    OBVIOUS
  <2>3. IsSequence(s) /\ FlagOff(s, ignore_newlines)
    BY <1>1, <2>2 DEF IInv, Linked
  <2>4. 1 \in DOMAIN s /\ s[1][1] \in StatementNames
    <3>1. Head(s) = s[1] /\ 1 \in DOMAIN s
      BY <2>1, <2>2, <2>3, Behead
    <3> QED
      BY <2>1, <2>2, <3>1 DEF StatementNames
  <2>5. NoRestore(s, 1, 1 - 1)
    BY DEF NoRestore
  <2> QED
    BY <2>3, <2>4, <2>5 DEF FlagOff
<1> QED
  BY <1>1, InvariantHolds, PTL

\* A token that becomes part of the syntax tree is what it is taken for.
THEOREM TokensFit == Spec => []TakesWhatFits
<1>1. IInv => TakesWhatFits
  BY DEF IInv
<1> QED
  BY <1>1, InvariantHolds, PTL

\* An accepted source has closed its brackets in their order.
THEOREM BracketsClose == Spec => []AcceptedIsBalanced
<1>1. ASSUME IInv PROVE AcceptedIsBalanced
  <2>1. SUFFICES ASSUME status = "accepted" PROVE opens \in {<<>>, <<"struct">>}
    BY DEF AcceptedIsBalanced
  <2>2. todo = <<>> /\ ~failed /\ (Closed(opens, todo) \/ Unclosed)
    BY <1>1, <2>1 DEF IInv, Ended, Balanced
  <2>3. ASSUME NEW o, Closed(o, <<>>) PROVE o = <<>>
    <3>1. PICK s : s = <<>>
      OBVIOUS
    <3>2. DOMAIN s = {}
      BY <3>1, SmallSequences
    <3>3. DOMAIN Debts(s) = {}
      BY <3>2 DEF Debts, Owed
    <3>4. IsSequence(o) /\ DOMAIN o = {}
      BY <2>3, <3>1, <3>3 DEF Closed, Enumerates
    <3>5. o # <<>> => 1 \in DOMAIN o
      BY <3>4, Behead
    <3> QED
      BY <3>4, <3>5
  <2>4. Append(<<>>, "struct") = <<"struct">>
    OBVIOUS
  <2> QED
    BY <2>2, <2>3, <2>4 DEF Unclosed
<1> QED
  BY <1>1, InvariantHolds, PTL
===============================================================================
