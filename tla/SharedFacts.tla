----------------------------- MODULE SharedFacts ------------------------------
(***************************************************************************)
(* What the proofs of several components need.  First sequences and        *)
(* natural numbers: the places of a sequence after each of the operations  *)
(* that the models apply to it, and the least number with a property,      *)
(* which stands for induction.  Then what the analysis does to its tables  *)
(* of declarations and what it hands out, for every table: entering and    *)
(* leaving a scope keep the locals in the order of their scopes, and a     *)
(* name or a call is bound to a number.                                    *)
(***************************************************************************)
EXTENDS Scopes, SequenceTheorems, WellFoundedInduction, TLAPS

(***************************************************************************)
(* Sequences whose elements are of no matter.                              *)
(***************************************************************************)
IsSequence(s) == s \in Seq(Range(s))

\* A sequence of elements of any set is one.
LEMMA SeqIsSequence ==
  ASSUME NEW S, NEW s \in Seq(S)
  PROVE  IsSequence(s)
BY SeqOfRange DEF IsSequence

\* The places of a sequence.
LEMMA Places ==
  ASSUME NEW s, IsSequence(s)
  PROVE  Len(s) \in Nat /\ DOMAIN s = 1..Len(s)
BY LenProperties DEF IsSequence

\* The empty sequence, and that of one element.
LEMMA SmallSequences ==
  ASSUME NEW x
  PROVE  /\ IsSequence(<<>>) /\ Len(<<>>) = 0 /\ DOMAIN <<>> = {}
         /\ IsSequence(<<x>>) /\ Len(<<x>>) = 1 /\ DOMAIN <<x>> = 1..1 /\ <<x>>[1] = x
<1>1. <<>> \in Seq({x}) /\ <<x>> \in Seq({x})
  OBVIOUS
<1>2. IsSequence(<<>>) /\ IsSequence(<<x>>)
  BY <1>1, SeqIsSequence
<1> QED
  BY <1>2

\* One more element.
LEMMA Appended ==
  ASSUME NEW s, IsSequence(s), NEW x
  PROVE  /\ IsSequence(Append(s, x))
         /\ Len(Append(s, x)) = Len(s) + 1
         /\ DOMAIN Append(s, x) = 1..(Len(s) + 1)
         /\ \A i \in 1..Len(s) : Append(s, x)[i] = s[i]
         /\ Append(s, x)[Len(s) + 1] = x
<1> DEFINE S == Range(s) \cup {x}
<1>1. s \in Seq(S)
  BY SeqMonotonic DEF IsSequence
<1>2. x \in S
  OBVIOUS
<1> HIDE DEF S
<1>3. /\ Append(s, x) \in Seq(S)
      /\ Len(Append(s, x)) = Len(s) + 1
      /\ \A i \in 1..Len(s) : Append(s, x)[i] = s[i]
      /\ Append(s, x)[Len(s) + 1] = x
  BY <1>1, <1>2, AppendProperties
<1>4. IsSequence(Append(s, x))
  BY <1>3, SeqIsSequence
<1> QED
  BY <1>3, <1>4, Places

\* A first part.
LEMMA FirstPart ==
  ASSUME NEW s, IsSequence(s), NEW k \in 0..Len(s)
  PROVE  /\ IsSequence(SubSeq(s, 1, k))
         /\ Len(SubSeq(s, 1, k)) = k
         /\ DOMAIN SubSeq(s, 1, k) = 1..k
         /\ \A i \in 1..k : SubSeq(s, 1, k)[i] = s[i]
<1>1. Len(s) \in Nat /\ \A i \in 1..Len(s) : s[i] \in Range(s)
  BY Places, ElementOfSeq DEF IsSequence
<1>2. k \in Int /\ 1 \in Int /\ \A i \in 1..k : s[i] \in Range(s)
  BY <1>1
<1>3. /\ SubSeq(s, 1, k) \in Seq(Range(s))
      /\ Len(SubSeq(s, 1, k)) = IF 1 <= k THEN k - 1 + 1 ELSE 0
      /\ \A i \in 1 .. k - 1 + 1 : SubSeq(s, 1, k)[i] = s[1 + i - 1]
  BY <1>2, SubSeqProperties
<1>4. IsSequence(SubSeq(s, 1, k))
  BY <1>3, SeqIsSequence
<1>5. /\ Len(SubSeq(s, 1, k)) = k
      /\ \A i \in 1..k : SubSeq(s, 1, k)[i] = s[i]
  BY <1>1, <1>3
<1>6. DOMAIN SubSeq(s, 1, k) = 1..Len(SubSeq(s, 1, k))
  BY <1>4, Places
<1>7. DOMAIN SubSeq(s, 1, k) = 1..k
  BY <1>5, <1>6
<1> QED
  BY <1>4, <1>5, <1>7

(***************************************************************************)
(* The stacks of the models: the last element is taken off or replaced.    *)
(***************************************************************************)
\* Without its last element.
LEMMA Popped ==
  ASSUME NEW s, IsSequence(s), s # <<>>
  PROVE  /\ Len(s) \in Nat \ {0}
         /\ IsSequence(Front(s))
         /\ Len(Front(s)) = Len(s) - 1
         /\ DOMAIN Front(s) = 1..(Len(s) - 1)
         /\ \A i \in 1..(Len(s) - 1) : Front(s)[i] = s[i]
<1>1. Len(s) \in Nat /\ Len(s) # 0
  BY EmptySeq, Places DEF IsSequence
<1>2. Len(s) - 1 \in 0..Len(s)
  BY <1>1
<1> QED
  BY <1>1, <1>2, FirstPart DEF Front

\* With another element at one place.
LEMMA ReplacedAt ==
  ASSUME NEW s, IsSequence(s), NEW k \in DOMAIN s, NEW x
  PROVE  LET t == [s EXCEPT ![k] = x]
         IN /\ IsSequence(t)
            /\ Len(t) = Len(s)
            /\ DOMAIN t = DOMAIN s
            /\ \A i \in DOMAIN s : i # k => t[i] = s[i]
            /\ t[k] = x
<1> DEFINE t == [s EXCEPT ![k] = x]
           S == Range(s) \cup {x}
<1>1. s \in Seq(S) /\ x \in S
  BY SeqMonotonic DEF IsSequence
<1>2. DOMAIN s = 1..Len(s)
  BY Places
<1> HIDE DEF S
<1>3. t \in Seq(S) /\ Len(t) = Len(s)
  BY <1>1, <1>2, ExceptSeq
<1>4. /\ DOMAIN t = DOMAIN s
      /\ \A i \in DOMAIN s : i # k => t[i] = s[i]
      /\ t[k] = x
  OBVIOUS
<1> HIDE DEF t
<1>5. IsSequence(t)
  BY <1>3, SeqIsSequence
<1> QED
  BY <1>3, <1>4, <1>5 DEF t

\* Without its first element.
LEMMA Behead ==
  ASSUME NEW s, IsSequence(s), s # <<>>
  PROVE  /\ Head(s) = s[1] /\ 1 \in DOMAIN s
         /\ IsSequence(Tail(s))
         /\ Len(Tail(s)) = Len(s) - 1
         /\ DOMAIN Tail(s) = 1..(Len(s) - 1)
         /\ \A i \in 1..(Len(s) - 1) : Tail(s)[i] = s[i + 1]
<1>1. s \in Seq(Range(s)) /\ Len(s) \in Nat
  BY Places DEF IsSequence
<1>2. Tail(s) \in Seq(Range(s)) /\ Len(Tail(s)) = Len(s) - 1
  BY <1>1, HeadTailProperties
<1>3. IsSequence(Tail(s))
  BY <1>2, SeqIsSequence
<1>4. \A i \in 1..Len(Tail(s)) : Tail(s)[i] = s[i + 1]
  BY <1>1, HeadTailProperties
<1>5. Len(s) # 0
  BY <1>1, EmptySeq
<1> QED
  BY <1>1, <1>2, <1>3, <1>4, <1>5, Places, HeadTailProperties

\* One sequence behind another.
LEMMA Joined ==
  ASSUME NEW s, IsSequence(s), NEW t, IsSequence(t)
  PROVE  /\ IsSequence(s \o t)
         /\ Len(s \o t) = Len(s) + Len(t)
         /\ DOMAIN (s \o t) = 1..(Len(s) + Len(t))
         /\ \A i \in 1..Len(s) : (s \o t)[i] = s[i]
         /\ \A i \in 1..Len(t) : (s \o t)[Len(s) + i] = t[i]
<1> DEFINE S == Range(s) \cup Range(t)
<1>1. s \in Seq(S) /\ t \in Seq(S)
  BY SeqMonotonic DEF IsSequence
<1> HIDE DEF S
<1>2. /\ s \o t \in Seq(S)
      /\ Len(s \o t) = Len(s) + Len(t)
      /\ \A i \in 1..(Len(s) + Len(t)) : (s \o t)[i] = IF i <= Len(s) THEN s[i] ELSE t[i - Len(s)]
  BY <1>1, ConcatProperties
<1>3. Len(s) \in Nat /\ Len(t) \in Nat
  BY Places
<1>4. \A i \in 1..Len(s) : (s \o t)[i] = s[i]
  BY <1>2, <1>3
<1>5. ASSUME NEW i \in 1..Len(t) PROVE (s \o t)[Len(s) + i] = t[i]
  <2>1. Len(s) + i \in 1..(Len(s) + Len(t)) /\ ~(Len(s) + i <= Len(s)) /\ Len(s) + i - Len(s) = i
    BY <1>3
  <2> QED
    BY <1>2, <2>1
<1> QED
  BY <1>2, <1>4, <1>5, SeqIsSequence, Places

\* The first c elements of s, and then t.
EndsWith(r, s, c, t) ==
    /\ IsSequence(r) /\ Len(r) = c + Len(t)
    /\ \A i \in 1..c : r[i] = s[i]
    /\ \A i \in 1..Len(t) : r[c + i] = t[i]

\* What the operations on a stack leave: the same.
LEMMA EndKept == ASSUME NEW s, IsSequence(s) PROVE EndsWith(s, s, Len(s), <<>>)
BY SmallSequences, Places DEF EndsWith

\* One more value.
LEMMA EndAppended == ASSUME NEW s, IsSequence(s), NEW x PROVE EndsWith(Append(s, x), s, Len(s), <<x>>)
BY SmallSequences, Places, Appended DEF EndsWith

\* The topmost values dropped.
LEMMA EndDropped ==
  ASSUME NEW s, IsSequence(s), NEW c \in 0..Len(s)
  PROVE  EndsWith(SubSeq(s, 1, c), s, c, <<>>)
BY SmallSequences, Places, FirstPart DEF EndsWith

\* The topmost values replaced by others.
LEMMA EndReplaced ==
  ASSUME NEW s, IsSequence(s), NEW c \in 0..Len(s), NEW t, IsSequence(t)
  PROVE  EndsWith(SubSeq(s, 1, c) \o t, s, c, t)
<1>1. PICK kept : kept = SubSeq(s, 1, c)
  OBVIOUS
<1>2. IsSequence(kept) /\ Len(kept) = c /\ \A i \in 1..c : kept[i] = s[i]
  BY <1>1, FirstPart
<1>3. /\ IsSequence(kept \o t) /\ Len(kept \o t) = Len(kept) + Len(t)
      /\ \A i \in 1..Len(kept) : (kept \o t)[i] = kept[i]
      /\ \A i \in 1..Len(t) : (kept \o t)[Len(kept) + i] = t[i]
  <2>1. IsSequence(kept)
    BY <1>2
  <2> QED
    BY <2>1, Joined
<1> QED
  BY <1>1, <1>2, <1>3 DEF EndsWith

\* A function on the numbers up to n is a sequence.
LEMMA FunctionIsSequence ==
  ASSUME NEW n \in Nat, NEW f, f = [i \in 1..n |-> f[i]]
  PROVE  IsSequence(f) /\ Len(f) = n /\ DOMAIN f = 1..n
<1>1. f \in [1..n -> Range(f)]
  BY DEF Range
<1>2. f \in Seq(Range(f)) /\ DOMAIN f = 1..n
  BY <1>1
<1>3. Len(f) = n
  BY <1>2, LenProperties
<1> QED
  BY <1>2, <1>3 DEF IsSequence

(***************************************************************************)
(* Numbers.                                                                *)
(***************************************************************************)
\* Of some natural numbers one is the least.
LEMMA Least ==
  ASSUME NEW T, T \subseteq Nat, T # {}
  PROVE  \E n \in T : \A m \in T : n <= m
<1>1. PICK n \in T : \A m \in T : ~ (<<m, n>> \in OpToRel(<, Nat))
  <2> HIDE DEF OpToRel
  <2> QED
    BY NatLessThanWellFounded, WFMin
<1>2. ASSUME NEW m \in T PROVE n <= m
  <2>1. m \in Nat /\ n \in Nat
    OBVIOUS
  <2>2. ~(m < n)
    BY <1>1, <2>1 DEF OpToRel
  <2> QED
    BY <2>1, <2>2
<1> QED
  BY <1>2

\* Of some numbers up to n one is the largest.
LEMMA Largest ==
  ASSUME NEW n \in Nat, NEW I, I \subseteq 0..n, I # {}
  PROVE  Max(I) \in I /\ \A i \in I : Max(I) >= i
<1> DEFINE T == {n - i : i \in I}
<1>1. T \subseteq Nat /\ T # {}
  OBVIOUS
<1>2. PICK k \in T : \A m \in T : k <= m
  <2> HIDE DEF T
  <2> QED
    BY <1>1, Least
<1>3. PICK i \in I : k = n - i
  OBVIOUS
<1>4. \A j \in I : i >= j
  <2> TAKE j \in I
  <2>1. n - i <= n - j
    BY <1>2, <1>3
  <2> QED
    BY <2>1
<1>5. \E x \in I : \A y \in I : x >= y
  BY <1>4
<1> QED
  BY <1>5 DEF Max

(***************************************************************************)
(* Declarations.                                                           *)
(***************************************************************************)
IsDeclaration(d) ==
    /\ DOMAIN d = {"name", "type", "params", "ret_type", "depth", "tag"}
    /\ d.type.f \in Int
    /\ d.depth \in Nat
    /\ d.tag \in Int

IsTable(table) == IsSequence(table) /\ \A i \in DOMAIN table : IsDeclaration(table[i])

IsResolver(res) ==
    /\ DOMAIN res = {"local_bindings", "depth", "is_global", "loop_depth", "ret_type"}
    /\ IsTable(res.local_bindings)
    /\ res.depth \in Nat

\* A declaration made from parts is one.
LEMMA VarDataIsDeclaration ==
  ASSUME NEW name, NEW type, type.f \in Int, NEW params, NEW ret_type, NEW tag \in Int
  PROVE  IsDeclaration(VarData(name, type, params, ret_type, tag))
BY DEF IsDeclaration, VarData

\* A new resolver has bound nothing.
LEMMA NewResolverEffect ==
  ASSUME NEW is_global \in BOOLEAN, NEW ret_type
  PROVE  LET res == NewResolver(is_global, ret_type)
         IN /\ IsResolver(res)
            /\ res.is_global <=> is_global
            /\ res.depth = 0 /\ res.loop_depth = 0
            /\ res.local_bindings = <<>>
<1>1. IsTable(<<>>)
  BY SmallSequences DEF IsTable
<1> QED
  BY <1>1 DEF NewResolver, IsResolver

\* A table takes one more declaration.
LEMMA TableAppended ==
  ASSUME NEW table, IsTable(table), NEW d, IsDeclaration(d)
  PROVE  /\ IsTable(Append(table, d))
         /\ Len(Append(table, d)) = Len(table) + 1
<1>1. IsSequence(table) /\ DOMAIN table = 1..Len(table) /\ Len(table) \in Nat
  BY Places DEF IsTable
<1>2. /\ IsSequence(Append(table, d))
      /\ Len(Append(table, d)) = Len(table) + 1
      /\ DOMAIN Append(table, d) = 1..(Len(table) + 1)
      /\ \A i \in 1..Len(table) : Append(table, d)[i] = table[i]
      /\ Append(table, d)[Len(table) + 1] = d
  BY <1>1, Appended
<1>3. ASSUME NEW i \in 1..(Len(table) + 1) PROVE IsDeclaration(Append(table, d)[i])
  <2>1. CASE i \in 1..Len(table)
    BY <1>1, <1>2, <2>1 DEF IsTable
  <2>2. CASE i = Len(table) + 1
    BY <1>2, <2>2
  <2> QED
    BY <1>1, <2>1, <2>2
<1> QED
  BY <1>2, <1>3 DEF IsTable

\* A declaration goes to the globals at the outermost scope of the main script
\* and to the locals, with the current depth, anywhere else.
LEMMA DeclareEffect ==
  ASSUME NEW res, IsResolver(res), NEW globals, IsTable(globals), NEW d, IsDeclaration(d)
  PROVE  /\ IsTable(DeclareGlobal(res, globals, d))
         /\ IsResolver(DeclareLocal(res, d))
         /\ DeclareLocal(res, d).depth = res.depth
         /\ DeclareLocal(res, d).is_global = res.is_global
         /\ DeclareLocal(res, d).loop_depth = res.loop_depth
         /\ DeclareLocal(res, d).ret_type = res.ret_type
         /\ InGlobalScope(res) =>
               /\ Len(DeclareGlobal(res, globals, d)) = Len(globals) + 1
               /\ DeclareLocal(res, d) = res
         /\ ~InGlobalScope(res) =>
               /\ DeclareGlobal(res, globals, d) = globals
               /\ DeclareLocal(res, d).local_bindings
                    = Append(res.local_bindings, [d EXCEPT !.depth = res.depth])
<1>1. IsDeclaration([d EXCEPT !.depth = res.depth])
  BY DEF IsDeclaration, IsResolver
<1>2. CASE InGlobalScope(res)
  BY <1>2, TableAppended DEF DeclareGlobal, DeclareLocal
<1>3. CASE ~InGlobalScope(res)
  <2> DEFINE locals == Append(res.local_bindings, [d EXCEPT !.depth = res.depth])
  <2>1. IsTable(locals)
    BY <1>1, TableAppended DEF IsResolver
  <2>2. DeclareLocal(res, d) = [res EXCEPT !.local_bindings = locals]
    BY <1>3 DEF DeclareLocal
  <2>3. DeclareGlobal(res, globals, d) = globals
    BY <1>3 DEF DeclareGlobal
  <2> HIDE DEF locals
  <2>4. /\ DeclareLocal(res, d).local_bindings = locals
        /\ IsResolver(DeclareLocal(res, d))
        /\ DeclareLocal(res, d).depth = res.depth
        /\ DeclareLocal(res, d).is_global = res.is_global
        /\ DeclareLocal(res, d).loop_depth = res.loop_depth
        /\ DeclareLocal(res, d).ret_type = res.ret_type
    BY <2>1, <2>2 DEF IsResolver
  <2> QED
    BY <1>3, <2>3, <2>4 DEF locals
<1> QED
  BY <1>2, <1>3

(***************************************************************************)
(* Leaving a scope.                                                        *)
(***************************************************************************)
\* The last place at which the test holds, when it holds up to k and nowhere
\* above.
LEMMA LastUpTo ==
  ASSUME NEW n \in Nat, NEW k \in 0..n, NEW I,
         I = {i \in 1..n : i <= k}
  PROVE  (IF I # {} THEN Max(I) ELSE 0) = k
<1>1. CASE k = 0
  BY <1>1
<1>2. CASE k # 0
  <2>1. k \in I /\ \A y \in I : k >= y
    BY <1>2
  <2>2. \A x \in I : (\A y \in I : x >= y) => x = k
    BY <2>1
  <2> QED
    BY <2>1, <2>2 DEF Max
<1> QED
  BY <1>1, <1>2

\* When the locals of outer scopes are the first k, exactly they are kept.
LEMMA ExitScopeEffect ==
  ASSUME NEW res, IsResolver(res), res.depth # 0,
         NEW k \in 0..Len(res.local_bindings),
         \A q \in DOMAIN res.local_bindings :
            q <= k <=> res.local_bindings[q].depth < res.depth
  PROVE  /\ IsResolver(ExitScope(res))
         /\ ExitScope(res).depth = res.depth - 1
         /\ ExitScope(res).local_bindings = SubSeq(res.local_bindings, 1, k)
         /\ ExitScope(res).is_global = res.is_global
         /\ ExitScope(res).loop_depth = res.loop_depth
         /\ ExitScope(res).ret_type = res.ret_type
<1> DEFINE locals == res.local_bindings
           outer == {i \in 1..Len(locals) : locals[i].depth <= res.depth - 1}
           kept == IF outer # {} THEN Max(outer) ELSE 0
<1>1. IsSequence(locals) /\ DOMAIN locals = 1..Len(locals) /\ Len(locals) \in Nat
  BY Places DEF IsResolver, IsTable
<1>2. \A i \in 1..Len(locals) : locals[i].depth \in Nat
  BY <1>1 DEF IsResolver, IsTable, IsDeclaration
<1>3. outer = {i \in 1..Len(locals) : i <= k}
  BY <1>1, <1>2 DEF IsResolver
<1>4. kept = k
  <2> HIDE DEF outer, locals
  <2> QED
    BY <1>1, <1>3, LastUpTo DEF locals
<1>5. ExitScope(res) =
        [res EXCEPT !.depth = res.depth - 1, !.local_bindings = SubSeq(locals, 1, kept)]
  BY DEF ExitScope, SelectLastInSeq
<1>6. IsTable(SubSeq(locals, 1, k))
  <2>1. /\ IsSequence(SubSeq(locals, 1, k))
        /\ DOMAIN SubSeq(locals, 1, k) = 1..k
        /\ \A i \in 1..k : SubSeq(locals, 1, k)[i] = locals[i]
    BY <1>1, FirstPart
  <2>2. \A i \in 1..k : IsDeclaration(locals[i])
    BY <1>1 DEF IsResolver, IsTable
  <2> QED
    BY <2>1, <2>2 DEF IsTable
<1>7. res.depth - 1 \in Nat
  BY DEF IsResolver
<1> DEFINE part == SubSeq(locals, 1, k)
<1>8. ExitScope(res) = [res EXCEPT !.depth = res.depth - 1, !.local_bindings = part]
  BY <1>4, <1>5
<1> HIDE DEF part
<1>9. /\ IsResolver(ExitScope(res))
      /\ ExitScope(res).depth = res.depth - 1
      /\ ExitScope(res).local_bindings = part
      /\ ExitScope(res).is_global = res.is_global
      /\ ExitScope(res).loop_depth = res.loop_depth
      /\ ExitScope(res).ret_type = res.ret_type
  BY <1>6, <1>7, <1>8 DEF IsResolver, part
<1> QED
  BY <1>9 DEF part

\* In any case a first part of the locals is kept.
LEMMA ExitScopeCuts ==
  ASSUME NEW res, IsResolver(res), res.depth # 0
  PROVE  \E k \in 0..Len(res.local_bindings) :
            /\ IsResolver(ExitScope(res))
            /\ ExitScope(res).local_bindings = SubSeq(res.local_bindings, 1, k)
            /\ ExitScope(res).depth = res.depth - 1
            /\ ExitScope(res).is_global = res.is_global
<1> DEFINE locals == res.local_bindings
           outer == {i \in 1..Len(locals) : locals[i].depth <= res.depth - 1}
           kept == IF outer # {} THEN Max(outer) ELSE 0
<1>1. IsSequence(locals) /\ DOMAIN locals = 1..Len(locals) /\ Len(locals) \in Nat
  BY Places DEF IsResolver, IsTable
<1>2. kept \in 0..Len(locals)
  <2>1. outer \subseteq 0..Len(locals)
    BY <1>1
  <2>2. outer # {} => Max(outer) \in outer
    <3> HIDE DEF outer, locals
    <3> QED
      BY <1>1, <2>1, Largest
  <2> HIDE DEF outer, locals
  <2>3. outer # {} => Max(outer) \in 0..Len(locals)
    BY <2>1, <2>2
  <2>4. 0 \in 0..Len(locals)
    BY <1>1
  <2> QED
    BY <2>3, <2>4
<1>3. ExitScope(res) =
        [res EXCEPT !.depth = res.depth - 1, !.local_bindings = SubSeq(locals, 1, kept)]
  BY DEF ExitScope, SelectLastInSeq
<1> HIDE DEF kept
<1> DEFINE part == SubSeq(locals, 1, kept)
<1>4. IsTable(part)
  <2>1. /\ IsSequence(part)
        /\ DOMAIN part = 1..kept
        /\ \A i \in 1..kept : part[i] = locals[i]
    BY <1>1, <1>2, FirstPart
  <2>2. \A i \in 1..kept : IsDeclaration(locals[i])
    BY <1>1, <1>2 DEF IsResolver, IsTable
  <2> QED
    BY <2>1, <2>2 DEF IsTable
<1>5. res.depth - 1 \in Nat
  BY DEF IsResolver
<1> HIDE DEF part
<1>6. /\ IsResolver(ExitScope(res))
      /\ ExitScope(res).local_bindings = part
      /\ ExitScope(res).depth = res.depth - 1
      /\ ExitScope(res).is_global = res.is_global
  BY <1>3, <1>4, <1>5 DEF IsResolver, part
<1> QED
  BY <1>2, <1>6 DEF part

(***************************************************************************)
(* What a name and a call are bound to.                                    *)
(***************************************************************************)
IsBinding(b) == b.slot \in Int /\ IsDeclaration(b.data)

\* A name is bound to a declaration at a numbered slot.
LEMMA IdentifierIsBinding ==
  ASSUME NEW res, IsResolver(res), NEW globals, IsTable(globals), NEW name
  PROVE  \A b \in GetIdentifier(res, globals, name) : IsBinding(b)
<1>1. /\ Len(res.local_bindings) \in Nat /\ Len(globals) \in Nat
      /\ DOMAIN res.local_bindings = 1..Len(res.local_bindings)
      /\ DOMAIN globals = 1..Len(globals)
  BY Places DEF IsResolver, IsTable
<1>2. \A table : LastNamed(table, name) \subseteq DOMAIN table
  BY DEF LastNamed
<1>3. \A i \in LastNamed(globals, name) : IsBinding(Binding("Globals", i - 1, globals[i]))
  BY <1>1, <1>2 DEF IsBinding, Binding, IsTable
<1>4. ASSUME NEW offset \in Int, NEW i \in LastNamed(res.local_bindings, name)
      PROVE  IsBinding(Binding("Stack", i - 1 + offset, res.local_bindings[i]))
  BY <1>1, <1>2 DEF IsBinding, Binding, IsResolver, IsTable
<1>5. (IF res.is_global THEN Len(globals) ELSE 0) \in Int
  BY <1>1
<1> QED
  BY <1>3, <1>4, <1>5 DEF GetIdentifier

\* So is everything that a call may mean.
LEMMA AllAreBindings ==
  ASSUME NEW res, IsResolver(res), NEW globals, IsTable(globals)
  PROVE  LET all == GetAllIdentifiers(res, globals)
         IN \A i \in DOMAIN all : IsBinding(all[i])
<1> DEFINE row(space, table) == [i \in DOMAIN table |-> Binding(space, i - 1, table[i])]
           Bindings == Range(row("Stack", res.local_bindings)) \cup Range(row("Globals", globals))
<1>1. ASSUME NEW table, IsTable(table), NEW space
      PROVE  /\ row(space, table) \in Seq(Range(row(space, table)))
             /\ \A b \in Range(row(space, table)) : IsBinding(b)
  <2>1. DOMAIN table = 1..Len(table) /\ Len(table) \in Nat
    BY <1>1, Places DEF IsTable
  <2>2. row(space, table) \in [1..Len(table) -> Range(row(space, table))]
    BY <2>1 DEF Range
  <2>3. \A i \in DOMAIN table : IsBinding(Binding(space, i - 1, table[i]))
    BY <1>1, <2>1 DEF IsBinding, Binding, IsTable
  <2> QED
    BY <2>1, <2>2, <2>3 DEF Range
<1>2. /\ row("Stack", res.local_bindings) \in Seq(Bindings)
      /\ row("Globals", globals) \in Seq(Bindings)
      /\ \A b \in Bindings : IsBinding(b)
  <2>1. /\ row("Stack", res.local_bindings) \in Seq(Range(row("Stack", res.local_bindings)))
        /\ row("Globals", globals) \in Seq(Range(row("Globals", globals)))
        /\ \A b \in Bindings : IsBinding(b)
    BY <1>1 DEF IsResolver
  <2> HIDE DEF row
  <2> QED
    BY <2>1, SeqMonotonic
<1>3. GetAllIdentifiers(res, globals)
        = row("Stack", res.local_bindings) \o row("Globals", globals)
  BY DEF GetAllIdentifiers
<1> HIDE DEF row, Bindings
<1>4. GetAllIdentifiers(res, globals) \in Seq(Bindings)
  BY <1>2, <1>3, ConcatProperties
<1> QED
  BY <1>2, <1>4, LenProperties, ElementOfSeq

\* And the callee.
LEMMA CalleeIsBinding ==
  ASSUME NEW res, IsResolver(res), NEW globals, IsTable(globals), NEW name, NEW args
  PROVE  \A b \in ResolveCall(res, globals, name, args) : IsBinding(b)
<1>1. \A i \in DOMAIN GetAllIdentifiers(res, globals) :
         IsBinding(GetAllIdentifiers(res, globals)[i])
  BY AllAreBindings
<1>2. ASSUME NEW b \in ResolveCall(res, globals, name, args)
      PROVE  \E i \in DOMAIN GetAllIdentifiers(res, globals) :
                b = GetAllIdentifiers(res, globals)[i]
  BY <1>2 DEF ResolveCall
<1> QED
  BY <1>1, <1>2

\* It takes as many arguments as the call has.
LEMMA CalleeTakesArguments ==
  ASSUME NEW res, NEW globals, NEW name, NEW args
  PROVE  \A b \in ResolveCall(res, globals, name, args) : Len(b.data.params) = Len(args)
BY DEF ResolveCall
==============================================================================
