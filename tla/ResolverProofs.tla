---------------------------- MODULE ResolverProofs ----------------------------
(***************************************************************************)
(* For every program, every set of names and every bound: a body is        *)
(* resolved once, no body of the script is left out, and a function whose  *)
(* name is its own is resolved at its first call, with the index of its    *)
(* backlog in range and with every global that its body refers to.         *)
(***************************************************************************)
EXTENDS Resolver, SharedFacts, FiniteSetTheorems

(***************************************************************************)
(* The inductive invariant.                                                *)
(***************************************************************************)
FunctionsWell ==
    /\ IsSequence(functions)
    /\ \A fn \in DOMAIN functions :
          /\ functions[fn].outer \in 0..Len(functions)
          /\ functions[fn].waits \in BOOLEAN
          /\ functions[fn].waits => functions[fn].name \in FuncNames
          /\ IsSequence(functions[fn].params)

\* A list of the backlog of outer: bodies of functions of that name that outer
\* declares, each once and none that was resolved.
IsList(list, name, outer) ==
    /\ IsSequence(list)
    /\ \A k \in DOMAIN list : list[k] # Taken =>
          /\ list[k] \in DOMAIN functions
          /\ functions[list[k]].waits
          /\ functions[list[k]].name = name
          /\ functions[list[k]].outer = outer
          /\ ~IsResolved(list[k])
    /\ \A j, k \in DOMAIN list : list[j] = list[k] /\ list[j] # Taken => j = k

IsBacklog(backlog, outer) ==
    /\ DOMAIN backlog = FuncNames
    /\ \A name \in FuncNames : IsList(backlog[name], name, outer)

\* A table of variables and of callables, each callable once.
IsFunctionData(data) == data.type.t = "Function"
NamesItsFunction(data) ==
    /\ data.type.t \in {"Function", "Int"}
    /\ IsFunctionData(data) => data.tag \in DOMAIN functions /\ functions[data.tag].name = data.name
IsScope(table) ==
    /\ IsTable(table)
    /\ \A i \in DOMAIN table : NamesItsFunction(table[i])
    /\ \A i, j \in DOMAIN table :
          IsFunctionData(table[i]) /\ IsFunctionData(table[j]) /\ table[i].tag = table[j].tag => i = j

IsContext(c) ==
    /\ DOMAIN c = {"fn", "res", "backlog"}
    /\ c.fn \in 0..Len(functions)
    /\ IsResolver(c.res)
    /\ IsScope(c.res.local_bindings)
    /\ IsBacklog(c.backlog, c.fn)

\* The main script first, then bodies that have begun, each declared by the
\* context below it.
ContextsWell ==
    /\ IsSequence(contexts) /\ Len(contexts) \in 1..MaxContexts
    /\ \A i \in DOMAIN contexts :
          /\ IsContext(contexts[i])
          /\ contexts[i].fn = 0 <=> i = 1
          /\ contexts[i].res.is_global <=> i = 1
          /\ i > 1 => IsResolved(contexts[i].fn)
    /\ \A i, j \in DOMAIN contexts : contexts[i].fn = contexts[j].fn => i = j

\* The globals are the script's, and none is among its locals.
GlobalsWell ==
    /\ IsScope(global_bindings)
    /\ \A i \in DOMAIN global_bindings :
          IsFunctionData(global_bindings[i]) =>
             /\ functions[global_bindings[i].tag].outer = 0
             /\ \A j \in DOMAIN contexts[1].res.local_bindings :
                   LET data == contexts[1].res.local_bindings[j]
                   IN IsFunctionData(data) => data.tag # global_bindings[i].tag

\* The backlog of the script, moved out at its end.
LeftoversWell ==
    /\ IsBacklog(unfinished, 0)
    /\ funcs # <<>> => \E name \in FuncNames : IsList(funcs, name, 0) /\ unfinished[name] = <<>>
    /\ \/ unfinished = NoBacklog /\ funcs = <<>> /\ phase \notin {"leftovers", "done"}
       \/ contexts[1].backlog = NoBacklog /\ phase # "script"
    /\ phase = "done" => unfinished = NoBacklog /\ funcs = <<>>

HistoryWell ==
    /\ IsSequence(resolved)
    /\ \A k \in DOMAIN resolved :
          /\ resolved[k].fn \in DOMAIN functions
          /\ functions[resolved[k].fn].waits
    /\ \A c \in calls : c.fn \in DOMAIN functions /\ functions[c.fn].waits /\ c.globals \in Nat
    /\ \A u \in uses : u.fn \in 0..Len(functions) /\ u.slot \in 0..(Len(global_bindings) - 1)

\* Only a body that was begun declares functions.
OutersBegun == \A fn \in DOMAIN functions : functions[fn].outer # 0 => IsResolved(functions[fn].outer)

\* A body that was not resolved waits where it was declared, as long as its
\* declarer is under analysis, or is left over.
IsIn(fn, list) == \E k \in DOMAIN list : list[k] = fn
NoneLost ==
    \A fn \in DOMAIN functions, i \in DOMAIN contexts :
        functions[fn].waits /\ functions[fn].outer = contexts[i].fn =>
           \/ IsResolved(fn)
           \/ IsIn(fn, contexts[i].backlog[functions[fn].name])
           \/ i = 1 /\ (IsIn(fn, unfinished[functions[fn].name]) \/ IsIn(fn, funcs))

\* Behind each entry of a backlog is a function.
Counted ==
    \A i \in DOMAIN contexts, name \in FuncNames :
        LET waiting == contexts[i].backlog[name]
            named == {fn \in DOMAIN functions : functions[fn].name = name /\ functions[fn].waits
                                                  /\ functions[fn].outer = contexts[i].fn}
        IN /\ waiting # <<>> => named # {}
           /\ Len(waiting) > 1 => \E f, g \in named : f # g

\* A call that its declarer makes of a function whose name is its own.
IsFirstCall(c) == c.from = functions[c.fn].outer /\ ~Repeated(c.fn)

\* While a body is resolved no global is declared.
CallsSeeGlobals ==
    \A c \in calls, i \in DOMAIN contexts :
        IsFirstCall(c) /\ contexts[i].fn = c.fn => Len(global_bindings) <= c.globals

IInv ==
    /\ phase \in {"script", "leftovers", "done", "panicked"} /\ errors \in BOOLEAN /\ left \in 0..MaxStmts
    /\ FunctionsWell /\ ContextsWell /\ GlobalsWell /\ LeftoversWell /\ HistoryWell
    /\ OutersBegun /\ NoneLost /\ Counted /\ CallsSeeGlobals
    /\ ResolvedOnce /\ FirstCallResolves /\ GlobalsExist /\ PanicsOnlyOnRepeated

(***************************************************************************)
(* What the invariant says of the context under analysis.                  *)
(***************************************************************************)
\* There is a context, the topmost is under analysis, and it is that of the script
\* exactly if it has no function.
LEMMA Current ==
  ASSUME ContextsWell
  PROVE  /\ contexts # <<>>
         /\ Len(contexts) \in Nat \ {0} /\ DOMAIN contexts = 1..Len(contexts)
         /\ Len(contexts) \in DOMAIN contexts /\ 1 \in DOMAIN contexts
         /\ ctx = contexts[Len(contexts)] /\ IsContext(ctx)
         /\ ctx.fn = 0 <=> InMain
         /\ ctx.res.is_global <=> InMain
         /\ IsSequence(functions) => Len(functions) \in Nat /\ DOMAIN functions = 1..Len(functions)
<1>1. Len(contexts) \in 1..MaxContexts /\ MaxContexts \in Nat
  BY ResolverAssumption DEF ContextsWell
<1>2. DOMAIN contexts = 1..Len(contexts)
  BY Places DEF ContextsWell
<1>3. contexts # <<>>
  BY <1>1, SmallSequences
<1>4. Len(contexts) \in DOMAIN contexts /\ 1 \in DOMAIN contexts
  BY <1>1, <1>2
<1>5. ctx = contexts[Len(contexts)]
  BY DEF ctx, Last
<1>6. /\ IsContext(ctx)
      /\ ctx.fn = 0 <=> Len(contexts) = 1
      /\ ctx.res.is_global <=> Len(contexts) = 1
  BY <1>4, <1>5 DEF ContextsWell
<1> QED
  BY <1>1, <1>2, <1>3, <1>4, <1>5, <1>6, Places DEF InMain

\* It is the script's or that of a body that has begun.
LEMMA BegunContext ==
  ASSUME ContextsWell
  PROVE  ctx.fn = 0 \/ IsResolved(ctx.fn)
<1> SUFFICES ASSUME NEW fn, fn = ctx.fn, fn # 0 PROVE IsResolved(fn)
  OBVIOUS
<1>1. Len(contexts) \in DOMAIN contexts /\ ctx = contexts[Len(contexts)] /\ Len(contexts) \in Nat \ {0}
  BY Current
<1>2. Len(contexts) # 1
  BY <1>1, Current DEF InMain
<1> QED
  BY <1>1, <1>2 DEF ContextsWell

\* The functions that were declared stay what they are.
Grows ==
    /\ Len(functions) <= Len(functions)'
    /\ \A fn \in DOMAIN functions : fn \in (DOMAIN functions)' /\ functions'[fn] = functions[fn]

\* A declaration adds a function behind those there are.
LEMMA OneMoreFunction ==
  ASSUME FunctionsWell, NEW f,
         functions' = Append(functions, f)
  PROVE  /\ Grows
         /\ Len(functions)' = Len(functions) + 1 /\ Len(functions) \in Nat
         /\ DOMAIN functions = 1..Len(functions)
         /\ (DOMAIN functions)' = DOMAIN functions \cup {Len(functions) + 1}
         /\ functions'[Len(functions) + 1] = f
         /\ IsSequence(functions)'
<1>1. /\ Len(functions) \in Nat /\ DOMAIN functions = 1..Len(functions)
      /\ IsSequence(functions)
  BY Places DEF FunctionsWell
<1>2. /\ IsSequence(Append(functions, f))
      /\ Len(Append(functions, f)) = Len(functions) + 1
      /\ DOMAIN Append(functions, f) = 1..(Len(functions) + 1)
      /\ \A i \in 1..Len(functions) : Append(functions, f)[i] = functions[i]
      /\ Append(functions, f)[Len(functions) + 1] = f
  BY <1>1, Appended
<1>3. IsSequence(functions')
  BY <1>2
<1>4. 1..(Len(functions) + 1) = 1..Len(functions) \cup {Len(functions) + 1}
  BY <1>1
<1>5. \A fn \in DOMAIN functions : fn \in (DOMAIN functions)' /\ functions'[fn] = functions[fn]
  BY <1>1, <1>2
<1> QED
  BY <1>1, <1>2, <1>3, <1>4, <1>5 DEF Grows

\* Without a declaration they stay the same.
LEMMA SameFunctions ==
  ASSUME FunctionsWell, UNCHANGED functions
  PROVE  Grows /\ FunctionsWell'
<1>1. Len(functions) \in Nat
  BY Places DEF FunctionsWell
<1>2. FunctionsWell'
  BY DEF FunctionsWell
<1> QED
  BY <1>1, <1>2 DEF Grows

(***************************************************************************)
(* Tables, lists and contexts do not lose what they are.                   *)
(***************************************************************************)
\* A table still has one declaration at most of each function.
LEMMA ScopeKeeps ==
  ASSUME Grows, NEW table, IsScope(table)
  PROVE  IsScope(table)'
<1>1. \A i \in DOMAIN table : NamesItsFunction(table[i])'
  BY DEF Grows, IsScope, NamesItsFunction
<1> QED
  BY <1>1 DEF IsScope

\* A list of waiting functions still holds no function that is resolved.
LEMMA ListKeeps ==
  ASSUME Grows, NEW list, NEW name, NEW outer, IsList(list, name, outer),
         \A k \in DOMAIN list : list[k] # Taken => ~IsResolved(list[k])'
  PROVE  IsList(list, name, outer)'
<1>1. ASSUME NEW k \in DOMAIN list, list[k] # Taken
      PROVE  /\ list[k] \in (DOMAIN functions)'
             /\ functions'[list[k]].waits
             /\ functions'[list[k]].name = name
             /\ functions'[list[k]].outer = outer
             /\ ~IsResolved(list[k])'
  <2>1. /\ list[k] \in DOMAIN functions
        /\ functions[list[k]].waits
        /\ functions[list[k]].name = name
        /\ functions[list[k]].outer = outer
    BY <1>1 DEF IsList
  <2>2. list[k] \in (DOMAIN functions)' /\ functions'[list[k]] = functions[list[k]]
    BY <2>1 DEF Grows
  <2> QED
    BY <1>1, <2>1, <2>2
<1> QED
  BY <1>1 DEF IsList

\* The functions a context waits for.
WaitsIn(fn, backlog) == \E name \in FuncNames : IsIn(fn, backlog[name])

\* So do the lists of a backlog.
LEMMA BacklogKeeps ==
  ASSUME Grows, NEW backlog, NEW outer, IsBacklog(backlog, outer),
         \A fn : WaitsIn(fn, backlog) /\ fn # Taken => ~IsResolved(fn)'
  PROVE  IsBacklog(backlog, outer)'
<1>1. ASSUME NEW name \in FuncNames PROVE IsList(backlog[name], name, outer)'
  <2> DEFINE list == backlog[name]
  <2>1. IsList(list, name, outer)
    BY DEF IsBacklog
  <2>2. \A k \in DOMAIN list : list[k] # Taken => ~IsResolved(list[k])'
    BY DEF WaitsIn, IsIn
  <2> HIDE DEF list
  <2>3. IsList(list, name, outer)'
    BY <2>1, <2>2, ListKeeps
  <2> QED
    BY <2>3 DEF list
<1> QED
  BY <1>1 DEF IsBacklog

\* A context stays one.
LEMMA ContextKeeps ==
  ASSUME FunctionsWell, Grows, Len(functions)' \in Nat, NEW c, IsContext(c),
         \A fn : WaitsIn(fn, c.backlog) /\ fn # Taken => ~IsResolved(fn)'
  PROVE  IsContext(c)'
<1>1. IsScope(c.res.local_bindings)' /\ IsBacklog(c.backlog, c.fn)'
  BY ScopeKeeps, BacklogKeeps DEF IsContext
<1>2. c.fn \in 0..Len(functions)'
  <2>1. Len(functions) \in Nat
    BY Places DEF FunctionsWell
  <2> QED
    BY <2>1 DEF IsContext, Grows
<1> QED
  BY <1>1, <1>2 DEF IsContext

\* What waits was not resolved.
LEMMA WaitingUnresolved ==
  ASSUME NEW backlog, NEW outer, IsBacklog(backlog, outer)
  PROVE  \A fn : WaitsIn(fn, backlog) /\ fn # Taken =>
            /\ ~IsResolved(fn) /\ fn \in DOMAIN functions
            /\ functions[fn].waits /\ functions[fn].outer = outer
            /\ IsIn(fn, backlog[functions[fn].name])
BY DEF WaitsIn, IsIn, IsBacklog, IsList

(***************************************************************************)
(* Tables that take or drop declarations.                                  *)
(***************************************************************************)
\* A table takes the declaration of a function that it does not have.
LEMMA ScopeTakes ==
  ASSUME NEW table, IsScope(table)', NEW data, IsDeclaration(data), NamesItsFunction(data)',
         IsFunctionData(data) =>
            \A i \in DOMAIN table : IsFunctionData(table[i]) => table[i].tag # data.tag
  PROVE  IsScope(Append(table, data))'
<1> DEFINE t == Append(table, data)
<1>1. IsSequence(table) /\ Len(table) \in Nat /\ DOMAIN table = 1..Len(table) /\ IsTable(table)
  BY Places DEF IsScope, IsTable
<1>2. /\ DOMAIN t = 1..(Len(table) + 1)
      /\ \A i \in 1..Len(table) : t[i] = table[i]
      /\ t[Len(table) + 1] = data
  BY <1>1, Appended
<1>3. IsTable(t)
  BY <1>1, TableAppended
<1> HIDE DEF t
<1>4. \A i \in 1..(Len(table) + 1) : i \in 1..Len(table) \/ i = Len(table) + 1
  BY <1>1
<1>5. \A i \in DOMAIN t : NamesItsFunction(t[i])'
  BY <1>1, <1>2, <1>4 DEF IsScope
<1>6. \A i, j \in DOMAIN t :
         IsFunctionData(t[i]) /\ IsFunctionData(t[j]) /\ t[i].tag = t[j].tag => i = j
  BY <1>1, <1>2, <1>4 DEF IsScope
<1> QED
  BY <1>3, <1>5, <1>6 DEF IsScope, t

\* The first declarations of a table are one.
LEMMA ScopeCut ==
  ASSUME NEW table, IsScope(table)', NEW k \in 0..Len(table)
  PROVE  IsScope(SubSeq(table, 1, k))'
<1> DEFINE t == SubSeq(table, 1, k)
<1>1. IsSequence(table) /\ Len(table) \in Nat /\ DOMAIN table = 1..Len(table) /\ IsTable(table)
  BY Places DEF IsScope, IsTable
<1>2. /\ IsSequence(t) /\ DOMAIN t = 1..k
      /\ \A i \in 1..k : t[i] = table[i]
  BY <1>1, FirstPart
<1> HIDE DEF t
<1>3. \A i \in 1..k : i \in DOMAIN table
  BY <1>1
<1>4. IsTable(t)
  BY <1>1, <1>2, <1>3 DEF IsTable
<1>5. \A i \in DOMAIN t : NamesItsFunction(t[i])'
  BY <1>2, <1>3 DEF IsScope
<1> QED
  BY <1>2, <1>3, <1>4, <1>5 DEF IsScope, t

(***************************************************************************)
(* The stack of contexts: its top is replaced, it grows, it shrinks.       *)
(***************************************************************************)
\* The topmost context is replaced by one of the same function.
LEMMA ContextsReplaced ==
  ASSUME FunctionsWell, ContextsWell, Grows, Len(functions)' \in Nat,
         NEW c, IsContext(c)', c.fn = ctx.fn, c.res.is_global <=> ctx.res.is_global,
         contexts' = WithTop(c),
         \A fn : IsResolved(fn)' <=> IsResolved(fn)
  PROVE  /\ ContextsWell'
         /\ Len(contexts)' = Len(contexts)
         /\ (DOMAIN contexts)' = DOMAIN contexts
         /\ \A i \in 1..(Len(contexts) - 1) : contexts'[i] = contexts[i]
         /\ contexts'[Len(contexts)] = c
<1> DEFINE n == Len(contexts)
<1>1. /\ contexts # <<>> /\ IsSequence(contexts)
      /\ n \in Nat \ {0} /\ DOMAIN contexts = 1..n
      /\ n \in DOMAIN contexts /\ ctx = contexts[n]
  BY Current DEF ContextsWell
<1>2. /\ IsSequence(contexts') /\ Len(contexts') = n /\ DOMAIN contexts' = 1..n
      /\ \A i \in 1..(n - 1) : contexts'[i] = contexts[i]
      /\ contexts'[n] = c
  <2>1. /\ IsSequence(contexts') /\ Len(contexts') = Len(contexts)
        /\ DOMAIN contexts' = DOMAIN contexts
        /\ \A i \in DOMAIN contexts : i # Len(contexts) => contexts'[i] = contexts[i]
        /\ contexts'[Len(contexts)] = c
    BY <1>1, ReplacedAt DEF WithTop
  <2> QED
    BY <1>1, <2>1
<1> HIDE DEF n
<1>3. \A i \in 1..n : i \in 1..(n - 1) \/ i = n
  BY <1>1
<1>4. \A i \in 1..n : /\ contexts'[i].fn = contexts[i].fn
                      /\ contexts'[i].res.is_global <=> contexts[i].res.is_global
  BY <1>1, <1>2, <1>3
<1>5. ASSUME NEW i \in 1..n PROVE IsContext(contexts[i])'
  <2>1. CASE i \in 1..(n - 1)
    <3>1. \A d : IsContext(d) => IsContext(d)'
      <4> SUFFICES ASSUME NEW d, IsContext(d) PROVE IsContext(d)'
        OBVIOUS
      <4>1. \A fn : WaitsIn(fn, d.backlog) /\ fn # Taken => ~IsResolved(fn)'
        BY WaitingUnresolved DEF IsContext
      <4> QED
        BY <4>1, ContextKeeps
    <3>2. IsContext(contexts[i]) /\ contexts'[i] = contexts[i]
      BY <1>1, <1>2, <2>1 DEF ContextsWell
    <3> QED
      BY <3>1, <3>2
  <2>2. CASE i = n
    BY <1>2, <2>2
  <2> QED
    BY <1>3, <2>1, <2>2
<1>6. ContextsWell'
  <2>1. Len(contexts)' \in 1..MaxContexts
    BY <1>2 DEF ContextsWell, n
  <2>2. \A i \in 1..n : /\ contexts'[i].fn = 0 <=> i = 1
                        /\ contexts'[i].res.is_global <=> i = 1
                        /\ i > 1 => IsResolved(contexts[i].fn)'
    <3>1. \A i \in 1..n : i > 1 => IsResolved(contexts[i].fn)'
      <4> SUFFICES ASSUME NEW i \in 1..n, i > 1, NEW fn, fn = contexts'[i].fn
                   PROVE  IsResolved(fn)'
        OBVIOUS
      <4>1. fn = contexts[i].fn
        BY <1>4
      <4> QED
        BY <1>1, <4>1 DEF ContextsWell
    <3> QED
      BY <1>1, <1>4, <3>1 DEF ContextsWell
  <2>3. \A i, j \in 1..n : contexts'[i].fn = contexts'[j].fn => i = j
    BY <1>1, <1>4 DEF ContextsWell
  <2> QED
    BY <1>2, <1>5, <2>1, <2>2, <2>3 DEF ContextsWell
<1> QED
  BY <1>1, <1>2, <1>6 DEF n

\* The context of a body is put on top.
LEMMA ContextsPushed ==
  ASSUME FunctionsWell, FunctionsWell', ContextsWell, UNCHANGED functions,
         NEW below, NEW top, contexts' = Append(below, top),
         IsSequence(below), Len(below) = Len(contexts), Len(contexts) < MaxContexts,
         \A i \in DOMAIN contexts : /\ IsContext(below[i])'
                                    /\ below[i].fn = contexts[i].fn
                                    /\ below[i].res = contexts[i].res,
         IsContext(top)', top.fn # 0, ~top.res.is_global,
         \A i \in DOMAIN contexts : contexts[i].fn # top.fn,
         \A fn : IsResolved(fn)' <=> IsResolved(fn) \/ fn = top.fn
  PROVE  /\ ContextsWell'
         /\ Len(contexts)' = Len(contexts) + 1
         /\ (DOMAIN contexts)' = DOMAIN contexts \cup {Len(contexts) + 1}
         /\ \A i \in DOMAIN contexts : contexts'[i] = below[i]
         /\ contexts'[Len(contexts) + 1] = top
<1> DEFINE n == Len(contexts)
<1>1. n \in Nat \ {0} /\ DOMAIN contexts = 1..n /\ 1 \in DOMAIN contexts
  BY Current
<1>2. /\ IsSequence(contexts)' /\ Len(contexts)' = n + 1 /\ (DOMAIN contexts)' = 1..(n + 1)
      /\ \A i \in 1..n : contexts'[i] = below[i]
      /\ contexts'[n + 1] = top
  BY <1>1, Appended
<1>3. Len(contexts)' \in 1..MaxContexts
  BY <1>1, <1>2, ResolverAssumption DEF ContextsWell
<1> HIDE DEF n
<1>4. \A i \in 1..(n + 1) : i \in 1..n \/ i = n + 1
  BY <1>1
<1>5. \A i \in 1..(n + 1) : IsContext(contexts[i])'
  BY <1>1, <1>2, <1>4
<1>6. ASSUME NEW i \in 1..(n + 1)
      PROVE  /\ contexts'[i].fn = 0 <=> i = 1
             /\ contexts'[i].res.is_global <=> i = 1
             /\ i > 1 => IsResolved(contexts[i].fn)'
  <2>1. CASE i \in 1..n
    <3>1. contexts'[i].fn = contexts[i].fn /\ contexts'[i].res = contexts[i].res
      BY <1>1, <1>2, <2>1
    <3>2. \A fn : i > 1 /\ fn = contexts[i].fn => IsResolved(fn)'
      BY <1>1, <2>1 DEF ContextsWell
    <3>3. i > 1 => IsResolved(contexts[i].fn)'
      <4> SUFFICES ASSUME i > 1, NEW fn, fn = contexts'[i].fn PROVE IsResolved(fn)'
        OBVIOUS
      <4> QED
        BY <3>1, <3>2
    <3> QED
      BY <1>1, <2>1, <3>1, <3>3 DEF ContextsWell
  <2>2. CASE i = n + 1
    <3>1. IsResolved(contexts[i].fn)'
      <4> SUFFICES ASSUME NEW fn, fn = contexts'[i].fn PROVE IsResolved(fn)'
        OBVIOUS
      <4> QED
        BY <1>2, <2>2
    <3> QED
      BY <1>1, <1>2, <2>2, <3>1
  <2> QED
    BY <1>4, <2>1, <2>2
<1>7. \A i, j \in 1..(n + 1) : contexts'[i].fn = contexts'[j].fn => i = j
  BY <1>1, <1>2, <1>4 DEF ContextsWell
<1>8. 1..(n + 1) = 1..n \cup {n + 1}
  BY <1>1
<1> QED
  BY <1>1, <1>2, <1>3, <1>5, <1>6, <1>7, <1>8 DEF ContextsWell, n

\* The context of a body is dropped at its end.
LEMMA ContextsPopped ==
  ASSUME FunctionsWell, ContextsWell, UNCHANGED <<functions, resolved>>, ~InMain,
         contexts' = Front(contexts)
  PROVE  /\ ContextsWell'
         /\ (DOMAIN contexts)' \subseteq DOMAIN contexts
         /\ 1 \in (DOMAIN contexts)'
         /\ \A i \in (DOMAIN contexts)' : contexts'[i] = contexts[i]
<1> DEFINE n == Len(contexts)
<1>1. /\ contexts # <<>> /\ n \in Nat \ {0} /\ DOMAIN contexts = 1..n /\ n # 1
      /\ IsSequence(contexts)
  BY Current DEF InMain, ContextsWell
<1>2. /\ IsSequence(contexts)' /\ Len(contexts)' = n - 1 /\ (DOMAIN contexts)' = 1..(n - 1)
      /\ \A i \in 1..(n - 1) : contexts'[i] = contexts[i]
  BY <1>1, Popped
<1>3. Len(contexts)' \in 1..MaxContexts
  BY <1>1, <1>2, ResolverAssumption DEF ContextsWell
<1> HIDE DEF n
<1>4. \A i \in 1..(n - 1) : i \in 1..n
  BY <1>1
<1>5. \A d : IsContext(d) => IsContext(d)'
  BY DEF IsContext, IsScope, NamesItsFunction, IsBacklog, IsList, IsResolved
<1>6. \A i \in 1..(n - 1) : IsContext(contexts[i])'
  BY <1>1, <1>2, <1>4, <1>5 DEF ContextsWell
<1>7. \A fn : IsResolved(fn)' <=> IsResolved(fn)
  BY DEF IsResolved
<1>8. \A i \in 1..(n - 1) : i > 1 => IsResolved(contexts[i].fn)'
  <2> SUFFICES ASSUME NEW i \in 1..(n - 1), i > 1, NEW fn, fn = contexts'[i].fn
               PROVE  IsResolved(fn)'
    OBVIOUS
  <2> QED
    BY <1>1, <1>2, <1>4, <1>7 DEF ContextsWell
<1>9. ContextsWell'
  BY <1>1, <1>2, <1>3, <1>4, <1>6, <1>8 DEF ContextsWell
<1>10. 1 \in 1..(n - 1)
  BY <1>1
<1> QED
  BY <1>1, <1>2, <1>4, <1>9, <1>10

(***************************************************************************)
(* What a step that resolves nothing and calls nothing keeps.              *)
(***************************************************************************)
\* A name that is used twice stays so, and no call becomes the first one.
LEMMA FirstCallsBefore ==
  ASSUME Grows
  PROVE  /\ \A fn \in DOMAIN functions : Repeated(fn) => Repeated(fn)'
         /\ \A c : c.fn \in DOMAIN functions /\ IsFirstCall(c)' => IsFirstCall(c)
<1>1. ASSUME NEW fn \in DOMAIN functions, Repeated(fn) PROVE Repeated(fn)'
  BY <1>1 DEF Repeated, Grows
<1>2. ASSUME NEW c, c.fn \in DOMAIN functions, IsFirstCall(c)' PROVE IsFirstCall(c)
  BY <1>1, <1>2 DEF IsFirstCall, Grows
<1> QED
  BY <1>1, <1>2

\* What the invariant says of past calls stays true while none is added.
LEMMA PastKeeps ==
  ASSUME IInv, Grows, Len(functions)' \in Nat, UNCHANGED history,
         phase' = "panicked" =>
            phase = "panicked" \/ \E fn \in DOMAIN functions : functions[fn].waits /\ Repeated(fn),
         \A i \in (DOMAIN contexts)' : \E j \in DOMAIN contexts : contexts'[i].fn = contexts[j].fn,
         Len(global_bindings)' \in Nat, Len(global_bindings)' >= Len(global_bindings),
         ~InMain => Len(global_bindings)' = Len(global_bindings)
  PROVE  /\ HistoryWell' /\ CallsSeeGlobals'
         /\ ResolvedOnce' /\ FirstCallResolves' /\ GlobalsExist' /\ PanicsOnlyOnRepeated'
<1>1. /\ FunctionsWell /\ ContextsWell /\ HistoryWell /\ GlobalsWell /\ CallsSeeGlobals
      /\ ResolvedOnce /\ FirstCallResolves /\ GlobalsExist /\ PanicsOnlyOnRepeated
  BY DEF IInv
<1>2. UNCHANGED <<resolved, calls, uses>>
  BY DEF history
<1>3. /\ Len(functions) \in Nat /\ DOMAIN functions = 1..Len(functions)
      /\ Len(global_bindings) \in Nat
  BY <1>1, Places DEF FunctionsWell, GlobalsWell, IsScope, IsTable
<1>4. \A c \in calls : c.fn \in DOMAIN functions /\ functions'[c.fn] = functions[c.fn]
  BY <1>1 DEF HistoryWell, Grows
<1>5. HistoryWell'
  <2>1. \A k \in DOMAIN resolved : /\ resolved[k].fn \in (DOMAIN functions)'
                                   /\ functions'[resolved[k].fn].waits
    BY <1>1 DEF HistoryWell, Grows
  <2>2. \A c \in calls : c.fn \in (DOMAIN functions)' /\ functions'[c.fn].waits /\ c.globals \in Nat
    BY <1>1, <1>4 DEF HistoryWell, Grows
  <2>3. \A u \in uses : u.fn \in 0..Len(functions)' /\ u.slot \in 0..(Len(global_bindings)' - 1)
    BY <1>1, <1>3 DEF HistoryWell, Grows
  <2> QED
    BY <1>1, <1>2, <2>1, <2>2, <2>3 DEF HistoryWell
<1>6. \A c \in calls : IsFirstCall(c)' => IsFirstCall(c)
  BY <1>4, FirstCallsBefore
<1>7. CallsSeeGlobals'
  <2> SUFFICES ASSUME NEW c \in calls, NEW i \in (DOMAIN contexts)', IsFirstCall(c)',
                      contexts'[i].fn = c.fn
               PROVE  Len(global_bindings)' <= c.globals
    BY <1>2 DEF CallsSeeGlobals
  <2>1. PICK j \in DOMAIN contexts : contexts[j].fn = c.fn
    OBVIOUS
  <2>2. Len(global_bindings) <= c.globals
    BY <1>1, <1>6, <2>1 DEF CallsSeeGlobals
  <2>3. contexts[j].fn # 0
    BY <1>3, <1>4, <2>1
  <2>4. ~InMain
    BY <1>1, <2>3, Current DEF InMain, ContextsWell
  <2> QED
    BY <2>2, <2>4
<1>8. FirstCallResolves'
  <2> SUFFICES ASSUME NEW c \in calls, IsFirstCall(c)' PROVE IsResolved(c.fn)'
    BY <1>2 DEF FirstCallResolves, IsFirstCall
  <2>1. IsResolved(c.fn)
    BY <1>1, <1>6 DEF FirstCallResolves, IsFirstCall
  <2> QED
    BY <1>2, <2>1 DEF IsResolved
<1>9. GlobalsExist'
  BY <1>1, <1>2, <1>6 DEF GlobalsExist, IsFirstCall
<1>10. PanicsOnlyOnRepeated'
  <2> SUFFICES ASSUME phase' = "panicked"
               PROVE  \E fn \in (DOMAIN functions)' : functions'[fn].waits /\ Repeated(fn)'
    BY DEF PanicsOnlyOnRepeated
  <2>1. PICK fn \in DOMAIN functions : functions[fn].waits /\ Repeated(fn)
    BY <1>1 DEF PanicsOnlyOnRepeated
  <2>2. Repeated(fn)' /\ fn \in (DOMAIN functions)' /\ functions'[fn].waits
    BY <2>1, FirstCallsBefore DEF Grows
  <2> QED
    BY <2>2
<1>11. ResolvedOnce'
  BY <1>1, <1>2 DEF ResolvedOnce
<1> QED
  BY <1>5, <1>7, <1>8, <1>9, <1>10, <1>11

\* Nothing waits.
LEMMA NothingWaits ==
  ASSUME NEW outer
  PROVE  IsBacklog(NoBacklog, outer) /\ IsBacklog(NoBacklog, outer)'
BY SmallSequences DEF NoBacklog, IsBacklog, IsList

\* The function around another has been begun.
LEMMA OutersKeep ==
  ASSUME OutersBegun, Grows, \A fn : IsResolved(fn) => IsResolved(fn)',
         \A fn \in (DOMAIN functions)' : fn \notin DOMAIN functions =>
            \E outer : functions'[fn].outer = outer /\ (outer = 0 \/ IsResolved(outer))
  PROVE  OutersBegun'
<1> SUFFICES ASSUME NEW fn \in (DOMAIN functions)', NEW outer, outer = functions'[fn].outer, outer # 0
             PROVE  IsResolved(outer)'
  BY DEF OutersBegun
<1>1. fn \in DOMAIN functions => functions'[fn] = functions[fn]
  BY DEF Grows
<1>2. IsResolved(outer)
  BY <1>1 DEF OutersBegun
<1> QED
  BY <1>2

\* What is left over is what the script has declared and not called.
LEMMA LeftoversKeep ==
  ASSUME FunctionsWell, LeftoversWell, Grows, UNCHANGED leftovers,
         phase' = phase \/ phase' = "panicked",
         \A fn \in DOMAIN functions : IsResolved(fn)' =>
            IsResolved(fn) \/ functions[fn].outer # 0 \/ phase = "script",
         phase = "script" \/ contexts'[1].backlog = contexts[1].backlog
  PROVE  LeftoversWell'
<1>1. UNCHANGED <<unfinished, funcs>>
  BY DEF leftovers
<1>2. CASE unfinished = NoBacklog /\ funcs = <<>> /\ phase \notin {"leftovers", "done"}
  <2>1. IsBacklog(unfinished, 0)'
    BY <1>1, <1>2, NothingWaits
  <2> QED
    BY <1>1, <1>2, <2>1 DEF LeftoversWell
<1>3. CASE contexts[1].backlog = NoBacklog /\ phase # "script"
  <2>1. ASSUME NEW list, NEW name, IsList(list, name, 0) PROVE IsList(list, name, 0)'
    <3>1. \A k \in DOMAIN list : list[k] # Taken => ~IsResolved(list[k])'
      BY <1>3, <2>1 DEF IsList
    <3> QED
      BY <2>1, <3>1, ListKeeps
  <2>2. IsBacklog(unfinished, 0)'
    BY <1>1, <2>1 DEF IsBacklog, LeftoversWell
  <2>3. funcs' # <<>> => \E name \in FuncNames : IsList(funcs, name, 0)' /\ unfinished'[name] = <<>>
    <3> SUFFICES ASSUME funcs # <<>>, NEW list, list = funcs'
                 PROVE  \E name \in FuncNames : IsList(list, name, 0)' /\ unfinished'[name] = <<>>
      BY <1>1
    <3> QED
      BY <1>1, <2>1 DEF LeftoversWell
  <2>4. phase' # "script"
    BY <1>3
  <2> QED
    BY <1>1, <1>3, <2>2, <2>3, <2>4 DEF LeftoversWell
<1> QED
  BY <1>2, <1>3 DEF LeftoversWell

\* No function of the script is lost.
LEMMA NoneLostKeeps ==
  ASSUME NoneLost, Grows, UNCHANGED leftovers,
         \A fn : IsResolved(fn) => IsResolved(fn)',
         \A fn \in (DOMAIN functions)' : fn \notin DOMAIN functions => ~functions'[fn].waits,
         \A i \in (DOMAIN contexts)' : /\ i \in DOMAIN contexts
                                       /\ contexts'[i].fn = contexts[i].fn
                                       /\ contexts'[i].backlog = contexts[i].backlog
  PROVE  NoneLost'
<1>1. UNCHANGED <<unfinished, funcs>>
  BY DEF leftovers
<1>2. ASSUME NEW fn \in (DOMAIN functions)', NEW i \in (DOMAIN contexts)',
             functions'[fn].waits, functions'[fn].outer = contexts'[i].fn
      PROVE  \/ IsResolved(fn)'
             \/ IsIn(fn, contexts[i].backlog[functions[fn].name])'
             \/ i = 1 /\ (IsIn(fn, unfinished[functions[fn].name])' \/ IsIn(fn, funcs)')
  <2>1. fn \in DOMAIN functions /\ functions'[fn] = functions[fn]
    BY <1>2 DEF Grows
  <2>2. i \in DOMAIN contexts /\ functions[fn].waits /\ functions[fn].outer = contexts[i].fn
    BY <1>2, <2>1
  <2>3. \/ IsResolved(fn)
        \/ IsIn(fn, contexts[i].backlog[functions[fn].name])
        \/ i = 1 /\ (IsIn(fn, unfinished[functions[fn].name]) \/ IsIn(fn, funcs))
    BY <2>1, <2>2 DEF NoneLost
  <2> QED
    BY <1>1, <2>1, <2>3 DEF IsIn
<1> QED
  BY <1>2 DEF NoneLost

\* A backlog counts the functions of a name as the tables do.
LEMMA CountedKeeps ==
  ASSUME Counted, Grows,
         \A i \in (DOMAIN contexts)' : /\ i \in DOMAIN contexts
                                       /\ contexts'[i].fn = contexts[i].fn
                                       /\ contexts'[i].backlog = contexts[i].backlog
  PROVE  Counted'
<1> SUFFICES ASSUME NEW i \in (DOMAIN contexts)', NEW name \in FuncNames
             PROVE  LET waiting == contexts[i].backlog[name]
                        named == {fn \in DOMAIN functions : functions[fn].name = name /\ functions[fn].waits
                                                             /\ functions[fn].outer = contexts[i].fn}
                    IN (/\ waiting # <<>> => named # {}
                        /\ Len(waiting) > 1 => \E f, g \in named : f # g)'
  BY DEF Counted
<1> DEFINE named == {fn \in DOMAIN functions : functions[fn].name = name /\ functions[fn].waits
                                                /\ functions[fn].outer = contexts[i].fn}
<1>1. i \in DOMAIN contexts /\ contexts'[i].fn = contexts[i].fn
      /\ contexts'[i].backlog = contexts[i].backlog
  OBVIOUS
<1>2. \A fn \in named : fn \in named'
  BY <1>1 DEF Grows
<1>3. /\ contexts[i].backlog[name] # <<>> => named # {}
      /\ Len(contexts[i].backlog[name]) > 1 => \E f, g \in named : f # g
  BY <1>1 DEF Counted
<1> HIDE DEF named
<1>4. /\ contexts'[i].backlog[name] # <<>> => named' # {}
      /\ Len(contexts'[i].backlog[name]) > 1 => \E f, g \in named' : f # g
  BY <1>1, <1>2, <1>3
<1> QED
  BY <1>4 DEF named

\* The globals stay a table, and apart from the locals of the script.
LEMMA GlobalsKeep ==
  ASSUME GlobalsWell, Grows, UNCHANGED global_bindings,
         \A j \in DOMAIN contexts'[1].res.local_bindings :
            \E k \in DOMAIN contexts[1].res.local_bindings :
               contexts'[1].res.local_bindings[j] = contexts[1].res.local_bindings[k]
  PROVE  GlobalsWell'
<1>1. IsScope(global_bindings)'
  <2> SUFFICES ASSUME NEW table, table = global_bindings' PROVE IsScope(table)'
    OBVIOUS
  <2> QED
    BY ScopeKeeps DEF GlobalsWell
<1>2. ASSUME NEW i \in DOMAIN global_bindings, IsFunctionData(global_bindings[i])
      PROVE  functions'[global_bindings[i].tag].outer = 0
  BY <1>2 DEF GlobalsWell, Grows, IsScope, NamesItsFunction
<1> QED
  BY <1>1, <1>2 DEF GlobalsWell

(***************************************************************************)
(* Blocks.                                                                 *)
(***************************************************************************)
\* Contexts stay contexts while nothing is resolved.
LEMMA ContextsKeep ==
  ASSUME FunctionsWell, Grows, Len(functions)' \in Nat, \A fn : IsResolved(fn)' => IsResolved(fn)
  PROVE  \A c : IsContext(c) => IsContext(c)'
BY ContextKeeps, WaitingUnresolved DEF IsContext

\* The locals of a context are cut.
LEMMA BlockKeeps ==
  ASSUME IInv, NEW res, IsResolver(res), res.is_global <=> ctx.res.is_global,
         NEW old, old = ctx, NEW c, c = [old EXCEPT !.res = res],
         NEW k \in 0..Len(old.res.local_bindings),
         res.local_bindings = SubSeq(old.res.local_bindings, 1, k),
         contexts' = WithTop(c), left' \in 0..MaxStmts,
         UNCHANGED <<global_bindings, functions, errors, phase, leftovers, history>>
  PROVE  IInv'
<1> DEFINE locals == old.res.local_bindings
           n == Len(contexts)
<1>1. /\ FunctionsWell /\ ContextsWell /\ GlobalsWell /\ LeftoversWell /\ NoneLost /\ Counted
      /\ OutersBegun
      /\ errors \in BOOLEAN /\ phase \in {"script", "leftovers", "done", "panicked"}
  BY DEF IInv
<1>2. /\ Grows /\ FunctionsWell' /\ Len(functions)' \in Nat /\ Len(functions) \in Nat
      /\ \A fn : IsResolved(fn)' <=> IsResolved(fn)
      /\ Len(global_bindings) \in Nat
  BY <1>1, SameFunctions, Places DEF history, IsResolved, FunctionsWell, GlobalsWell, IsScope, IsTable
<1>3. /\ n \in DOMAIN contexts /\ 1 \in DOMAIN contexts
      /\ old = contexts[n] /\ IsContext(old)
      /\ n \in Nat \ {0} /\ DOMAIN contexts = 1..n
  BY <1>1, Current
<1>4. /\ Len(locals) \in Nat /\ DOMAIN locals = 1..Len(locals)
      /\ DOMAIN SubSeq(locals, 1, k) = 1..k
      /\ \A i \in 1..k : SubSeq(locals, 1, k)[i] = locals[i]
  BY <1>3, Places, FirstPart DEF IsContext, IsResolver, IsTable
<1>5. IsContext(old)'
  BY <1>1, <1>2, <1>3, ContextsKeep
<1>6. IsContext(c)' /\ c.fn = old.fn /\ c.backlog = old.backlog /\ c.res = res
  <2>1. IsScope(SubSeq(locals, 1, k))'
    BY <1>5, ScopeCut DEF IsContext
  <2>2. /\ c.fn = old.fn /\ c.backlog = old.backlog /\ c.res = res
        /\ DOMAIN c = {"fn", "res", "backlog"}
    BY <1>3 DEF IsContext
  <2> QED
    BY <1>5, <2>1, <2>2 DEF IsContext
<1>7. /\ ContextsWell'
      /\ (DOMAIN contexts)' = DOMAIN contexts
      /\ \A i \in 1..(n - 1) : contexts'[i] = contexts[i]
      /\ contexts'[n] = c
  <2>1. c.fn = ctx.fn /\ (c.res.is_global <=> ctx.res.is_global)
    BY <1>6
  <2> QED
    BY <1>1, <1>2, <1>3, <1>6, <2>1, ContextsReplaced
<1> HIDE DEF n
<1>8. \A i \in (DOMAIN contexts)' : /\ i \in DOMAIN contexts
                                    /\ contexts'[i].fn = contexts[i].fn
                                    /\ contexts'[i].backlog = contexts[i].backlog
  <2>1. \A i \in 1..n : i \in 1..(n - 1) \/ i = n
    BY <1>3
  <2> QED
    BY <1>3, <1>6, <1>7, <2>1
<1>9. \A j \in DOMAIN contexts'[1].res.local_bindings :
         \E i \in DOMAIN contexts[1].res.local_bindings :
            contexts'[1].res.local_bindings[j] = contexts[1].res.local_bindings[i]
  <2>1. CASE n = 1
    <3>1. \A j \in 1..k : j \in DOMAIN locals
      BY <1>4
    <3>2. /\ contexts'[1].res.local_bindings = SubSeq(locals, 1, k)
          /\ contexts[1].res.local_bindings = locals
      BY <1>3, <1>6, <1>7, <2>1
    <3> QED
      BY <1>4, <3>1, <3>2
  <2>2. CASE n # 1
    <3>1. 1 \in 1..(n - 1)
      BY <1>3, <2>2
    <3>2. contexts'[1] = contexts[1]
      BY <1>7, <3>1
    <3> QED
      BY <3>2
  <2> QED
    BY <2>1, <2>2
<1>10. GlobalsWell'
  BY <1>1, <1>2, <1>9, GlobalsKeep
<1>11. LeftoversWell'
  BY <1>1, <1>2, <1>3, <1>7, <1>8, LeftoversKeep
<1>12. NoneLost' /\ Counted' /\ OutersBegun'
  <2>1. OutersBegun'
    BY <1>1, <1>2, OutersKeep
  <2> QED
    BY <1>1, <1>2, <1>8, <2>1, NoneLostKeeps, CountedKeeps
<1>13. /\ HistoryWell' /\ CallsSeeGlobals'
       /\ ResolvedOnce' /\ FirstCallResolves' /\ GlobalsExist' /\ PanicsOnlyOnRepeated'
  BY <1>2, <1>8, PastKeeps
<1> QED
  BY <1>1, <1>2, <1>7, <1>10, <1>11, <1>12, <1>13 DEF IInv

\* A block begins.
LEMMA EnterBlockKeeps == ASSUME IInv, EnterBlock PROVE IInv'
<1> DEFINE res == EnterScope(ctx.res)
           locals == ctx.res.local_bindings
<1>1. IsResolver(ctx.res) /\ left \in 0..MaxStmts /\ MaxStmts \in Nat
  BY Current, ResolverAssumption DEF IInv, IsContext
<1>2. IsResolver(res) /\ res.is_global = ctx.res.is_global /\ res.local_bindings = locals
  BY <1>1 DEF EnterScope, IsResolver
<1>3. Len(locals) \in Nat /\ Len(locals) \in 0..Len(locals) /\ SubSeq(locals, 1, Len(locals)) = locals
  <2>1. locals \in Seq(Range(locals)) /\ Len(locals) \in Nat
    BY <1>1, Places DEF IsResolver, IsTable, IsSequence
  <2> QED
    BY <2>1
<1>4. left' \in 0..MaxStmts
  BY <1>1 DEF EnterBlock, Stmt
<1>5. /\ contexts' = WithTop([ctx EXCEPT !.res = res])
      /\ UNCHANGED <<global_bindings, functions, errors, phase, leftovers, history>>
  BY DEF EnterBlock, Stmt
<1> HIDE DEF res, locals
<1> QED
  BY <1>2, <1>3, <1>4, <1>5, BlockKeeps DEF locals

\* A block ends, and with it its locals.
LEMMA ExitBlockKeeps == ASSUME IInv, ExitBlock PROVE IInv'
<1> DEFINE res == ExitScope(ctx.res)
<1>1. IsResolver(ctx.res) /\ left \in 0..MaxStmts
  BY Current DEF IInv, IsContext
<1>2. ctx.res.depth # 0
  BY <1>1 DEF ExitBlock, IsResolver
<1>3. PICK k \in 0..Len(ctx.res.local_bindings) :
         /\ IsResolver(res) /\ res.is_global = ctx.res.is_global
         /\ res.local_bindings = SubSeq(ctx.res.local_bindings, 1, k)
  BY <1>1, <1>2, ExitScopeCuts
<1>4. /\ contexts' = WithTop([ctx EXCEPT !.res = res]) /\ left' = left
      /\ UNCHANGED <<global_bindings, functions, errors, phase, leftovers, history>>
  BY DEF ExitBlock
<1> HIDE DEF res
<1> QED
  BY <1>1, <1>3, <1>4, BlockKeeps

(***************************************************************************)
(* The end of a body.                                                      *)
(***************************************************************************)
\* A body ends, and the one that called it goes on.
LEMMA EndBodyKeeps == ASSUME IInv, EndBody PROVE IInv'
<1>1. /\ FunctionsWell /\ ContextsWell /\ GlobalsWell /\ LeftoversWell /\ NoneLost /\ Counted
      /\ OutersBegun
      /\ errors \in BOOLEAN /\ phase \in {"script", "leftovers", "done", "panicked"}
      /\ left \in 0..MaxStmts
  BY DEF IInv
<1>2. /\ ~InMain /\ contexts' = Front(contexts)
      /\ UNCHANGED <<global_bindings, functions, errors, phase, leftovers, left, history>>
      /\ UNCHANGED <<resolved, functions>>
  BY DEF EndBody, history
<1>3. /\ Grows /\ FunctionsWell' /\ Len(functions)' \in Nat
      /\ \A fn : IsResolved(fn)' <=> IsResolved(fn)
      /\ Len(global_bindings) \in Nat
  BY <1>1, <1>2, SameFunctions, Places
     DEF IsResolved, FunctionsWell, GlobalsWell, IsScope, IsTable
<1>4. /\ ContextsWell'
      /\ (DOMAIN contexts)' \subseteq DOMAIN contexts
      /\ 1 \in (DOMAIN contexts)'
      /\ \A i \in (DOMAIN contexts)' : contexts'[i] = contexts[i]
  BY <1>1, <1>2, ContextsPopped
<1>5. \A i \in (DOMAIN contexts)' : /\ i \in DOMAIN contexts
                                    /\ contexts'[i].fn = contexts[i].fn
                                    /\ contexts'[i].backlog = contexts[i].backlog
  BY <1>4
<1>6. GlobalsWell'
  BY <1>1, <1>2, <1>3, <1>4, GlobalsKeep
<1>7. LeftoversWell'
  BY <1>1, <1>2, <1>3, <1>4, LeftoversKeep
<1>8. NoneLost' /\ Counted' /\ OutersBegun'
  <2>1. OutersBegun'
    BY <1>1, <1>2, <1>3, OutersKeep
  <2> QED
    BY <1>1, <1>2, <1>3, <1>5, <2>1, NoneLostKeeps, CountedKeeps
<1>9. /\ HistoryWell' /\ CallsSeeGlobals'
      /\ ResolvedOnce' /\ FirstCallResolves' /\ GlobalsExist' /\ PanicsOnlyOnRepeated'
  BY <1>2, <1>3, <1>5, PastKeeps
<1> QED
  BY <1>1, <1>2, <1>3, <1>4, <1>6, <1>7, <1>8, <1>9 DEF IInv

(***************************************************************************)
(* Steps that leave the tables and the contexts alone.                     *)
(***************************************************************************)
\* What the invariant says of tables and contexts stays true with them.
LEMMA SameTables ==
  ASSUME IInv, UNCHANGED <<contexts, functions, global_bindings, resolved>>
  PROVE  /\ Grows /\ FunctionsWell' /\ ContextsWell' /\ GlobalsWell' /\ Counted' /\ OutersBegun'
         /\ Len(functions)' \in Nat /\ Len(global_bindings) \in Nat
         /\ \A fn : IsResolved(fn)' <=> IsResolved(fn)
<1>1. FunctionsWell /\ ContextsWell /\ GlobalsWell /\ Counted /\ OutersBegun
  BY DEF IInv
<1>2. /\ Grows /\ FunctionsWell' /\ Len(functions)' \in Nat /\ Len(global_bindings) \in Nat
      /\ \A fn : IsResolved(fn)' <=> IsResolved(fn)
  BY <1>1, SameFunctions, Places DEF IsResolved, FunctionsWell, GlobalsWell, IsScope, IsTable
<1>3. \A c : IsContext(c) => IsContext(c)'
  BY <1>1, <1>2, ContextsKeep
<1>4. ContextsWell'
  <2>1. \A i \in (DOMAIN contexts)' : IsContext(contexts[i])'
    BY <1>1, <1>3 DEF ContextsWell
  <2>2. \A i \in (DOMAIN contexts)' : i > 1 => IsResolved(contexts[i].fn)'
    <3> SUFFICES ASSUME NEW i \in DOMAIN contexts, i > 1, NEW fn, fn = contexts'[i].fn
                 PROVE  IsResolved(fn)'
      OBVIOUS
    <3> QED
      BY <1>1, <1>2 DEF ContextsWell
  <2> QED
    BY <1>1, <2>1, <2>2 DEF ContextsWell
<1>5. GlobalsWell'
  BY <1>1, <1>2, GlobalsKeep
<1>6. Counted'
  BY <1>1, <1>2, CountedKeeps
<1>7. OutersBegun'
  BY <1>1, <1>2, OutersKeep
<1> QED
  BY <1>2, <1>4, <1>5, <1>6, <1>7

\* A name or a callee that is not found, or a panic.
LEMMA NothingKeeps ==
  ASSUME IInv, UNCHANGED <<contexts, functions, global_bindings, leftovers, history>>,
         errors' \in BOOLEAN, left' \in 0..MaxStmts,
         \/ phase' = phase
         \/ /\ phase' = "panicked"
            /\ \E fn \in DOMAIN functions : functions[fn].waits /\ Repeated(fn)
  PROVE  IInv'
<1>1. UNCHANGED <<resolved, calls, uses>> /\ IInv
  BY DEF history
<1>2. /\ Grows /\ FunctionsWell' /\ ContextsWell' /\ GlobalsWell' /\ Counted' /\ OutersBegun'
      /\ Len(functions)' \in Nat /\ Len(global_bindings) \in Nat
      /\ \A fn : IsResolved(fn)' <=> IsResolved(fn)
  BY <1>1, SameTables
<1>3. LeftoversWell'
  BY <1>1, <1>2, LeftoversKeep DEF IInv
<1>4. NoneLost'
  BY <1>1, <1>2, NoneLostKeeps DEF IInv
<1>5. /\ HistoryWell' /\ CallsSeeGlobals'
      /\ ResolvedOnce' /\ FirstCallResolves' /\ GlobalsExist' /\ PanicsOnlyOnRepeated'
  BY <1>1, <1>2, PastKeeps
<1>6. phase' \in {"script", "leftovers", "done", "panicked"}
  BY DEF IInv
<1> QED
  BY <1>2, <1>3, <1>4, <1>5, <1>6 DEF IInv

\* A statement is one of the number there may be.
LEMMA StatementTakesOne ==
  ASSUME left \in 0..MaxStmts, left > 0, left' = left - 1
  PROVE  left' \in 0..MaxStmts
BY ResolverAssumption

\* A variable is looked up.
LEMMA MentionKeeps == ASSUME IInv, NEW name, Mention(name) PROVE IInv'
<1> DEFINE found == GetIdentifier(ctx.res, global_bindings, name)
           new == {[fn |-> ctx.fn, slot |-> b.slot] : b \in {c \in found : c.space = "Globals"}}
<1>1. left' \in 0..MaxStmts
  BY StatementTakesOne DEF IInv, Mention, Stmt
<1>2. CASE found = {}
  <2>1. /\ UNCHANGED <<contexts, functions, global_bindings, leftovers, history, phase>>
        /\ errors' = TRUE
    BY <1>2 DEF Mention, CallError, Stmt
  <2> QED
    BY <1>1, <2>1, NothingKeeps
<1>3. CASE found # {}
  <2>1. /\ uses' = uses \cup new
        /\ UNCHANGED <<contexts, functions, global_bindings, errors, resolved, calls, phase, leftovers>>
    BY <1>3 DEF Mention, Stmt
  <2>2. /\ FunctionsWell /\ ContextsWell /\ GlobalsWell /\ LeftoversWell /\ HistoryWell /\ NoneLost
        /\ CallsSeeGlobals /\ ResolvedOnce /\ FirstCallResolves /\ GlobalsExist /\ PanicsOnlyOnRepeated
        /\ errors \in BOOLEAN /\ phase \in {"script", "leftovers", "done", "panicked"}
    BY DEF IInv
  <2>3. /\ Grows /\ FunctionsWell' /\ ContextsWell' /\ GlobalsWell' /\ Counted' /\ OutersBegun' /\ OutersBegun'
        /\ \A fn : IsResolved(fn)' <=> IsResolved(fn)
    BY <2>1, SameTables
  <2>4. LeftoversWell' /\ NoneLost'
    BY <2>1, <2>2, <2>3, LeftoversKeep, NoneLostKeeps
  <2>5. \A u \in new : u.fn = ctx.fn /\ u.slot \in 0..(Len(global_bindings) - 1)
    <3>1. /\ Len(global_bindings) \in Nat
          /\ DOMAIN global_bindings = 1..Len(global_bindings)
      BY <2>2, Places DEF GlobalsWell, IsScope, IsTable
    <3>2. \A b \in found : b.space = "Globals" => b.slot \in 0..(Len(global_bindings) - 1)
      BY <3>1 DEF GetIdentifier, Binding, LastNamed
    <3> HIDE DEF found
    <3> QED
      BY <3>2
  <2> HIDE DEF new
  <2>6. Len(functions) \in Nat /\ ctx.fn \in 0..Len(functions)
        /\ ctx = contexts[Len(contexts)] /\ Len(contexts) \in DOMAIN contexts
    BY <2>2, Current, Places DEF FunctionsWell, IsContext
  <2>7. HistoryWell'
    BY <2>1, <2>2, <2>5, <2>6 DEF HistoryWell
  <2>8. CallsSeeGlobals' /\ ResolvedOnce' /\ FirstCallResolves' /\ PanicsOnlyOnRepeated'
    BY <2>1, <2>2 DEF CallsSeeGlobals, ResolvedOnce, FirstCallResolves, PanicsOnlyOnRepeated,
                      IsFirstCall, Repeated, IsResolved
  <2>9. GlobalsExist'
    <3> SUFFICES ASSUME NEW c \in calls, NEW u \in uses', u.fn = c.fn, IsFirstCall(c)
                 PROVE  u.slot < c.globals
      BY <2>1 DEF GlobalsExist, IsFirstCall, Repeated
    <3>1. CASE u \in uses
      BY <2>2, <3>1 DEF GlobalsExist, IsFirstCall
    <3>2. CASE u \in new
      <4>1. contexts[Len(contexts)].fn = c.fn
        BY <2>5, <2>6, <3>2
      <4>2. Len(global_bindings) <= c.globals /\ c.globals \in Nat
        BY <2>2, <2>6, <4>1 DEF CallsSeeGlobals, HistoryWell
      <4>3. Len(global_bindings) \in Nat
        BY <2>2, Places DEF GlobalsWell, IsScope, IsTable
      <4> QED
        BY <2>5, <3>2, <4>2, <4>3
    <3> QED
      BY <2>1, <3>1, <3>2
  <2> QED
    BY <1>1, <2>1, <2>2, <2>3, <2>4, <2>7, <2>8, <2>9 DEF IInv
<1> QED
  BY <1>2, <1>3

(***************************************************************************)
(* Declarations.                                                           *)
(***************************************************************************)
\* The tables with one more declaration.
LEMMA TablesDeclared ==
  ASSUME Grows, NEW res, IsResolver(res), IsScope(res.local_bindings), IsScope(global_bindings),
         NEW data, IsDeclaration(data), NamesItsFunction(data)',
         IsFunctionData(data) => data.tag \notin DOMAIN functions,
         global_bindings' = DeclareGlobal(res, global_bindings, data),
         NEW new, new = DeclareLocal(res, data)
  PROVE  /\ IsResolver(new) /\ IsScope(new.local_bindings)' /\ IsScope(global_bindings)'
         /\ new.is_global = res.is_global
         /\ InGlobalScope(res) => /\ new = res
                                  /\ Len(global_bindings)' = Len(global_bindings) + 1
                                  /\ \A i \in (DOMAIN global_bindings)' :
                                        \/ i \in DOMAIN global_bindings /\ global_bindings'[i] = global_bindings[i]
                                        \/ global_bindings'[i] = data
         /\ ~InGlobalScope(res) => /\ global_bindings' = global_bindings
                                   /\ \A i \in DOMAIN new.local_bindings :
                                        \/ /\ i \in DOMAIN res.local_bindings
                                           /\ new.local_bindings[i] = res.local_bindings[i]
                                        \/ /\ new.local_bindings[i].tag = data.tag
                                           /\ new.local_bindings[i].type = data.type
<1>1. /\ IsTable(global_bindings) /\ IsTable(res.local_bindings)
  BY DEF IsScope
<1>2. /\ IsResolver(new) /\ new.is_global = res.is_global
      /\ InGlobalScope(res) => /\ Len(global_bindings)' = Len(global_bindings) + 1
                               /\ new = res
      /\ ~InGlobalScope(res) =>
            /\ global_bindings' = global_bindings
            /\ new.local_bindings = Append(res.local_bindings, [data EXCEPT !.depth = res.depth])
  BY <1>1, DeclareEffect
<1>3. ASSUME NEW table, IsScope(table), NEW d, IsDeclaration(d), NamesItsFunction(d)', d.tag = data.tag,
             IsFunctionData(d) <=> IsFunctionData(data)
      PROVE  /\ IsScope(table)' /\ IsScope(Append(table, d))'
             /\ \A i \in DOMAIN Append(table, d) :
                  \/ i \in DOMAIN table /\ Append(table, d)[i] = table[i]
                  \/ Append(table, d)[i] = d
  <2>1. IsScope(table)'
    BY <1>3, ScopeKeeps
  <2>2. IsFunctionData(d) => \A i \in DOMAIN table : IsFunctionData(table[i]) => table[i].tag # d.tag
    BY <1>3 DEF IsScope, NamesItsFunction
  <2>3. IsScope(Append(table, d))'
    BY <1>3, <2>1, <2>2, ScopeTakes
  <2>4. /\ DOMAIN table = 1..Len(table) /\ Len(table) \in Nat
        /\ DOMAIN Append(table, d) = 1..(Len(table) + 1)
        /\ \A i \in 1..Len(table) : Append(table, d)[i] = table[i]
        /\ Append(table, d)[Len(table) + 1] = d
    BY <1>3, Places, Appended DEF IsScope, IsTable
  <2>5. \A i \in 1..(Len(table) + 1) : i \in 1..Len(table) \/ i = Len(table) + 1
    BY <2>4
  <2> QED
    BY <2>1, <2>3, <2>4, <2>5
<1>4. CASE InGlobalScope(res)
  <2>1. global_bindings' = Append(global_bindings, data)
    BY <1>4 DEF DeclareGlobal
  <2>2. \E table : table = global_bindings'
                   /\ IsScope(table)'
                   /\ \A i \in DOMAIN table :
                        \/ i \in DOMAIN global_bindings /\ table[i] = global_bindings[i]
                        \/ table[i] = data
    BY <1>3, <2>1
  <2> QED
    BY <1>2, <1>3, <1>4, <2>2
<1>5. CASE ~InGlobalScope(res)
  <2> DEFINE d == [data EXCEPT !.depth = res.depth]
  <2>1. /\ IsDeclaration(d) /\ d.tag = data.tag /\ d.type = data.type
        /\ IsFunctionData(d) <=> IsFunctionData(data)
        /\ d.name = data.name
    BY DEF IsDeclaration, IsResolver, IsFunctionData
  <2> HIDE DEF d
  <2>2. NamesItsFunction(d)'
    BY <2>1 DEF NamesItsFunction
  <2>3. new.local_bindings = Append(res.local_bindings, d)
    BY <1>2, <1>5 DEF d
  <2>4. IsScope(global_bindings)'
    <3>1. \A table : IsScope(table) => IsScope(table)'
      BY ScopeKeeps
    <3> QED
      BY <1>2, <1>5, <3>1
  <2> QED
    BY <1>2, <1>3, <1>5, <2>1, <2>2, <2>3, <2>4
<1> QED
  BY <1>4, <1>5

\* A declaration enters the table of its scope; with a function, its backlog too.
LEMMA DeclaringKeeps ==
  ASSUME IInv, Step, FunctionsWell', Grows, Len(functions)' \in Nat,
         UNCHANGED <<phase, leftovers, history>>,
         NEW old, old = ctx, NEW c, c.fn = old.fn, c.res = old.res,
         DOMAIN c = {"fn", "res", "backlog"}, IsBacklog(c.backlog, c.fn)',
         NEW data, IsDeclaration(data), NamesItsFunction(data)',
         IsFunctionData(data) => /\ data.tag \notin DOMAIN functions
                                 /\ functions'[data.tag].outer = old.fn,
         Declare(data, c)
  PROVE  /\ ContextsWell' /\ GlobalsWell' /\ LeftoversWell'
         /\ HistoryWell' /\ CallsSeeGlobals'
         /\ ResolvedOnce' /\ FirstCallResolves' /\ GlobalsExist' /\ PanicsOnlyOnRepeated'
         /\ (DOMAIN contexts)' = DOMAIN contexts
         /\ \A i \in DOMAIN contexts : contexts'[i].fn = contexts[i].fn
         /\ \A i \in DOMAIN contexts : i # Len(contexts) => contexts'[i].backlog = contexts[i].backlog
         /\ contexts'[Len(contexts)].backlog = c.backlog
         /\ Len(contexts) \in DOMAIN contexts /\ contexts[Len(contexts)] = old
<1> DEFINE n == Len(contexts)
           new == DeclareLocal(old.res, data)
           top == [c EXCEPT !.res = new]
<1>1. /\ FunctionsWell /\ ContextsWell /\ GlobalsWell /\ LeftoversWell
  BY DEF IInv
<1>2. /\ n \in DOMAIN contexts /\ 1 \in DOMAIN contexts
      /\ old = contexts[n] /\ IsContext(old)
      /\ n \in Nat \ {0} /\ DOMAIN contexts = 1..n
      /\ old.fn = 0 <=> InMain
      /\ old.res.is_global <=> InMain
  BY <1>1, Current
<1>3. /\ contexts' = WithTop(top)
      /\ global_bindings' = DeclareGlobal(old.res, global_bindings, data)
  BY DEF Declare
<1>4. /\ IsResolver(new) /\ IsScope(new.local_bindings)' /\ IsScope(global_bindings)'
      /\ new.is_global = old.res.is_global
      /\ InGlobalScope(old.res) => /\ new = old.res
                                   /\ Len(global_bindings)' = Len(global_bindings) + 1
                                   /\ \A i \in (DOMAIN global_bindings)' :
                                         \/ i \in DOMAIN global_bindings /\ global_bindings'[i] = global_bindings[i]
                                         \/ global_bindings'[i] = data
      /\ ~InGlobalScope(old.res) => /\ global_bindings' = global_bindings
                                    /\ \A i \in DOMAIN new.local_bindings :
                                         \/ /\ i \in DOMAIN old.res.local_bindings
                                            /\ new.local_bindings[i] = old.res.local_bindings[i]
                                         \/ /\ new.local_bindings[i].tag = data.tag
                                            /\ new.local_bindings[i].type = data.type
  <2> HIDE DEF new
  <2>1. new = DeclareLocal(old.res, data)
    BY DEF new
  <2> QED
    BY <1>1, <1>2, <1>3, <2>1, TablesDeclared DEF IsContext, GlobalsWell
<1> HIDE DEF new
<1>5. /\ top.fn = old.fn /\ top.res = new /\ top.backlog = c.backlog
      /\ DOMAIN top = {"fn", "res", "backlog"}
  OBVIOUS
<1> HIDE DEF top
<1>6. \A fn : IsResolved(fn)' <=> IsResolved(fn)
  BY DEF history, IsResolved
<1>7. /\ ContextsWell'
      /\ (DOMAIN contexts)' = DOMAIN contexts
      /\ \A i \in 1..(n - 1) : contexts'[i] = contexts[i]
      /\ contexts'[n] = top
  <2>1. IsContext(top)'
    <3>1. old.fn \in 0..Len(functions)'
      <4>1. Len(functions) \in Nat /\ Len(functions) <= Len(functions)' /\ old.fn \in 0..Len(functions)
        BY <1>1, <1>2, Places DEF FunctionsWell, Grows, IsContext
      <4> QED
        BY <4>1
    <3> QED
      BY <1>4, <1>5, <3>1 DEF IsContext
  <2>2. top.fn = ctx.fn /\ (top.res.is_global <=> ctx.res.is_global)
    BY <1>4, <1>5
  <2> QED
    BY <1>1, <1>2, <1>3, <1>6, <2>1, <2>2, ContextsReplaced
<1> HIDE DEF n
<1>8. \A i \in 1..n : i \in 1..(n - 1) \/ i = n
  BY <1>2
<1>9. \A i \in DOMAIN contexts : /\ contexts'[i].fn = contexts[i].fn
                                 /\ i # n => contexts'[i] = contexts[i]
  BY <1>2, <1>5, <1>7, <1>8
<1>10. /\ InGlobalScope(old.res) => InMain
       /\ Len(global_bindings) \in Nat /\ Len(global_bindings)' \in Nat
       /\ Len(global_bindings)' >= Len(global_bindings)
       /\ ~InMain => Len(global_bindings)' = Len(global_bindings)
  <2>1. Len(global_bindings) \in Nat
    BY <1>1, Places DEF GlobalsWell, IsScope, IsTable
  <2>2. InGlobalScope(old.res) => InMain
    BY <1>2 DEF InGlobalScope
  <2> QED
    BY <1>4, <2>1, <2>2
<1>11. /\ HistoryWell' /\ CallsSeeGlobals'
       /\ ResolvedOnce' /\ FirstCallResolves' /\ GlobalsExist' /\ PanicsOnlyOnRepeated'
  <2>1. \A i \in (DOMAIN contexts)' : \E j \in DOMAIN contexts : contexts'[i].fn = contexts[j].fn
    BY <1>7, <1>9
  <2> QED
    BY <1>10, <2>1, PastKeeps
<1>12. LeftoversWell'
  <2>1. phase = "script" \/ contexts'[1].backlog = contexts[1].backlog
    <3>1. InMain => phase = "script"
      BY DEF Step
    <3>2. ~InMain => n # 1
      BY DEF InMain, n
    <3> QED
      BY <1>2, <1>9, <3>1, <3>2
  <2> QED
    BY <1>1, <1>6, <2>1, LeftoversKeep
<1>13. GlobalsWell'
  <2>1. \A i \in DOMAIN global_bindings : IsFunctionData(global_bindings[i]) =>
          /\ global_bindings[i].tag \in DOMAIN functions
          /\ functions'[global_bindings[i].tag] = functions[global_bindings[i].tag]
          /\ functions[global_bindings[i].tag].outer = 0
    BY <1>1 DEF GlobalsWell, IsScope, NamesItsFunction, Grows
  <2> DEFINE locals == contexts[1].res.local_bindings
  <2>2. \A j \in DOMAIN locals : IsFunctionData(locals[j]) => locals[j].tag \in DOMAIN functions
    BY <1>1, <1>2 DEF ContextsWell, IsContext, IsScope, NamesItsFunction
  <2>3. \A j \in DOMAIN locals' :
           \/ j \in DOMAIN locals /\ locals'[j] = locals[j]
           \/ ~InGlobalScope(old.res) /\ locals'[j].tag = data.tag /\ locals'[j].type = data.type
    <3>1. CASE n = 1
      <4>1. locals = old.res.local_bindings /\ locals' = new.local_bindings
        BY <1>2, <1>5, <1>7, <3>1
      <4> HIDE DEF locals
      <4> QED
        BY <1>4, <4>1
    <3>2. CASE n # 1
      BY <1>2, <1>9, <3>2
    <3> QED
      BY <3>1, <3>2
  <2>4. \A i \in (DOMAIN global_bindings)' :
           \/ i \in DOMAIN global_bindings /\ global_bindings'[i] = global_bindings[i]
           \/ InGlobalScope(old.res) /\ global_bindings'[i] = data
    BY <1>4
  <2>5. \A i \in DOMAIN global_bindings, j \in DOMAIN locals :
           IsFunctionData(global_bindings[i]) /\ IsFunctionData(locals[j]) =>
              locals[j].tag # global_bindings[i].tag
    BY <1>1 DEF GlobalsWell
  <2> HIDE DEF locals
  <2>6. ASSUME NEW i \in (DOMAIN global_bindings)', IsFunctionData(global_bindings'[i])
        PROVE  /\ functions'[global_bindings'[i].tag].outer = 0
               /\ \A j \in DOMAIN locals' :
                     IsFunctionData(locals'[j]) => locals'[j].tag # global_bindings'[i].tag
    <3>1. CASE i \in DOMAIN global_bindings /\ global_bindings'[i] = global_bindings[i]
      <4>1. functions'[global_bindings'[i].tag].outer = 0
        BY <1>6, <2>1, <2>6, <3>1
      <4>2. ASSUME NEW j \in DOMAIN locals', IsFunctionData(locals'[j])
            PROVE  locals'[j].tag # global_bindings'[i].tag
        <5>1. CASE j \in DOMAIN locals /\ locals'[j] = locals[j]
          BY <2>5, <2>6, <3>1, <4>2, <5>1
        <5>2. CASE locals'[j].tag = data.tag /\ locals'[j].type = data.type
          BY <2>1, <2>6, <3>1, <4>2, <5>2 DEF IsFunctionData
        <5> QED
          BY <2>3, <5>1, <5>2
      <4> QED
        BY <4>1, <4>2
    <3>2. CASE InGlobalScope(old.res) /\ global_bindings'[i] = data
      <4>1. /\ functions'[data.tag].outer = 0 /\ data.tag \notin DOMAIN functions
        BY <1>2, <1>10, <2>6, <3>2
      <4> QED
        BY <2>2, <2>3, <3>2, <4>1
    <3> QED
      BY <2>4, <3>1, <3>2
  <2> QED
    BY <1>4, <2>6 DEF GlobalsWell, locals
<1> QED
  BY <1>2, <1>5, <1>7, <1>9, <1>11, <1>12, <1>13 DEF n

\* A variable is declared.
LEMMA VarStmtKeeps == ASSUME IInv, NEW name, VarStmt(name) PROVE IInv'
<1>1. /\ FunctionsWell /\ ContextsWell /\ NoneLost /\ Counted /\ OutersBegun
      /\ errors \in BOOLEAN /\ phase \in {"script", "leftovers", "done", "panicked"}
  BY DEF IInv
<1>2. /\ Step /\ left' \in 0..MaxStmts /\ Declare(Variable(name), ctx)
      /\ UNCHANGED <<functions, errors, phase, leftovers, history>>
  BY StatementTakesOne DEF IInv, VarStmt, Stmt
<1>3. /\ Grows /\ FunctionsWell' /\ Len(functions)' \in Nat
      /\ \A fn : IsResolved(fn)' <=> IsResolved(fn)
  BY <1>1, <1>2, SameFunctions, Places DEF IsResolved, history, FunctionsWell
<1>4. IsContext(ctx) /\ Len(contexts) \in DOMAIN contexts
  BY <1>1, Current
<1>5. PICK c : c = ctx /\ IsContext(c)'
  BY <1>1, <1>3, <1>4, ContextsKeep
<1>6. IsBacklog(c.backlog, c.fn)' /\ DOMAIN c = {"fn", "res", "backlog"} /\ Declare(Variable(name), c)
  BY <1>2, <1>5 DEF IsContext
<1>7. /\ IsDeclaration(Variable(name)) /\ ~IsFunctionData(Variable(name))
      /\ NamesItsFunction(Variable(name))'
  BY DEF IsDeclaration, Variable, VarData, IsFunctionData, NamesItsFunction
<1>8. /\ ContextsWell' /\ GlobalsWell' /\ LeftoversWell'
      /\ HistoryWell' /\ CallsSeeGlobals'
      /\ ResolvedOnce' /\ FirstCallResolves' /\ GlobalsExist' /\ PanicsOnlyOnRepeated'
      /\ (DOMAIN contexts)' = DOMAIN contexts
      /\ \A i \in DOMAIN contexts : contexts'[i].fn = contexts[i].fn
      /\ \A i \in DOMAIN contexts : i # Len(contexts) => contexts'[i].backlog = contexts[i].backlog
      /\ contexts'[Len(contexts)].backlog = c.backlog /\ contexts[Len(contexts)] = c
  <2> DEFINE data == Variable(name)
  <2>1. IsDeclaration(data) /\ ~IsFunctionData(data) /\ NamesItsFunction(data)' /\ Declare(data, c)
    BY <1>6, <1>7
  <2> HIDE DEF data
  <2> QED
    BY <1>2, <1>3, <1>5, <1>6, <2>1, DeclaringKeeps
<1>9. \A i \in (DOMAIN contexts)' : /\ i \in DOMAIN contexts
                                    /\ contexts'[i].fn = contexts[i].fn
                                    /\ contexts'[i].backlog = contexts[i].backlog
  BY <1>8
<1>10. NoneLost' /\ Counted' /\ OutersBegun'
  <2>1. OutersBegun'
    BY <1>1, <1>2, <1>3, OutersKeep
  <2> QED
    BY <1>1, <1>2, <1>3, <1>9, <2>1, NoneLostKeeps, CountedKeeps
<1> QED
  BY <1>1, <1>2, <1>3, <1>8, <1>10 DEF IInv

\* A callable is declared.
LEMMA CallableDeclared ==
  ASSUME IInv, NEW name, NEW params, IsSequence(params),
         NEW waits \in BOOLEAN, waits => name \in FuncNames,
         NewCallable(name, params, waits), NEW fn, fn = Len(functions) + 1
  PROVE  /\ Grows /\ FunctionsWell' /\ Len(functions)' \in Nat
         /\ fn \notin DOMAIN functions
         /\ (DOMAIN functions)' = DOMAIN functions \cup {fn}
         /\ functions'[fn]
              = [name |-> name, params |-> params, outer |-> ctx.fn, waits |-> waits]
         /\ IsDeclaration(Callable(name, params, fn))
         /\ Callable(name, params, fn).tag = fn
         /\ NamesItsFunction(Callable(name, params, fn))'
<1> DEFINE f == [name |-> name, params |-> params, outer |-> ctx.fn, waits |-> waits]
<1>1. FunctionsWell /\ ContextsWell
  BY DEF IInv
<1>2. functions' = Append(functions, f)
  BY DEF NewCallable
<1>3. f.name = name /\ f.outer = ctx.fn /\ f.waits = waits /\ f.params = params
  OBVIOUS
<1> HIDE DEF f
<1>4. /\ Grows
      /\ Len(functions)' = Len(functions) + 1 /\ Len(functions) \in Nat
      /\ DOMAIN functions = 1..Len(functions)
      /\ (DOMAIN functions)' = DOMAIN functions \cup {fn}
      /\ functions'[fn] = f
      /\ IsSequence(functions)'
  BY <1>1, <1>2, OneMoreFunction
<1>5. ctx.fn \in 0..Len(functions)
  BY <1>1, Current DEF IsContext
<1>6. FunctionsWell'
  <2>1. ASSUME NEW g \in (DOMAIN functions)'
        PROVE  /\ functions'[g].outer \in 0..Len(functions)'
               /\ functions'[g].waits \in BOOLEAN
               /\ functions'[g].waits => functions'[g].name \in FuncNames
               /\ IsSequence(functions'[g].params)
    <3>1. CASE g \in DOMAIN functions
      <4>1. functions'[g] = functions[g]
        BY <1>4, <3>1 DEF Grows
      <4> QED
        BY <1>1, <1>4, <3>1, <4>1 DEF FunctionsWell
    <3>2. CASE g = fn
      BY <1>3, <1>4, <1>5, <3>2
    <3> QED
      BY <1>4, <3>1, <3>2
  <2> QED
    BY <1>4, <2>1 DEF FunctionsWell
<1>7. /\ IsDeclaration(Callable(name, params, fn))
      /\ Callable(name, params, fn).tag = fn /\ Callable(name, params, fn).name = name
      /\ Callable(name, params, fn).type.t = "Function"
  BY <1>4 DEF IsDeclaration, Callable, VarData
<1>8. NamesItsFunction(Callable(name, params, fn))'
  <2> DEFINE data == Callable(name, params, fn)
  <2>1. \A d : d = data => NamesItsFunction(d)'
    <3> HIDE DEF data
    <3>1. data.tag = fn /\ data.name = name /\ data.type.t = "Function"
      BY <1>7 DEF data
    <3> QED
      BY <1>3, <1>4, <3>1 DEF NamesItsFunction
  <2> QED
    BY <2>1
<1> QED
  BY <1>4, <1>6, <1>7, <1>8 DEF f

\* A struct is declared, whose constructor never waits.
LEMMA StructStmtKeeps ==
  ASSUME IInv, NEW name, NEW params, IsSequence(params), StructStmt(name, params) PROVE IInv'
<1>1. /\ FunctionsWell /\ ContextsWell /\ NoneLost /\ Counted /\ OutersBegun
      /\ errors \in BOOLEAN /\ phase \in {"script", "leftovers", "done", "panicked"}
  BY DEF IInv
<1>2. PICK fn : fn = Len(functions) + 1
  OBVIOUS
<1>3. /\ Step /\ left' \in 0..MaxStmts /\ Declare(Callable(name, params, fn), ctx)
      /\ NewCallable(name, params, FALSE)
      /\ UNCHANGED <<errors, phase, leftovers, history>>
  BY <1>2, StatementTakesOne DEF IInv, StructStmt, Stmt
<1> DEFINE data == Callable(name, params, fn)
<1>4. /\ Grows /\ FunctionsWell' /\ Len(functions)' \in Nat
      /\ fn \notin DOMAIN functions
      /\ (DOMAIN functions)' = DOMAIN functions \cup {fn}
      /\ functions'[fn] = [name |-> name, params |-> params, outer |-> ctx.fn, waits |-> FALSE]
      /\ IsDeclaration(data) /\ data.tag = fn /\ NamesItsFunction(data)'
  BY <1>2, <1>3, CallableDeclared
<1> HIDE DEF data
<1>5. functions'[fn].outer = ctx.fn /\ functions'[fn].waits = FALSE
  BY <1>4
<1>6. \A f : IsResolved(f)' <=> IsResolved(f)
  BY <1>3 DEF IsResolved, history
<1>7. IsContext(ctx) /\ Len(contexts) \in DOMAIN contexts
  BY <1>1, Current
<1>8. PICK c : c = ctx /\ IsContext(c)'
  BY <1>1, <1>4, <1>6, <1>7, ContextsKeep
<1>9. IsBacklog(c.backlog, c.fn)' /\ DOMAIN c = {"fn", "res", "backlog"} /\ Declare(data, c)
  BY <1>3, <1>8 DEF IsContext, data
<1>10. /\ ContextsWell' /\ GlobalsWell' /\ LeftoversWell'
       /\ HistoryWell' /\ CallsSeeGlobals'
       /\ ResolvedOnce' /\ FirstCallResolves' /\ GlobalsExist' /\ PanicsOnlyOnRepeated'
       /\ (DOMAIN contexts)' = DOMAIN contexts
       /\ \A i \in DOMAIN contexts : contexts'[i].fn = contexts[i].fn
       /\ \A i \in DOMAIN contexts : i # Len(contexts) => contexts'[i].backlog = contexts[i].backlog
       /\ contexts'[Len(contexts)].backlog = c.backlog /\ contexts[Len(contexts)] = c
  BY <1>3, <1>4, <1>5, <1>8, <1>9, DeclaringKeeps
<1>11. \A i \in (DOMAIN contexts)' : /\ i \in DOMAIN contexts
                                     /\ contexts'[i].fn = contexts[i].fn
                                     /\ contexts'[i].backlog = contexts[i].backlog
  BY <1>10
<1>12. NoneLost' /\ Counted' /\ OutersBegun'
  <2>1. \A f \in (DOMAIN functions)' : f \notin DOMAIN functions => ~functions'[f].waits
    BY <1>4, <1>5
  <2>2. OutersBegun'
    <3>1. ctx.fn = 0 \/ IsResolved(ctx.fn)
      BY <1>1, BegunContext
    <3> QED
      BY <1>1, <1>4, <1>5, <1>6, <3>1, OutersKeep
  <2> QED
    BY <1>1, <1>3, <1>4, <1>6, <1>11, <2>1, <2>2, NoneLostKeeps, CountedKeeps
<1> QED
  BY <1>1, <1>3, <1>4, <1>10, <1>12 DEF IInv

\* A function joins the backlog of its context.
LEMMA Enqueued ==
  ASSUME NEW c, IsContext(c)', NEW name \in FuncNames, NEW fn,
         fn \in (DOMAIN functions)', functions'[fn].waits, functions'[fn].name = name,
         functions'[fn].outer = c.fn, fn # Taken, ~IsResolved(fn)', ~WaitsIn(fn, c.backlog)
  PROVE  LET new == Enqueue(c, name, fn)
         IN /\ new.fn = c.fn /\ new.res = c.res /\ DOMAIN new = {"fn", "res", "backlog"}
            /\ IsBacklog(new.backlog, new.fn)'
            /\ \A other \in FuncNames : other # name => new.backlog[other] = c.backlog[other]
            /\ Len(new.backlog[name]) = Len(c.backlog[name]) + 1
            /\ Len(c.backlog[name]) \in Nat
            /\ IsIn(fn, new.backlog[name])
            /\ \A f : IsIn(f, c.backlog[name]) => IsIn(f, new.backlog[name])
<1> DEFINE new == Enqueue(c, name, fn)
           list == c.backlog[name]
           more == Append(list, fn)
<1>1. DOMAIN c = {"fn", "res", "backlog"} /\ IsBacklog(c.backlog, c.fn)' /\ IsList(list, name, c.fn)'
  BY DEF IsContext, IsBacklog
<1>2. DOMAIN c.backlog = FuncNames
  BY <1>1 DEF IsBacklog
<1>3. new.fn = c.fn /\ new.res = c.res /\ DOMAIN new = {"fn", "res", "backlog"}
      /\ new.backlog = [c.backlog EXCEPT ![name] = more]
  BY <1>1 DEF Enqueue
<1>4. /\ IsSequence(list) /\ Len(list) \in Nat /\ DOMAIN list = 1..Len(list)
      /\ IsSequence(more) /\ Len(more) = Len(list) + 1 /\ DOMAIN more = 1..(Len(list) + 1)
      /\ \A i \in 1..Len(list) : more[i] = list[i]
      /\ more[Len(list) + 1] = fn
  BY <1>1, Places, Appended DEF IsList
<1> HIDE DEF new, more
<1>5. \A i \in 1..(Len(list) + 1) : i \in 1..Len(list) \/ i = Len(list) + 1
  BY <1>4
<1>6. \A i \in 1..Len(list) : list[i] # fn
  BY <1>4 DEF WaitsIn, IsIn
<1> HIDE DEF list
<1>7. IsList(more, name, c.fn)'
  BY <1>1, <1>4, <1>5, <1>6 DEF IsList
<1>8. IsBacklog(new.backlog, new.fn)'
  BY <1>1, <1>2, <1>3, <1>7 DEF IsBacklog
<1>9. /\ new.backlog[name] = more
      /\ \A other \in FuncNames : other # name => new.backlog[other] = c.backlog[other]
  BY <1>2, <1>3
<1>10. IsIn(fn, more) /\ \A f : IsIn(f, list) => IsIn(f, more)
  <2>1. Len(list) + 1 \in DOMAIN more /\ \A i \in DOMAIN list : i \in DOMAIN more
    BY <1>4
  <2> QED
    BY <1>4, <2>1 DEF IsIn
<1> QED
  BY <1>3, <1>4, <1>8, <1>9, <1>10 DEF new, list

\* A function is declared, and waits.
LEMMA FunctionStmtKeeps ==
  ASSUME IInv, NEW name \in FuncNames, NEW params, IsSequence(params), FunctionStmt(name, params)
  PROVE  IInv'
<1>1. /\ FunctionsWell /\ ContextsWell /\ NoneLost /\ Counted /\ HistoryWell /\ OutersBegun
      /\ errors \in BOOLEAN /\ phase \in {"script", "leftovers", "done", "panicked"}
  BY DEF IInv
<1>2. PICK fn : fn = Len(functions) + 1
  OBVIOUS
<1>3. /\ Step /\ left' \in 0..MaxStmts /\ Declare(Callable(name, params, fn), Enqueue(ctx, name, fn))
      /\ NewCallable(name, params, TRUE)
      /\ UNCHANGED <<errors, phase, leftovers, history>>
  BY <1>2, StatementTakesOne DEF IInv, FunctionStmt, Stmt
<1> DEFINE data == Callable(name, params, fn)
<1>4. /\ Grows /\ FunctionsWell' /\ Len(functions)' \in Nat
      /\ fn \notin DOMAIN functions
      /\ (DOMAIN functions)' = DOMAIN functions \cup {fn}
      /\ functions'[fn] = [name |-> name, params |-> params, outer |-> ctx.fn, waits |-> TRUE]
      /\ IsDeclaration(data) /\ data.tag = fn /\ NamesItsFunction(data)'
  BY <1>2, <1>3, CallableDeclared
<1> HIDE DEF data
<1>5. /\ functions'[fn].outer = ctx.fn /\ functions'[fn].waits = TRUE /\ functions'[fn].name = name
      /\ fn # Taken
  BY <1>1, <1>2, <1>4, Places DEF FunctionsWell, Taken
<1>6. \A f : IsResolved(f)' <=> IsResolved(f)
  BY <1>3 DEF IsResolved, history
<1>7. IsContext(ctx) /\ Len(contexts) \in DOMAIN contexts
  BY <1>1, Current
<1>8. PICK old : old = ctx /\ IsContext(old)'
  BY <1>1, <1>4, <1>6, <1>7, ContextsKeep
<1>9. ~IsResolved(fn)' /\ ~WaitsIn(fn, old.backlog)
  <2>1. ~IsResolved(fn)
    BY <1>1, <1>4 DEF HistoryWell, IsResolved
  <2>2. WaitsIn(fn, old.backlog) => fn \in DOMAIN functions
    BY <1>5, <1>7, <1>8, WaitingUnresolved DEF IsContext
  <2> QED
    BY <1>4, <1>6, <2>1, <2>2
<1> DEFINE c == Enqueue(old, name, fn)
<1>10. /\ c.fn = old.fn /\ c.res = old.res /\ DOMAIN c = {"fn", "res", "backlog"}
       /\ IsBacklog(c.backlog, c.fn)'
       /\ \A other \in FuncNames : other # name => c.backlog[other] = old.backlog[other]
       /\ Len(c.backlog[name]) = Len(old.backlog[name]) + 1
       /\ Len(old.backlog[name]) \in Nat
       /\ IsIn(fn, c.backlog[name])
       /\ \A f : IsIn(f, old.backlog[name]) => IsIn(f, c.backlog[name])
  BY <1>4, <1>5, <1>8, <1>9, Enqueued
<1>11. Declare(data, c)
  BY <1>3, <1>8 DEF data
<1> HIDE DEF c
<1>12. /\ ContextsWell' /\ GlobalsWell' /\ LeftoversWell'
       /\ HistoryWell' /\ CallsSeeGlobals'
       /\ ResolvedOnce' /\ FirstCallResolves' /\ GlobalsExist' /\ PanicsOnlyOnRepeated'
       /\ (DOMAIN contexts)' = DOMAIN contexts
       /\ \A i \in DOMAIN contexts : contexts'[i].fn = contexts[i].fn
       /\ \A i \in DOMAIN contexts : i # Len(contexts) => contexts'[i].backlog = contexts[i].backlog
       /\ contexts'[Len(contexts)].backlog = c.backlog /\ contexts[Len(contexts)] = old
  BY <1>3, <1>4, <1>5, <1>8, <1>10, <1>11, DeclaringKeeps
<1> DEFINE n == Len(contexts)
<1>13. n \in DOMAIN contexts /\ \A i, j \in DOMAIN contexts : contexts[i].fn = contexts[j].fn => i = j
  BY <1>7, <1>1 DEF ContextsWell
<1> HIDE DEF n
<1>14. NoneLost'
  <2>1. UNCHANGED <<unfinished, funcs>>
    BY <1>3 DEF leftovers
  <2>2. ASSUME NEW f \in (DOMAIN functions)', NEW i \in DOMAIN contexts,
               functions'[f].waits, functions'[f].outer = contexts'[i].fn
        PROVE  \/ IsResolved(f)'
               \/ IsIn(f, contexts[i].backlog[functions[f].name])'
               \/ i = 1 /\ (IsIn(f, unfinished[functions[f].name])' \/ IsIn(f, funcs)')
    <3>1. CASE f = fn
      <4>1. i = n
        BY <1>5, <1>8, <1>12, <1>13, <2>2, <3>1 DEF n
      <4>2. IsIn(fn, contexts'[i].backlog[functions'[fn].name])
        BY <1>5, <1>10, <1>12, <4>1 DEF n
      <4> QED
        BY <3>1, <4>2 DEF IsIn
    <3>2. CASE f \in DOMAIN functions
      <4>1. functions'[f] = functions[f] /\ functions[f].waits /\ functions[f].outer = contexts[i].fn
        BY <1>4, <1>12, <2>2, <3>2 DEF Grows
      <4>2. \/ IsResolved(f)
            \/ IsIn(f, contexts[i].backlog[functions[f].name])
            \/ i = 1 /\ (IsIn(f, unfinished[functions[f].name]) \/ IsIn(f, funcs))
        BY <1>1, <3>2, <4>1 DEF NoneLost
      <4>3. IsIn(f, contexts[i].backlog[functions[f].name])
              => IsIn(f, contexts'[i].backlog[functions[f].name])
        <5>1. functions[f].name \in FuncNames
          BY <1>1, <3>2, <4>1 DEF FunctionsWell
        <5>2. CASE i = n
          BY <1>10, <1>12, <5>1, <5>2 DEF n
        <5>3. CASE i # n
          BY <1>12, <5>3 DEF n
        <5> QED
          BY <5>2, <5>3
      <4> QED
        BY <1>6, <2>1, <4>1, <4>2, <4>3 DEF IsIn
    <3> QED
      BY <1>4, <3>1, <3>2
  <2> QED
    BY <1>12, <2>2 DEF NoneLost
<1>15. Counted'
  <2> SUFFICES ASSUME NEW i \in DOMAIN contexts, NEW other \in FuncNames
               PROVE  LET waiting == contexts[i].backlog[other]
                          named == {f \in DOMAIN functions : functions[f].name = other /\ functions[f].waits
                                                              /\ functions[f].outer = contexts[i].fn}
                      IN (/\ waiting # <<>> => named # {}
                          /\ Len(waiting) > 1 => \E f, g \in named : f # g)'
    BY <1>12 DEF Counted
  <2> DEFINE named == {f \in DOMAIN functions : functions[f].name = other /\ functions[f].waits
                                                 /\ functions[f].outer = contexts[i].fn}
  <2>1. \A f \in named : f \in named' /\ f # fn
    BY <1>4, <1>12 DEF Grows
  <2>2. /\ contexts[i].backlog[other] # <<>> => named # {}
        /\ Len(contexts[i].backlog[other]) > 1 => \E f, g \in named : f # g
    BY <1>1 DEF Counted
  <2>3. i = n /\ other = name => fn \in named'
    BY <1>4, <1>5, <1>12, <1>8 DEF n
  <2> HIDE DEF named
  <2>4. CASE i = n /\ other = name
    <3>1. named' # {}
      BY <2>3, <2>4
    <3>2. contexts[i].backlog[other] = old.backlog[name] /\ contexts'[i].backlog[other] = c.backlog[name]
      BY <1>12, <2>4 DEF n
    <3>3. ASSUME Len(c.backlog[name]) > 1 PROVE \E f, g \in named' : f # g
      <4>1. Len(old.backlog[name]) > 0
        BY <1>10, <3>3
      <4>2. old.backlog[name] # <<>>
        BY <4>1, SmallSequences
      <4> QED
        BY <2>1, <2>2, <2>3, <2>4, <3>2, <4>2
    <3> QED
      BY <3>1, <3>2, <3>3 DEF named
  <2>5. CASE i # n \/ other # name
    <3>1. contexts'[i].backlog[other] = contexts[i].backlog[other]
      BY <1>10, <1>12, <2>5 DEF n
    <3>2. /\ contexts'[i].backlog[other] # <<>> => named' # {}
          /\ Len(contexts'[i].backlog[other]) > 1 => \E f, g \in named' : f # g
      BY <2>1, <2>2, <3>1
    <3> QED
      BY <3>2 DEF named
  <2> QED
    BY <2>4, <2>5
<1>16. OutersBegun'
  <2>1. ctx.fn = 0 \/ IsResolved(ctx.fn)
    BY <1>1, BegunContext
  <2> QED
    BY <1>1, <1>4, <1>5, <1>6, <2>1, OutersKeep
<1> QED
  BY <1>1, <1>3, <1>4, <1>12, <1>14, <1>15, <1>16 DEF IInv

(***************************************************************************)
(* The function a call means, and its place in the backlog.                *)
(***************************************************************************)
\* A row of bindings has the declarations of its table.
Row(space, table) == [i \in DOMAIN table |-> Binding(space, i - 1, table[i])]

\* It has as many, in the same places.
LEMMA RowIs ==
  ASSUME NEW space, NEW table, IsTable(table), NEW r, r = Row(space, table)
  PROVE  /\ IsSequence(r) /\ Len(r) = Len(table)
         /\ \A i \in 1..Len(table) : r[i].data = table[i]
<1>1. DOMAIN table = 1..Len(table) /\ Len(table) \in Nat
  BY Places DEF IsTable
<1>2. r = [i \in 1..Len(table) |-> r[i]] /\ \A i \in 1..Len(table) : r[i].data = table[i]
  BY <1>1 DEF Row, Binding
<1> QED
  BY <1>1, <1>2, FunctionIsSequence

\* Every declaration that a call searches is a local or a global.
LEMMA AllIdentifiers ==
  ASSUME NEW res, IsResolver(res), NEW globals, IsTable(globals)
  PROVE  LET every == GetAllIdentifiers(res, globals)
             m == Len(res.local_bindings)
             n == Len(globals)
         IN /\ m \in Nat /\ n \in Nat
            /\ DOMAIN res.local_bindings = 1..m /\ DOMAIN globals = 1..n
            /\ DOMAIN every = 1..(m + n)
            /\ \A i \in DOMAIN every : \/ i \in 1..m /\ every[i].data = res.local_bindings[i]
                                      \/ \E k \in 1..n : i = m + k /\ every[i].data = globals[k]
<1>1. PICK every, m, n : /\ every = GetAllIdentifiers(res, globals)
                         /\ m = Len(res.local_bindings) /\ n = Len(globals)
  OBVIOUS
<1>2. /\ m \in Nat /\ n \in Nat
      /\ DOMAIN res.local_bindings = 1..m /\ DOMAIN globals = 1..n
  BY <1>1, Places DEF IsResolver, IsTable
<1>3. PICK locals : locals = Row("Stack", res.local_bindings)
  OBVIOUS
<1>4. PICK rest : rest = Row("Globals", globals)
  OBVIOUS
<1>5. every = locals \o rest
  BY <1>1, <1>3, <1>4 DEF GetAllIdentifiers, Row
<1>6. /\ IsSequence(locals) /\ Len(locals) = m
      /\ \A i \in 1..m : locals[i].data = res.local_bindings[i]
  BY <1>1, <1>3, RowIs DEF IsResolver
<1>7. /\ IsSequence(rest) /\ Len(rest) = n
      /\ \A i \in 1..n : rest[i].data = globals[i]
  BY <1>1, <1>4, RowIs
<1>8. /\ DOMAIN every = 1..(Len(locals) + Len(rest))
      /\ \A i \in 1..Len(locals) : every[i] = locals[i]
      /\ \A i \in 1..Len(rest) : every[Len(locals) + i] = rest[i]
  <2>1. IsSequence(locals) /\ IsSequence(rest)
    BY <1>6, <1>7
  <2> QED
    BY <1>5, <2>1, Joined
<1>9. ASSUME NEW i \in 1..(m + n), ~(i \in 1..m) PROVE \E k \in 1..n : i = m + k
  <2>1. i - m \in 1..n /\ i = m + (i - m)
    BY <1>2, <1>9
  <2> QED
    BY <2>1
<1>10. /\ \A i \in 1..m : every[i].data = res.local_bindings[i]
       /\ \A i \in 1..n : every[m + i].data = globals[i]
  BY <1>6, <1>7, <1>8
<1>11. \A i \in 1..(m + n) : \/ i \in 1..m /\ every[i].data = res.local_bindings[i]
                             \/ \E k \in 1..n : i = m + k /\ every[i].data = globals[k]
  BY <1>9, <1>10
<1> QED
  BY <1>1, <1>2, <1>6, <1>7, <1>8, <1>11

\* Everything that a call searches is a variable or a function that exists.
LEMMA SearchedAre ==
  ASSUME IInv
  PROVE  LET every == GetAllIdentifiers(ctx.res, global_bindings)
             locals == ctx.res.local_bindings
             m == Len(locals)
             n == Len(global_bindings)
         IN /\ m \in Nat /\ n \in Nat /\ DOMAIN locals = 1..m /\ DOMAIN global_bindings = 1..n
            /\ DOMAIN every = 1..(m + n)
            /\ \A i \in DOMAIN every : \/ i \in 1..m /\ every[i].data = locals[i]
                                      \/ \E k \in 1..n : i = m + k /\ every[i].data = global_bindings[k]
            /\ \A i \in DOMAIN every : NamesItsFunction(every[i].data)
            /\ IsScope(locals) /\ IsScope(global_bindings)
<1>1. PICK res, globals : res = ctx.res /\ globals = global_bindings
  OBVIOUS
<1>2. IsResolver(res) /\ IsScope(res.local_bindings) /\ IsTable(globals) /\ IsScope(globals)
  BY <1>1, Current DEF IInv, IsContext, GlobalsWell, IsScope
<1>3. PICK every, m, n : /\ every = GetAllIdentifiers(res, globals)
                         /\ m = Len(res.local_bindings) /\ n = Len(globals)
  OBVIOUS
<1>4. /\ m \in Nat /\ n \in Nat /\ DOMAIN res.local_bindings = 1..m /\ DOMAIN globals = 1..n
      /\ DOMAIN every = 1..(m + n)
      /\ \A i \in DOMAIN every : \/ i \in 1..m /\ every[i].data = res.local_bindings[i]
                                \/ \E k \in 1..n : i = m + k /\ every[i].data = globals[k]
  BY <1>2, <1>3, AllIdentifiers
<1>5. /\ \A i \in 1..m : NamesItsFunction(res.local_bindings[i])
      /\ \A i \in 1..n : NamesItsFunction(globals[i])
  BY <1>2, <1>4 DEF IsScope
<1>6. \A i \in DOMAIN every : NamesItsFunction(every[i].data)
  BY <1>4, <1>5
<1> QED
  BY <1>1, <1>2, <1>3, <1>4, <1>6

\* What a call chooses is a function of its name.
LEMMA ChosenIsDefinition ==
  ASSUME IInv, NEW name, NEW args, NEW b \in ResolveCall(ctx.res, global_bindings, name, args)
  PROVE  /\ b.data.tag \in DOMAIN functions /\ functions[b.data.tag].name = name
         /\ \E i \in Definitions(ctx.res, name) : GetAllIdentifiers(ctx.res, global_bindings)[i] = b
<1>1. PICK every : every = GetAllIdentifiers(ctx.res, global_bindings)
  OBVIOUS
<1>2. PICK i \in DOMAIN every : /\ b = every[i] /\ every[i].data.name = name
                              /\ every[i].data.type.t \in {"Function", "NativeFunc"}
  BY <1>1 DEF ResolveCall
<1>3. NamesItsFunction(b.data)
  BY <1>1, <1>2, SearchedAre
<1>4. b.data.type.t = "Function" /\ b.data.name = name
  BY <1>2, <1>3 DEF NamesItsFunction
<1>5. i \in Definitions(ctx.res, name)
  BY <1>1, <1>2, <1>4 DEF Definitions, IsCallable
<1> QED
  BY <1>1, <1>2, <1>3, <1>4, <1>5 DEF NamesItsFunction, IsFunctionData

\* A function whose name is its own is found once where it is declared.
LEMMA OneDefinition ==
  ASSUME IInv, NEW fn \in DOMAIN functions, functions[fn].outer = ctx.fn, ~Repeated(fn),
         NEW name, functions[fn].name = name
  PROVE  \A i, j \in Definitions(ctx.res, name) : i = j
<1>1. PICK every : every = GetAllIdentifiers(ctx.res, global_bindings)
  OBVIOUS
<1>2. PICK locals : locals = ctx.res.local_bindings
  OBVIOUS
<1>3. PICK m, n : m = Len(locals) /\ n = Len(global_bindings)
  OBVIOUS
<1>4. ContextsWell /\ GlobalsWell
  BY DEF IInv
<1>5. /\ DOMAIN locals = 1..m /\ DOMAIN global_bindings = 1..n /\ IsScope(locals)
      /\ \A i \in DOMAIN every : \/ i \in 1..m /\ every[i].data = locals[i]
                                \/ \E k \in 1..n : i = m + k /\ every[i].data = global_bindings[k]
      /\ \A i \in DOMAIN every : NamesItsFunction(every[i].data)
  BY <1>1, <1>2, <1>3, SearchedAre
<1>6. ASSUME NEW i \in Definitions(ctx.res, name)
      PROVE  i \in DOMAIN every /\ IsFunctionData(every[i].data) /\ every[i].data.tag = fn
  <2>1. i \in DOMAIN every /\ every[i].data.name = name /\ IsFunctionData(every[i].data)
    BY <1>1 DEF Definitions, IsCallable, IsFunctionData
  <2>2. NamesItsFunction(every[i].data)
    BY <1>5, <2>1
  <2>3. /\ every[i].data.tag \in DOMAIN functions
        /\ functions[every[i].data.tag].name = name
    BY <2>1, <2>2 DEF NamesItsFunction
  <2> QED
    BY <2>1, <2>3 DEF Repeated
<1>7. \A i, j \in 1..m :
         IsFunctionData(locals[i]) /\ IsFunctionData(locals[j]) /\ locals[i].tag = locals[j].tag => i = j
  BY <1>4, <1>5 DEF IsScope, GlobalsWell
<1>8. \A i, j \in 1..n :
         (/\ IsFunctionData(global_bindings[i]) /\ IsFunctionData(global_bindings[j])
          /\ global_bindings[i].tag = global_bindings[j].tag) => i = j
  BY <1>4, <1>5 DEF IsScope, GlobalsWell
<1>9. \A i \in 1..m, k \in 1..n :
         ~ (/\ IsFunctionData(locals[i]) /\ locals[i].tag = fn
            /\ IsFunctionData(global_bindings[k]) /\ global_bindings[k].tag = fn)
  <2> SUFFICES ASSUME NEW i \in 1..m, NEW k \in 1..n,
                      IsFunctionData(locals[i]), locals[i].tag = fn,
                      IsFunctionData(global_bindings[k]), global_bindings[k].tag = fn
               PROVE  FALSE
    OBVIOUS
  <2>1. ctx.fn = 0
    BY <1>4, <1>5 DEF GlobalsWell
  <2>2. ctx = contexts[1]
    BY <1>4, <2>1, Current DEF InMain
  <2> QED
    BY <1>2, <1>4, <1>5, <2>2 DEF GlobalsWell
<1>10. ASSUME NEW i \in Definitions(ctx.res, name), NEW j \in Definitions(ctx.res, name)
       PROVE  i = j
  <2>1. /\ IsFunctionData(every[i].data) /\ every[i].data.tag = fn
        /\ IsFunctionData(every[j].data) /\ every[j].data.tag = fn
        /\ i \in DOMAIN every /\ j \in DOMAIN every
    BY <1>6
  <2> QED
    BY <1>5, <1>7, <1>8, <1>9, <2>1
<1> QED
  BY <1>10


\* And so its index into the backlog is the first.
LEMMA IndexIsFirst ==
  ASSUME IInv, NEW fn \in DOMAIN functions, functions[fn].outer = ctx.fn, ~Repeated(fn),
         NEW name, functions[fn].name = name,
         NEW args, NEW b \in ResolveCall(ctx.res, global_bindings, name, args)
  PROVE  CorrectIndex(ctx.res, name, b) = 0
<1>1. PICK every : every = GetAllIdentifiers(ctx.res, global_bindings)
  OBVIOUS
<1>2. PICK found : found = Definitions(ctx.res, name)
  OBVIOUS
<1>3. \A i, j \in found : i = j
  BY <1>2, OneDefinition
<1>4. PICK i \in found : every[i] = b
  BY <1>1, <1>2, ChosenIsDefinition
<1>5. PICK locals : locals = ctx.res.local_bindings
  OBVIOUS
<1>6. PICK m, n : m = Len(locals) /\ n = Len(global_bindings)
  OBVIOUS
<1>7. m \in Nat /\ n \in Nat /\ DOMAIN every = 1..(m + n)
  BY <1>1, <1>5, <1>6, SearchedAre
<1>8. i \in DOMAIN every
  BY <1>1, <1>2, <1>4 DEF Definitions
<1>9. ~(i < i)
  BY <1>7, <1>8
<1>10. {k \in found : \A j \in found : every[j] = b => j < k} = {}
  BY <1>3, <1>4, <1>9
<1> QED
  BY <1>1, <1>2, <1>10, FS_EmptySet DEF CorrectIndex

(***************************************************************************)
(* Calls.                                                                  *)
(***************************************************************************)
\* What a call records.
CallsOf(b) == {[fn |-> fn, from |-> ctx.fn, globals |-> Len(global_bindings)] :
                 fn \in {t \in {b.data.tag} : functions[t].waits}}
WaitingFor(name) == IF name \in FuncNames THEN ctx.backlog[name] ELSE <<>>

\* A function whose name is its own waits first in the backlog of its declarer,
\* and alone, until it is resolved.
LEMMA FirstCallWaits ==
  ASSUME IInv, Step, NEW name, NEW args, NEW b \in ResolveCall(ctx.res, global_bindings, name, args),
         NEW c \in CallsOf(b), IsFirstCall(c)
  PROVE  /\ c.fn # Taken
         /\ \/ IsResolved(c.fn)
            \/ /\ WaitingFor(name) # <<>> /\ CorrectIndex(ctx.res, name, b) = 0
               /\ WaitingFor(name)[1] = c.fn
<1>1. FunctionsWell /\ ContextsWell /\ LeftoversWell /\ NoneLost /\ Counted
  BY DEF IInv
<1>2. PICK fn : fn = c.fn
  OBVIOUS
<1>3. /\ fn = b.data.tag /\ functions[fn].waits /\ c.from = ctx.fn
      /\ functions[fn].outer = ctx.fn /\ ~Repeated(fn)
  BY <1>2 DEF CallsOf, IsFirstCall
<1>4. fn \in DOMAIN functions /\ functions[fn].name = name
  BY <1>3, ChosenIsDefinition
<1>5. name \in FuncNames
  BY <1>1, <1>3, <1>4 DEF FunctionsWell
<1>6. CorrectIndex(ctx.res, name, b) = 0
  BY <1>3, <1>4, IndexIsFirst
<1>7. PICK n : n = Len(contexts) /\ n \in DOMAIN contexts /\ ctx = contexts[n] /\ (ctx.fn = 0 <=> n = 1)
  BY <1>1, Current DEF InMain
<1>8. PICK waiting : waiting = ctx.backlog[name]
  OBVIOUS
<1>9. IsSequence(waiting)
  BY <1>1, <1>5, <1>8, Current DEF IsContext, IsBacklog, IsList
<1>10. fn # Taken
  <2>1. DOMAIN functions = 1..Len(functions)
    BY <1>1, Current DEF FunctionsWell
  <2> QED
    BY <1>4, <2>1 DEF Taken
<1>11. IsResolved(fn) \/ IsIn(fn, waiting)
  <2>1. \/ IsResolved(fn)
        \/ IsIn(fn, contexts[n].backlog[name])
        \/ n = 1 /\ (IsIn(fn, unfinished[name]) \/ IsIn(fn, funcs))
    BY <1>1, <1>3, <1>4, <1>7 DEF NoneLost
  <2>2. n = 1 => phase = "script"
    BY <1>7 DEF Step, InMain
  <2>3. phase = "script" => unfinished[name] = <<>> /\ funcs = <<>>
    BY <1>1, <1>5 DEF LeftoversWell, NoBacklog
  <2>4. ~IsIn(fn, <<>>)
    BY SmallSequences DEF IsIn
  <2> QED
    BY <1>7, <1>8, <2>1, <2>2, <2>3, <2>4
<1>12. Len(waiting) <= 1
  <2> SUFFICES ASSUME ~(Len(waiting) <= 1) PROVE FALSE
    OBVIOUS
  <2>1. Len(waiting) > 1
    BY <1>9, Places
  <2>2. PICK f, g \in DOMAIN functions : functions[f].name = name /\ functions[g].name = name /\ f # g
    BY <1>1, <1>5, <1>7, <1>8, <2>1 DEF Counted
  <2> QED
    BY <1>3, <1>4, <2>2 DEF Repeated
<1>13. IsIn(fn, waiting) => waiting # <<>> /\ waiting[1] = fn
  <2>1. DOMAIN waiting = 1..Len(waiting) /\ Len(waiting) \in Nat
    BY <1>9, Places
  <2>2. \A k \in DOMAIN waiting : k = 1
    BY <1>12, <2>1
  <2>3. ~IsIn(fn, <<>>)
    BY SmallSequences DEF IsIn
  <2> QED
    BY <2>2, <2>3 DEF IsIn
<1> QED
  BY <1>2, <1>5, <1>6, <1>8, <1>10, <1>11, <1>13 DEF WaitingFor

\* What a call records is a call of a function with a body.
LEMMA CallsOfWell ==
  ASSUME IInv, NEW name, NEW args, NEW b \in ResolveCall(ctx.res, global_bindings, name, args)
  PROVE  \A c \in CallsOf(b) : /\ c.fn \in DOMAIN functions /\ functions[c.fn].waits
                               /\ c.from = ctx.fn /\ c.globals = Len(global_bindings)
                               /\ c.globals \in Nat
<1>1. b.data.tag \in DOMAIN functions
  BY ChosenIsDefinition
<1>2. Len(global_bindings) \in Nat
  BY SearchedAre
<1> QED
  BY <1>1, <1>2 DEF CallsOf

\* A call that resolves nothing.
LEMMA CallDoneKeeps ==
  ASSUME IInv, NEW name, NEW args, NEW b \in ResolveCall(ctx.res, global_bindings, name, args),
         CallDone(CallsOf(b)), UNCHANGED <<phase, leftovers>>, left' \in 0..MaxStmts,
         \A c \in CallsOf(b) : IsFirstCall(c) => IsResolved(c.fn)
  PROVE  IInv'
<1>1. /\ FunctionsWell /\ ContextsWell /\ GlobalsWell /\ LeftoversWell /\ HistoryWell /\ NoneLost
      /\ CallsSeeGlobals /\ ResolvedOnce /\ FirstCallResolves /\ GlobalsExist /\ PanicsOnlyOnRepeated
      /\ errors \in BOOLEAN /\ phase \in {"script", "leftovers", "done", "panicked"}
  BY DEF IInv
<1>2. /\ calls' = calls \cup CallsOf(b)
      /\ UNCHANGED <<contexts, global_bindings, functions, errors, resolved, uses>>
  BY DEF CallDone
<1>3. /\ Grows /\ FunctionsWell' /\ ContextsWell' /\ GlobalsWell' /\ Counted' /\ OutersBegun'
      /\ \A fn : IsResolved(fn)' <=> IsResolved(fn)
  BY <1>2, SameTables
<1>4. LeftoversWell' /\ NoneLost'
  BY <1>1, <1>2, <1>3, LeftoversKeep, NoneLostKeeps
<1>5. \A c \in CallsOf(b) : /\ c.fn \in DOMAIN functions /\ functions[c.fn].waits
                            /\ c.globals = Len(global_bindings) /\ c.globals \in Nat
  BY CallsOfWell
<1> DEFINE new == CallsOf(b)
<1> HIDE DEF new
<1>6. calls' = calls \cup new /\ \A c \in new : /\ c.fn \in DOMAIN functions /\ functions[c.fn].waits
                                                /\ c.globals = Len(global_bindings) /\ c.globals \in Nat
                                                /\ IsFirstCall(c) => IsResolved(c.fn)
  BY <1>2, <1>5 DEF new
<1>7. HistoryWell'
  BY <1>1, <1>2, <1>6 DEF HistoryWell
<1>8. \A c : IsFirstCall(c)' <=> IsFirstCall(c)
  BY <1>2 DEF IsFirstCall, Repeated
<1>9. CallsSeeGlobals'
  BY <1>1, <1>2, <1>6, <1>8 DEF CallsSeeGlobals
<1>10. FirstCallResolves'
  <2> SUFFICES ASSUME NEW c \in calls', IsFirstCall(c) PROVE IsResolved(c.fn)
    BY <1>2 DEF FirstCallResolves, IsFirstCall, Repeated, IsResolved
  <2> QED
    BY <1>1, <1>6 DEF FirstCallResolves, IsFirstCall
<1>11. GlobalsExist'
  <2> SUFFICES ASSUME NEW c \in calls', NEW u \in uses, IsFirstCall(c), u.fn = c.fn
               PROVE  u.slot < c.globals
    BY <1>2 DEF GlobalsExist, IsFirstCall, Repeated
  <2>1. CASE c \in calls
    BY <1>1, <2>1 DEF GlobalsExist, IsFirstCall
  <2>2. CASE c \in new
    <3>1. u.slot \in 0..(Len(global_bindings) - 1)
      BY <1>1 DEF HistoryWell
    <3> QED
      BY <1>6, <2>2, <3>1
  <2> QED
    BY <1>6, <2>1, <2>2
<1>12. ResolvedOnce' /\ PanicsOnlyOnRepeated'
  BY <1>1, <1>2 DEF ResolvedOnce, PanicsOnlyOnRepeated, Repeated
<1> QED
  BY <1>1, <1>2, <1>3, <1>4, <1>7, <1>9, <1>10, <1>11, <1>12 DEF IInv

\* An index that leaves the backlog.
LEMMA PanicIsRepeated ==
  ASSUME IInv, NEW name, NEW args, NEW b \in ResolveCall(ctx.res, global_bindings, name, args),
         WaitingFor(name) # <<>>, CorrectIndex(ctx.res, name, b) + 1 \notin DOMAIN WaitingFor(name)
  PROVE  \E fn \in DOMAIN functions : functions[fn].waits /\ Repeated(fn)
<1>1. ContextsWell /\ Counted
  BY DEF IInv
<1>2. name \in FuncNames /\ WaitingFor(name) = ctx.backlog[name]
  BY DEF WaitingFor
<1>3. Len(contexts) \in DOMAIN contexts /\ ctx = contexts[Len(contexts)]
  BY <1>1, Current
<1>4. PICK fn \in DOMAIN functions : /\ functions[fn].name = name /\ functions[fn].waits
                                     /\ functions[fn].outer = ctx.fn
  BY <1>1, <1>2, <1>3 DEF Counted
<1>5. Repeated(fn)
  <2> SUFFICES ASSUME ~Repeated(fn) PROVE FALSE
    OBVIOUS
  <2>1. CorrectIndex(ctx.res, name, b) = 0
    BY <1>4, IndexIsFirst
  <2>2. IsSequence(WaitingFor(name))
    BY <1>1, <1>2, Current DEF IsContext, IsBacklog, IsList
  <2>3. 1 \in DOMAIN WaitingFor(name)
    BY <2>2, Behead
  <2> QED
    BY <2>1, <2>3
<1> QED
  BY <1>4, <1>5

(***************************************************************************)
(* A body begins.                                                          *)
(***************************************************************************)
\* The context of a body that begins: the function and its parameters are in
\* its scope.
FirstLocals(fn) == <<Callable(functions[fn].name, functions[fn].params, fn)>>
                     \o [i \in DOMAIN functions[fn].params |-> Variable("param")]
BodyContext(fn) == Context(fn, [BodyResolver EXCEPT !.local_bindings = FirstLocals(fn)])

\* It is a context, of its function.
LEMMA BodyIsContext ==
  ASSUME FunctionsWell, FunctionsWell', UNCHANGED functions, NEW fn \in DOMAIN functions
  PROVE  \E top : /\ top = BodyContext(fn)
                  /\ IsContext(top)' /\ top.fn = fn /\ ~top.res.is_global /\ top.backlog = NoBacklog
<1>1. PICK first, top : /\ first = FirstLocals(fn)
                        /\ top = Context(fn, [BodyResolver EXCEPT !.local_bindings = first])
  OBVIOUS
<1>2. PICK f, name, params : f = functions[fn] /\ name = f.name /\ params = f.params
  OBVIOUS
<1>3. IsSequence(params) /\ DOMAIN params = 1..Len(params) /\ Len(params) \in Nat
  BY <1>2, Places DEF FunctionsWell
<1>4. fn \in 0..Len(functions) /\ fn \in Int
  BY Places DEF FunctionsWell
<1>5. PICK own : own = Callable(name, params, fn)
  OBVIOUS
<1>6. PICK rest : rest = [i \in DOMAIN params |-> Variable("param")]
  OBVIOUS
<1>7. first = <<own>> \o rest
  BY <1>1, <1>2, <1>5, <1>6 DEF FirstLocals
<1>8. IsSequence(rest) /\ Len(rest) = Len(params) /\ \A i \in 1..Len(rest) : rest[i] = Variable("param")
  <2>1. rest = [i \in 1..Len(params) |-> rest[i]] /\ \A i \in 1..Len(params) : rest[i] = Variable("param")
    BY <1>3, <1>6
  <2> QED
    BY <1>3, <2>1, FunctionIsSequence
<1>9. /\ IsSequence(first) /\ DOMAIN first = 1..(1 + Len(rest))
      /\ first[1] = own /\ \A i \in 1..Len(rest) : first[1 + i] = Variable("param")
  <2>1. IsSequence(<<own>>) /\ Len(<<own>>) = 1 /\ <<own>>[1] = own
    BY SmallSequences
  <2>2. /\ IsSequence(<<own>> \o rest)
        /\ DOMAIN (<<own>> \o rest) = 1..(1 + Len(rest))
        /\ (<<own>> \o rest)[1] = own
        /\ \A i \in 1..Len(rest) : (<<own>> \o rest)[1 + i] = rest[i]
    BY <1>8, <2>1, Joined
  <2> QED
    BY <1>7, <1>8, <2>2
<1>10. Len(rest) \in Nat
  BY <1>3, <1>8
<1>11. \A i \in 1..(1 + Len(rest)) : i = 1 \/ first[i] = Variable("param")
  <2> SUFFICES ASSUME NEW i \in 1..(1 + Len(rest)), i # 1 PROVE first[i] = Variable("param")
    OBVIOUS
  <2>1. i - 1 \in 1..Len(rest) /\ i = 1 + (i - 1)
    BY <1>10
  <2> QED
    BY <1>9, <2>1
<1>12. /\ IsDeclaration(own) /\ own.name = name /\ own.tag = fn /\ own.type.t = "Function"
       /\ IsDeclaration(Variable("param")) /\ Variable("param").type.t = "Int"
  BY <1>4, <1>5 DEF IsDeclaration, Callable, Variable, VarData
<1>13. NamesItsFunction(own)' /\ NamesItsFunction(Variable("param"))'
  BY <1>2, <1>12 DEF NamesItsFunction, IsFunctionData
<1>14. IsTable(first)
  BY <1>9, <1>11, <1>12 DEF IsTable
<1>15. IsScope(first)'
  <2>1. \A i \in DOMAIN first : first[i] = own \/ first[i] = Variable("param")
    BY <1>9, <1>11
  <2>2. \A d : d = own \/ d = Variable("param") => NamesItsFunction(d)'
    BY <1>13
  <2>3. \A i \in DOMAIN first : NamesItsFunction(first[i])'
    BY <2>1, <2>2
  <2>4. \A i \in DOMAIN first : IsFunctionData(first[i]) => i = 1
    BY <1>9, <1>11, <1>12 DEF IsFunctionData
  <2> QED
    BY <1>14, <2>3, <2>4 DEF IsScope
<1> DEFINE res == [BodyResolver EXCEPT !.local_bindings = first]
<1>16. IsResolver(res) /\ res.local_bindings = first /\ ~res.is_global
  BY <1>14 DEF IsResolver, BodyResolver, NewResolver
<1> HIDE DEF res
<1>17. top.fn = fn /\ top.res = res /\ top.backlog = NoBacklog /\ DOMAIN top = {"fn", "res", "backlog"}
  BY <1>1 DEF Context, res
<1>18. IsBacklog(NoBacklog, fn)'
  BY NothingWaits
<1> QED
  BY <1>1, <1>4, <1>15, <1>16, <1>17, <1>18 DEF IsContext, BodyContext

\* One more body is resolved.
LEMMA BodyBegun ==
  ASSUME IsSequence(resolved), NEW fn, NEW below, Begin(fn, below)
  PROVE  /\ \A f : IsResolved(f)' <=> IsResolved(f) \/ f = fn
         /\ IsSequence(resolved)'
         /\ Len(resolved) \in Nat /\ DOMAIN resolved = 1..Len(resolved)
         /\ (DOMAIN resolved)' = 1..(Len(resolved) + 1)
         /\ \A k \in 1..Len(resolved) : resolved'[k] = resolved[k]
         /\ resolved'[Len(resolved) + 1].fn = fn
<1>1. PICK entry, r : entry = [fn |-> fn, phase |-> phase] /\ r = Len(resolved)
  OBVIOUS
<1>2. entry.fn = fn /\ resolved' = Append(resolved, entry)
  BY <1>1 DEF Begin
<1>3. r \in Nat /\ DOMAIN resolved = 1..r
  BY <1>1, Places
<1>4. /\ IsSequence(resolved)' /\ (DOMAIN resolved)' = 1..(r + 1)
      /\ \A k \in 1..r : resolved'[k] = resolved[k]
      /\ resolved'[r + 1] = entry
  BY <1>1, <1>2, <1>3, Appended
<1>5. /\ \A k \in 1..(r + 1) : k \in 1..r \/ k = r + 1
      /\ \A k \in 1..r : k \in 1..(r + 1)
      /\ r + 1 \in 1..(r + 1)
  BY <1>3
<1>6. \A f : IsResolved(f)' <=> IsResolved(f) \/ f = fn
  BY <1>2, <1>3, <1>4, <1>5 DEF IsResolved
<1> QED
  BY <1>1, <1>2, <1>3, <1>4, <1>6

\* Contexts which that body has left, and nothing else.
HaveLost(below, fn) ==
    /\ IsSequence(below) /\ Len(below) = Len(contexts)
    /\ \A i \in DOMAIN contexts :
          /\ IsContext(below[i])'
          /\ below[i].fn = contexts[i].fn /\ below[i].res = contexts[i].res
    /\ \A i \in DOMAIN contexts, name \in FuncNames :
          /\ Len(below[i].backlog[name]) = Len(contexts[i].backlog[name])
          /\ \A f : IsIn(f, contexts[i].backlog[name]) => f = fn \/ IsIn(f, below[i].backlog[name])

\* What the beginning of a body keeps, whoever begins it.
LEMMA BeginKeeps ==
  ASSUME IInv, Len(contexts) < MaxContexts, UNCHANGED <<functions, global_bindings, uses>>,
         NEW fn \in DOMAIN functions, functions[fn].waits, functions[fn].outer = ctx.fn, ~IsResolved(fn),
         NEW below, HaveLost(below, fn),
         UNCHANGED unfinished, \A f : IsIn(f, funcs) => f = fn \/ IsIn(f, funcs)',
         Begin(fn, below)
  PROVE  /\ ContextsWell' /\ GlobalsWell' /\ OutersBegun' /\ NoneLost' /\ Counted' /\ ResolvedOnce'
         /\ \A f : IsResolved(f)' <=> IsResolved(f) \/ f = fn
         /\ IsSequence(resolved)'
         /\ \A k \in (DOMAIN resolved)' : resolved'[k].fn = fn \/ \E j \in DOMAIN resolved : resolved'[k] = resolved[j]
         /\ (DOMAIN contexts)' = DOMAIN contexts \cup {Len(contexts) + 1}
         /\ \A i \in DOMAIN contexts : contexts'[i] = below[i]
         /\ contexts'[Len(contexts) + 1].fn = fn
<1>1. /\ FunctionsWell /\ ContextsWell /\ GlobalsWell /\ HistoryWell /\ OutersBegun /\ NoneLost /\ Counted
      /\ ResolvedOnce
  BY DEF IInv
<1>2. /\ IsSequence(below) /\ Len(below) = Len(contexts)
      /\ \A i \in DOMAIN contexts : /\ IsContext(below[i])'
                                     /\ below[i].fn = contexts[i].fn
                                     /\ below[i].res = contexts[i].res
      /\ \A i \in DOMAIN contexts, name \in FuncNames :
            Len(below[i].backlog[name]) = Len(contexts[i].backlog[name])
      /\ \A i \in DOMAIN contexts, name \in FuncNames : \A f :
            IsIn(f, contexts[i].backlog[name]) => f = fn \/ IsIn(f, below[i].backlog[name])
  BY DEF HaveLost
<1>3. FunctionsWell' /\ Grows
  BY <1>1, SameFunctions
<1>4. PICK top : /\ top = BodyContext(fn)
                 /\ IsContext(top)' /\ top.fn = fn /\ ~top.res.is_global /\ top.backlog = NoBacklog
  BY <1>1, <1>3, BodyIsContext
<1>5. contexts' = Append(below, top) /\ resolved' = Append(resolved, [fn |-> fn, phase |-> phase])
  BY <1>4 DEF Begin, BodyContext, FirstLocals
<1>6. PICK r : r = Len(resolved)
  OBVIOUS
<1>7. /\ IsSequence(resolved)' /\ (DOMAIN resolved)' = 1..(r + 1) /\ r \in Nat /\ DOMAIN resolved = 1..r
      /\ \A k \in 1..r : resolved'[k] = resolved[k]
      /\ resolved'[r + 1].fn = fn
      /\ \A f : IsResolved(f)' <=> IsResolved(f) \/ f = fn
  BY <1>1, <1>6, BodyBegun DEF HistoryWell
<1>8. \A k \in 1..(r + 1) : k \in 1..r \/ k = r + 1
  BY <1>7
<1>9. \A f : IsResolved(f)' <=> IsResolved(f) \/ f = fn
  BY <1>7
<1>10. fn # 0 /\ fn # Taken
  <2>1. DOMAIN functions = 1..Len(functions)
    BY <1>1, Current
  <2> QED
    BY <2>1 DEF Taken
<1>11. \A i \in DOMAIN contexts : contexts[i].fn # fn
  <2> SUFFICES ASSUME NEW i \in DOMAIN contexts, contexts[i].fn = fn PROVE FALSE
    OBVIOUS
  <2>1. i > 1
    <3>1. i # 1 /\ DOMAIN contexts = 1..Len(contexts)
      BY <1>1, <1>10, Current DEF ContextsWell
    <3> QED
      BY <3>1
  <2> QED
    BY <1>1, <2>1 DEF ContextsWell
<1>12. /\ ContextsWell'
       /\ (DOMAIN contexts)' = DOMAIN contexts \cup {Len(contexts) + 1}
       /\ \A i \in DOMAIN contexts : contexts'[i] = below[i]
       /\ contexts'[Len(contexts) + 1] = top
  <2>1. /\ FunctionsWell /\ ContextsWell /\ FunctionsWell' /\ functions' = functions
        /\ contexts' = Append(below, top)
    BY <1>1, <1>3, <1>5
  <2>2. IsContext(top)' /\ top.fn # 0 /\ ~top.res.is_global
    BY <1>4, <1>10
  <2>3. /\ \A i \in DOMAIN contexts : contexts[i].fn # top.fn
        /\ \A f : IsResolved(f)' <=> IsResolved(f) \/ f = top.fn
    BY <1>4, <1>9, <1>11
  <2> QED
    BY <1>2, <2>1, <2>2, <2>3, ContextsPushed
<1>13. 1 \in DOMAIN contexts /\ Len(contexts) + 1 \notin DOMAIN contexts
  <2>1. DOMAIN contexts = 1..Len(contexts) /\ Len(contexts) \in Nat \ {0}
    BY <1>1, Current
  <2> QED
    BY <2>1
<1>14. GlobalsWell'
  <2>1. contexts'[1].res = contexts[1].res
    BY <1>2, <1>12, <1>13
  <2> QED
    BY <1>1, <1>3, <2>1, GlobalsKeep
<1>15. OutersBegun'
  BY <1>1, <1>3, <1>9, OutersKeep
<1>16. NoneLost'
  <2>1. ASSUME NEW f \in DOMAIN functions, NEW i \in (DOMAIN contexts)',
               functions[f].waits, functions[f].outer = contexts'[i].fn
        PROVE  \/ IsResolved(f)'
               \/ IsIn(f, contexts'[i].backlog[functions[f].name])
               \/ i = 1 /\ (IsIn(f, unfinished'[functions[f].name]) \/ IsIn(f, funcs'))
    <3>1. CASE i = Len(contexts) + 1
      <4>1. functions[f].outer = fn
        BY <1>4, <1>12, <2>1, <3>1
      <4> QED
        BY <1>1, <1>10, <4>1 DEF OutersBegun
    <3>2. CASE i \in DOMAIN contexts
      <4>1. functions[f].outer = contexts[i].fn /\ functions[f].name \in FuncNames
        BY <1>1, <1>2, <1>12, <2>1, <3>2 DEF FunctionsWell
      <4>2. \/ IsResolved(f)
            \/ IsIn(f, contexts[i].backlog[functions[f].name])
            \/ i = 1 /\ (IsIn(f, unfinished[functions[f].name]) \/ IsIn(f, funcs))
        BY <1>1, <2>1, <3>2, <4>1 DEF NoneLost
      <4>3. IsIn(f, funcs) => f = fn \/ IsIn(f, funcs')
        BY DEF IsIn
      <4> QED
        BY <1>2, <1>9, <1>12, <3>2, <4>1, <4>2, <4>3
    <3> QED
      BY <1>12, <3>1, <3>2
  <2> QED
    BY <2>1 DEF NoneLost, IsIn
<1>17. Counted'
  <2>1. ASSUME NEW i \in (DOMAIN contexts)', NEW name \in FuncNames, NEW waiting,
               waiting = contexts'[i].backlog[name]
        PROVE  \/ i \in DOMAIN contexts /\ contexts'[i].fn = contexts[i].fn
                  /\ Len(waiting) = Len(contexts[i].backlog[name])
                  /\ (waiting # <<>> => contexts[i].backlog[name] # <<>>)
               \/ waiting = <<>> /\ Len(waiting) = 0
    <3>1. CASE i = Len(contexts) + 1
      BY <1>4, <1>12, <2>1, <3>1, SmallSequences DEF NoBacklog
    <3>2. CASE i \in DOMAIN contexts
      <4>1. waiting = below[i].backlog[name]
        BY <1>12, <2>1, <3>2
      <4>2. IsSequence(waiting)
        BY <1>2, <3>2, <4>1 DEF IsContext, IsBacklog, IsList
      <4>3. waiting # <<>> => Len(waiting) # 0
        BY <4>2, EmptySeq DEF IsSequence
      <4>4. Len(<<>>) = 0
        BY SmallSequences
      <4> QED
        BY <1>2, <1>12, <3>2, <4>1, <4>3, <4>4
    <3> QED
      BY <1>12, <3>1, <3>2
  <2> SUFFICES ASSUME NEW i \in (DOMAIN contexts)', NEW name \in FuncNames
               PROVE  LET waiting == contexts[i].backlog[name]
                          named == {f \in DOMAIN functions : functions[f].name = name /\ functions[f].waits
                                                              /\ functions[f].outer = contexts[i].fn}
                      IN (/\ waiting # <<>> => named # {}
                          /\ Len(waiting) > 1 => \E f, g \in named : f # g)'
    BY DEF Counted
  <2>2. PICK waiting : waiting = contexts'[i].backlog[name]
    OBVIOUS
  <2>3. CASE waiting = <<>> /\ Len(waiting) = 0
    BY <2>2, <2>3
  <2>4. CASE i \in DOMAIN contexts /\ contexts'[i].fn = contexts[i].fn
             /\ Len(waiting) = Len(contexts[i].backlog[name])
             /\ (waiting # <<>> => contexts[i].backlog[name] # <<>>)
    BY <1>1, <2>2, <2>4 DEF Counted
  <2> QED
    BY <2>1, <2>2, <2>3, <2>4
<1>18. ResolvedOnce'
  <2>1. \A k \in 1..r : resolved[k].fn # fn
    BY <1>7 DEF IsResolved
  <2> QED
    BY <1>1, <1>7, <1>8, <2>1 DEF ResolvedOnce
<1>19. \A k \in (DOMAIN resolved)' : resolved'[k].fn = fn \/ \E j \in DOMAIN resolved : resolved'[k] = resolved[j]
  BY <1>7, <1>8
<1> QED
  BY <1>4, <1>7, <1>9, <1>12, <1>14, <1>15, <1>16, <1>17, <1>18, <1>19

\* A body is taken from a backlog.
LEMMA BodyTaken ==
  ASSUME FunctionsWell, FunctionsWell', UNCHANGED functions,
         NEW old, IsContext(old), NEW name \in FuncNames, NEW i \in DOMAIN old.backlog[name],
         old.backlog[name][i] # Taken,
         \A f : IsResolved(f)' <=> IsResolved(f) \/ f = old.backlog[name][i]
  PROVE  LET new == Take(old, name, i)
             fn == old.backlog[name][i]
         IN /\ IsContext(new)' /\ new.fn = old.fn /\ new.res = old.res
            /\ \A other \in FuncNames : Len(new.backlog[other]) = Len(old.backlog[other])
            /\ \A other \in FuncNames : \A f :
                  IsIn(f, old.backlog[other]) => f = fn \/ IsIn(f, new.backlog[other])
<1>1. PICK new, list, fn, less :
         /\ new = Take(old, name, i) /\ list = old.backlog[name] /\ fn = list[i]
         /\ less = [list EXCEPT ![i] = Taken]
  OBVIOUS
<1>2. fn # Taken /\ \A f : IsResolved(f)' <=> IsResolved(f) \/ f = fn
  BY <1>1
<1>3. /\ DOMAIN old = {"fn", "res", "backlog"} /\ DOMAIN old.backlog = FuncNames
      /\ IsBacklog(old.backlog, old.fn) /\ IsList(list, name, old.fn)
      /\ old.fn \in 0..Len(functions) /\ IsResolver(old.res) /\ IsScope(old.res.local_bindings)
  BY <1>1 DEF IsContext, IsBacklog
<1>4. /\ new.fn = old.fn /\ new.res = old.res /\ DOMAIN new = {"fn", "res", "backlog"}
      /\ new.backlog = [old.backlog EXCEPT ![name] = less]
  BY <1>1, <1>3 DEF Take
<1>5. /\ DOMAIN new.backlog = FuncNames /\ new.backlog[name] = less
      /\ \A other \in FuncNames : other # name => new.backlog[other] = old.backlog[other]
  BY <1>3, <1>4
<1>6. IsSequence(list) /\ i \in DOMAIN list /\ list[i] = fn
  BY <1>1, <1>3 DEF IsList
<1>7. /\ IsSequence(less) /\ Len(less) = Len(list) /\ DOMAIN less = DOMAIN list
      /\ \A k \in DOMAIN list : k # i => less[k] = list[k]
      /\ less[i] = Taken
  <2>1. \A x : LET t == [list EXCEPT ![i] = x]
               IN /\ IsSequence(t) /\ Len(t) = Len(list) /\ DOMAIN t = DOMAIN list
                  /\ \A k \in DOMAIN list : k # i => t[k] = list[k]
                  /\ t[i] = x
    BY <1>6, ReplacedAt
  <2> QED
    BY <1>1, <2>1
<1>8. functions[fn].name = name
  BY <1>2, <1>3, <1>6 DEF IsList
<1>9. IsList(less, name, old.fn)'
  <2>1. \A k \in DOMAIN less : less[k] # Taken => k # i /\ less[k] = list[k] /\ list[k] # fn
    BY <1>3, <1>6, <1>7 DEF IsList
  <2>2. \A k \in DOMAIN less : less[k] # Taken => ~IsResolved(less[k])'
    <3> SUFFICES ASSUME NEW k \in DOMAIN less, NEW f, f = less[k], f # Taken PROVE ~IsResolved(f)'
      OBVIOUS
    <3>1. f = list[k] /\ k \in DOMAIN list /\ f # fn
      BY <1>7, <2>1
    <3>2. ~IsResolved(f)
      BY <1>3, <3>1 DEF IsList
    <3> QED
      BY <1>2, <3>1, <3>2
  <2>3. \A k \in DOMAIN less : less[k] # Taken =>
          /\ less[k] \in DOMAIN functions
          /\ functions[less[k]].waits
          /\ functions[less[k]].name = name
          /\ functions[less[k]].outer = old.fn
    BY <1>3, <1>7, <2>1 DEF IsList
  <2>4. \A j, k \in DOMAIN less : less[j] = less[k] /\ less[j] # Taken => j = k
    BY <1>3, <1>7, <2>1 DEF IsList
  <2> QED
    BY <1>7, <2>2, <2>3, <2>4 DEF IsList
<1>10. ASSUME NEW other \in FuncNames, other # name PROVE IsList(new.backlog[other], other, old.fn)'
  <2>1. PICK l : l = old.backlog[other] /\ l = new.backlog[other]
    BY <1>5, <1>10
  <2>2. IsList(l, other, old.fn)
    BY <1>3, <2>1 DEF IsBacklog
  <2>3. \A k \in DOMAIN l : l[k] # Taken => ~IsResolved(l[k])'
    <3> SUFFICES ASSUME NEW k \in DOMAIN l, NEW f, f = l[k], f # Taken PROVE ~IsResolved(f)'
      OBVIOUS
    <3>1. ~IsResolved(f) /\ functions[f].name = other
      BY <2>2 DEF IsList
    <3> QED
      BY <1>2, <1>8, <1>10, <3>1
  <2>4. Grows
    BY SameFunctions
  <2> QED
    BY <2>1, <2>2, <2>3, <2>4, ListKeeps
<1>11. IsBacklog(new.backlog, new.fn)'
  BY <1>4, <1>5, <1>9, <1>10 DEF IsBacklog
<1>12. IsContext(new)'
  <2>1. IsScope(old.res.local_bindings)'
    BY <1>3, ScopeKeeps, SameFunctions
  <2> QED
    BY <1>3, <1>4, <1>11, <2>1 DEF IsContext
<1>13. \A f : IsIn(f, list) => f = fn \/ IsIn(f, less)
  BY <1>6, <1>7 DEF IsIn
<1> QED
  BY <1>1, <1>4, <1>5, <1>7, <1>12, <1>13

\* The call that chooses a body that waits resolves it.
LEMMA FinishKeeps ==
  ASSUME IInv, Step, NEW name, NEW args, NEW b \in ResolveCall(ctx.res, global_bindings, name, args),
         NEW i, i = CorrectIndex(ctx.res, name, b) + 1,
         WaitingFor(name) # <<>>, i \in DOMAIN WaitingFor(name), WaitingFor(name)[i] # Taken,
         Len(contexts) < MaxContexts, Finish(WaitingFor(name)[i], name, i, CallsOf(b)),
         UNCHANGED <<phase, leftovers>>, left' \in 0..MaxStmts
  PROVE  IInv'
<1>1. /\ FunctionsWell /\ ContextsWell /\ GlobalsWell /\ LeftoversWell /\ HistoryWell /\ NoneLost
      /\ CallsSeeGlobals /\ ResolvedOnce /\ FirstCallResolves /\ GlobalsExist /\ PanicsOnlyOnRepeated
      /\ errors \in BOOLEAN /\ phase \in {"script", "leftovers", "done", "panicked"}
  BY DEF IInv
<1>2. PICK fn : fn = WaitingFor(name)[i]
  OBVIOUS
<1>3. PICK new : new = CallsOf(b)
  OBVIOUS
<1>4. PICK old, less : old = ctx /\ less = Take(old, name, i)
  OBVIOUS
<1>5. PICK below : below = WithTop(less)
  OBVIOUS
<1>6. /\ Begin(fn, below) /\ calls' = calls \cup new
      /\ UNCHANGED <<global_bindings, functions, errors, uses, phase, leftovers, unfinished, funcs>>
  BY <1>2, <1>3, <1>4, <1>5 DEF Finish, leftovers
<1>7. FunctionsWell' /\ Grows /\ Len(functions)' \in Nat
  BY <1>1, <1>6, SameFunctions, Current DEF FunctionsWell
<1>8. PICK n : /\ n = Len(contexts) /\ n \in Nat \ {0} /\ DOMAIN contexts = 1..n
               /\ n \in DOMAIN contexts /\ 1 \in DOMAIN contexts
               /\ old = contexts[n] /\ IsContext(old) /\ (old.fn = 0 <=> n = 1)
  BY <1>1, <1>4, Current DEF InMain
<1>9. name \in FuncNames /\ WaitingFor(name) = old.backlog[name]
  BY <1>4 DEF WaitingFor
<1>10. /\ fn # Taken /\ i \in DOMAIN old.backlog[name] /\ fn = old.backlog[name][i]
       /\ fn \in DOMAIN functions /\ functions[fn].waits /\ functions[fn].outer = old.fn
       /\ functions[fn].name = name /\ ~IsResolved(fn)
  <2>1. PICK list : list = old.backlog[name]
    OBVIOUS
  <2>2. IsList(list, name, old.fn)
    BY <1>8, <1>9, <2>1 DEF IsContext, IsBacklog
  <2>3. fn # Taken /\ i \in DOMAIN list /\ fn = list[i]
    BY <1>2, <1>9, <2>1
  <2>4. /\ fn \in DOMAIN functions /\ functions[fn].waits /\ functions[fn].outer = old.fn
        /\ functions[fn].name = name /\ ~IsResolved(fn)
    BY <2>2, <2>3 DEF IsList
  <2> QED
    BY <2>1, <2>3, <2>4
<1>11. \A f : IsResolved(f)' <=> IsResolved(f) \/ f = fn
  BY <1>1, <1>6, BodyBegun DEF HistoryWell
<1>12. /\ IsContext(less)' /\ less.fn = old.fn /\ less.res = old.res
       /\ \A other \in FuncNames : Len(less.backlog[other]) = Len(old.backlog[other])
       /\ \A other \in FuncNames : \A f :
             IsIn(f, old.backlog[other]) => f = fn \/ IsIn(f, less.backlog[other])
  <2>1. /\ FunctionsWell /\ FunctionsWell' /\ UNCHANGED functions /\ IsContext(old)
        /\ name \in FuncNames /\ i \in DOMAIN old.backlog[name] /\ old.backlog[name][i] = fn /\ fn # Taken
    BY <1>1, <1>6, <1>7, <1>8, <1>9, <1>10
  <2> QED
    BY <1>4, <1>11, <2>1, BodyTaken
<1>13. /\ IsSequence(below) /\ Len(below) = n /\ below[n] = less
       /\ \A k \in 1..n : k # n => below[k] = contexts[k]
  <2>1. IsSequence(contexts) /\ n \in DOMAIN contexts
    BY <1>1, <1>8 DEF ContextsWell
  <2>2. LET t == [contexts EXCEPT ![n] = less]
        IN /\ IsSequence(t) /\ Len(t) = Len(contexts) /\ DOMAIN t = DOMAIN contexts
           /\ \A k \in DOMAIN contexts : k # n => t[k] = contexts[k]
           /\ t[n] = less
    BY ONLY <2>1, ReplacedAt
  <2>3. below = [contexts EXCEPT ![n] = less]
    BY <1>5, <1>8 DEF WithTop
  <2> QED
    BY <1>8, <2>2, <2>3
<1>14. ASSUME NEW k \in 1..n, k # n PROVE IsContext(below[k])'
  <2>1. PICK d : d = contexts[k] /\ d = below[k]
    BY <1>13, <1>14
  <2>2. IsContext(d) /\ d.fn # old.fn
    BY <1>1, <1>8, <1>14, <2>1 DEF ContextsWell
  <2>3. \A f : WaitsIn(f, d.backlog) /\ f # Taken => ~IsResolved(f)'
    <3>1. \A f : WaitsIn(f, d.backlog) /\ f # Taken => ~IsResolved(f) /\ functions[f].outer = d.fn
      BY <2>2, WaitingUnresolved DEF IsContext
    <3> QED
      BY <1>10, <1>11, <2>2, <3>1
  <2>4. IsContext(d)'
    BY <1>1, <1>7, <2>2, <2>3, ContextKeeps
  <2> QED
    BY <2>1, <2>4
<1>15. HaveLost(below, fn)
  <2> SUFFICES ASSUME NEW k \in 1..n
               PROVE  /\ IsContext(below[k])'
                      /\ below[k].fn = contexts[k].fn
                      /\ below[k].res = contexts[k].res
                      /\ \A other \in FuncNames : Len(below[k].backlog[other]) = Len(contexts[k].backlog[other])
                      /\ \A other \in FuncNames : \A f :
                            IsIn(f, contexts[k].backlog[other]) => f = fn \/ IsIn(f, below[k].backlog[other])
    BY <1>8, <1>13 DEF HaveLost
  <2>1. CASE k = n
    <3>1. below[k] = less /\ contexts[k] = old
      BY <1>8, <1>13, <2>1
    <3> QED
      BY <1>12, <3>1
  <2>2. CASE k # n
    BY <1>13, <1>14, <2>2
  <2> QED
    BY <2>1, <2>2
<1>16. /\ ContextsWell' /\ GlobalsWell' /\ OutersBegun' /\ NoneLost' /\ Counted' /\ ResolvedOnce'
       /\ IsSequence(resolved)'
       /\ \A k \in (DOMAIN resolved)' : resolved'[k].fn = fn \/ \E j \in DOMAIN resolved : resolved'[k] = resolved[j]
       /\ (DOMAIN contexts)' = DOMAIN contexts \cup {n + 1}
       /\ \A k \in DOMAIN contexts : contexts'[k] = below[k]
       /\ contexts'[n + 1].fn = fn
  <2>1. /\ Len(contexts) < MaxContexts /\ UNCHANGED <<functions, global_bindings, uses>>
        /\ functions[fn].outer = ctx.fn
        /\ UNCHANGED unfinished /\ \A f : IsIn(f, funcs) => f = fn \/ IsIn(f, funcs)'
    BY <1>4, <1>6, <1>8, <1>10, <1>13 DEF IsIn
  <2>2. fn \in DOMAIN functions /\ functions[fn].waits /\ ~IsResolved(fn) /\ Begin(fn, below)
    BY <1>6, <1>10
  <2>3. /\ ContextsWell' /\ GlobalsWell' /\ OutersBegun' /\ NoneLost' /\ Counted' /\ ResolvedOnce'
        /\ IsSequence(resolved)'
        /\ \A k \in (DOMAIN resolved)' : resolved'[k].fn = fn \/ \E j \in DOMAIN resolved : resolved'[k] = resolved[j]
        /\ (DOMAIN contexts)' = DOMAIN contexts \cup {Len(contexts) + 1}
        /\ \A k \in DOMAIN contexts : contexts'[k] = below[k]
        /\ contexts'[Len(contexts) + 1].fn = fn
    BY <1>15, <2>1, <2>2, BeginKeeps
  <2> QED
    BY <1>8, <2>3
<1>17. LeftoversWell'
  <2>1. \A f \in DOMAIN functions : IsResolved(f)' =>
           IsResolved(f) \/ functions[f].outer # 0 \/ phase = "script"
    BY <1>8, <1>10, <1>11 DEF Step, InMain
  <2>2. phase = "script" \/ contexts'[1].backlog = contexts[1].backlog
    <3>1. phase = "script" \/ n # 1
      BY <1>8 DEF Step, InMain
    <3> QED
      BY <1>8, <1>13, <1>16, <3>1
  <2> QED
    BY <1>1, <1>6, <1>7, <2>1, <2>2, LeftoversKeep
<1>18. \A c \in new : /\ c.fn \in DOMAIN functions /\ functions[c.fn].waits
                      /\ c.globals = Len(global_bindings) /\ c.globals \in Nat
                      /\ IsFirstCall(c) => IsResolved(c.fn) \/ c.fn = fn
  <2>1. \A c \in new : IsFirstCall(c) => IsResolved(c.fn) \/ c.fn = fn
    <3> SUFFICES ASSUME NEW c \in CallsOf(b), IsFirstCall(c) PROVE IsResolved(c.fn) \/ c.fn = fn
      BY <1>3
    <3>1. \/ IsResolved(c.fn)
          \/ CorrectIndex(ctx.res, name, b) = 0 /\ WaitingFor(name)[1] = c.fn
      BY FirstCallWaits
    <3> QED
      BY <1>2, <3>1
  <2> QED
    BY <1>3, <2>1, CallsOfWell
<1>19. HistoryWell'
  <2>1. \A k \in (DOMAIN resolved)' : /\ resolved'[k].fn \in DOMAIN functions
                                      /\ functions[resolved'[k].fn].waits
    BY <1>1, <1>10, <1>16 DEF HistoryWell
  <2> QED
    BY <1>1, <1>6, <1>16, <1>18, <2>1 DEF HistoryWell
<1>20. \A c : IsFirstCall(c)' <=> IsFirstCall(c)
  BY <1>6 DEF IsFirstCall, Repeated
<1>21. CallsSeeGlobals'
  <2> SUFFICES ASSUME NEW c \in calls', NEW k \in (DOMAIN contexts)', IsFirstCall(c),
                      contexts'[k].fn = c.fn
               PROVE  Len(global_bindings) <= c.globals
    BY <1>6, <1>20 DEF CallsSeeGlobals
  <2>1. CASE c \in new
    BY <1>18, <2>1
  <2>2. CASE c \in calls
    <3>1. IsResolved(c.fn)
      BY <1>1, <2>2 DEF FirstCallResolves, IsFirstCall
    <3>2. k \in DOMAIN contexts
      BY <1>10, <1>16, <3>1
    <3>3. contexts[k].fn = c.fn
      BY <1>15, <1>16, <3>2 DEF HaveLost
    <3> QED
      BY <1>1, <2>2, <3>2, <3>3 DEF CallsSeeGlobals
  <2> QED
    BY <1>6, <2>1, <2>2
<1>22. FirstCallResolves'
  <2> SUFFICES ASSUME NEW c \in calls', IsFirstCall(c), NEW f, f = c.fn PROVE IsResolved(f)'
    BY <1>6, <1>20 DEF FirstCallResolves, IsFirstCall
  <2>1. IsResolved(f) \/ f = fn
    BY <1>1, <1>6, <1>18 DEF FirstCallResolves, IsFirstCall
  <2> QED
    BY <1>11, <2>1
<1>23. GlobalsExist'
  <2> SUFFICES ASSUME NEW c \in calls', NEW u \in uses, IsFirstCall(c), u.fn = c.fn
               PROVE  u.slot < c.globals
    BY <1>6, <1>20 DEF GlobalsExist, IsFirstCall
  <2>1. CASE c \in calls
    BY <1>1, <2>1 DEF GlobalsExist, IsFirstCall
  <2>2. CASE c \in new
    <3>1. u.slot \in 0..(Len(global_bindings) - 1)
      BY <1>1 DEF HistoryWell
    <3> QED
      BY <1>18, <2>2, <3>1
  <2> QED
    BY <1>6, <2>1, <2>2
<1>24. PanicsOnlyOnRepeated'
  BY <1>1, <1>6 DEF PanicsOnlyOnRepeated, Repeated
<1> QED
  BY <1>1, <1>6, <1>7, <1>16, <1>17, <1>19, <1>21, <1>22, <1>23, <1>24 DEF IInv

\* A call, with all its outcomes.
LEMMA CallKeeps == ASSUME IInv, NEW name, NEW args, Call(name, args) PROVE IInv'
<1>1. /\ Step /\ left' \in 0..MaxStmts /\ UNCHANGED leftovers
  BY StatementTakesOne DEF IInv, Call
<1>2. PICK found : found = ResolveCall(ctx.res, global_bindings, name, args)
  OBVIOUS
<1>3. CASE found = {}
  <2>1. CallError /\ UNCHANGED phase
    BY <1>2, <1>3 DEF Call
  <2>2. UNCHANGED <<contexts, functions, global_bindings, leftovers, history>> /\ errors' \in BOOLEAN
    BY <1>1, <2>1 DEF CallError
  <2> QED
    BY <1>1, <2>1, <2>2, NothingKeeps
<1>4. CASE found # {}
  <2>1. PICK b \in found :
           LET i == CorrectIndex(ctx.res, name, b) + 1
               waiting == WaitingFor(name)
               call == CallsOf(b)
           IN IF waiting = <<>> THEN CallDone(call) /\ UNCHANGED phase
              ELSE IF i \notin DOMAIN waiting
              THEN phase' = "panicked" /\ UNCHANGED <<contexts, global_bindings, functions, errors, history>>
              ELSE IF waiting[i] = Taken THEN CallDone(call) /\ UNCHANGED phase
              ELSE /\ Len(contexts) < MaxContexts
                   /\ Finish(waiting[i], name, i, call) /\ UNCHANGED phase
    BY <1>2, <1>4 DEF Call, WaitingFor, CallsOf
  <2>2. PICK i, waiting : i = CorrectIndex(ctx.res, name, b) + 1 /\ waiting = WaitingFor(name)
    OBVIOUS
  <2>3. b \in ResolveCall(ctx.res, global_bindings, name, args)
    BY <1>2
  <2>4. CASE waiting = <<>>
    <3>1. CallDone(CallsOf(b)) /\ UNCHANGED phase
      BY <2>1, <2>2, <2>4
    <3>2. \A c \in CallsOf(b) : IsFirstCall(c) => IsResolved(c.fn)
      BY <1>1, <2>2, <2>3, <2>4, FirstCallWaits
    <3> QED
      BY <1>1, <2>3, <3>1, <3>2, CallDoneKeeps
  <2>5. CASE waiting # <<>> /\ i \notin DOMAIN waiting
    <3>1. /\ phase' = "panicked" /\ UNCHANGED <<contexts, functions, global_bindings, leftovers, history>>
          /\ errors' = errors
      BY <1>1, <2>1, <2>2, <2>5
    <3>2. \E fn \in DOMAIN functions : functions[fn].waits /\ Repeated(fn)
      BY <2>2, <2>3, <2>5, PanicIsRepeated
    <3>3. errors' \in BOOLEAN
      BY <3>1 DEF IInv
    <3> QED
      BY <1>1, <3>1, <3>2, <3>3, NothingKeeps
  <2>6. CASE waiting # <<>> /\ i \in DOMAIN waiting /\ waiting[i] = Taken
    <3>1. CallDone(CallsOf(b)) /\ UNCHANGED phase
      BY <2>1, <2>2, <2>6
    <3>2. \A c \in CallsOf(b) : IsFirstCall(c) => IsResolved(c.fn)
      <4> SUFFICES ASSUME NEW c \in CallsOf(b), IsFirstCall(c) PROVE IsResolved(c.fn)
        OBVIOUS
      <4>1. /\ c.fn # Taken
            /\ \/ IsResolved(c.fn)
               \/ CorrectIndex(ctx.res, name, b) = 0 /\ WaitingFor(name)[1] = c.fn
        BY <1>1, <2>3, FirstCallWaits
      <4> QED
        BY <2>2, <2>6, <4>1
    <3> QED
      BY <1>1, <2>3, <3>1, <3>2, CallDoneKeeps
  <2>7. CASE waiting # <<>> /\ i \in DOMAIN waiting /\ waiting[i] # Taken
    <3>1. /\ Len(contexts) < MaxContexts /\ UNCHANGED phase
          /\ Finish(waiting[i], name, i, CallsOf(b))
      BY <2>1, <2>2, <2>7
    <3> QED
      BY <1>1, <2>2, <2>3, <2>7, <3>1, FinishKeeps
  <2> QED
    BY <2>4, <2>5, <2>6, <2>7
<1> QED
  BY <1>3, <1>4

(***************************************************************************)
(* The end of the script.                                                  *)
(***************************************************************************)
\* Its backlog moves out.
LEMMA EndScriptKeeps == ASSUME IInv, EndScript PROVE IInv'
<1>1. /\ FunctionsWell /\ ContextsWell /\ GlobalsWell /\ LeftoversWell /\ NoneLost /\ Counted
      /\ OutersBegun /\ errors \in BOOLEAN /\ left \in 0..MaxStmts
  BY DEF IInv
<1>2. PICK old, c : old = ctx /\ c = [old EXCEPT !.backlog = NoBacklog]
  OBVIOUS
<1>3. /\ phase = "script" /\ InMain /\ phase' = "leftovers" /\ unfinished' = old.backlog
      /\ contexts' = WithTop(c)
      /\ UNCHANGED <<global_bindings, functions, errors, funcs, left, history, resolved>>
  BY <1>2 DEF EndScript, history
<1>4. /\ Grows /\ FunctionsWell' /\ Len(functions)' \in Nat
      /\ \A fn : IsResolved(fn)' <=> IsResolved(fn)
      /\ Len(global_bindings) \in Nat
  BY <1>1, <1>3, SameFunctions, Places
     DEF IsResolved, FunctionsWell, GlobalsWell, IsScope, IsTable
<1>5. Len(contexts) = 1 /\ DOMAIN contexts = {1} /\ old = contexts[1] /\ IsContext(old) /\ old.fn = 0
  BY <1>1, <1>2, <1>3, Current DEF InMain
<1>6. IsContext(old)'
  BY <1>1, <1>4, <1>5, ContextsKeep
<1>7. /\ c.fn = old.fn /\ c.res = old.res /\ c.backlog = NoBacklog /\ DOMAIN c = {"fn", "res", "backlog"}
  BY <1>2, <1>5 DEF IsContext
<1>8. IsContext(c)'
  <2>1. IsBacklog(NoBacklog, old.fn)'
    BY NothingWaits
  <2> QED
    BY <1>6, <1>7, <2>1 DEF IsContext
<1>9. ContextsWell' /\ (DOMAIN contexts)' = {1} /\ contexts'[1] = c
  <2>1. c.fn = ctx.fn /\ (c.res.is_global <=> ctx.res.is_global)
    BY <1>2, <1>7
  <2>2. ContextsWell' /\ (DOMAIN contexts)' = DOMAIN contexts /\ contexts'[Len(contexts)] = c
    BY <1>1, <1>3, <1>4, <1>8, <2>1, ContextsReplaced
  <2> QED
    BY <1>5, <2>2
<1>10. GlobalsWell'
  BY <1>1, <1>3, <1>4, <1>5, <1>7, <1>9, GlobalsKeep
<1>11. funcs = <<>> /\ funcs' = <<>> /\ unfinished = NoBacklog
  BY <1>1, <1>3 DEF LeftoversWell
<1>12. LeftoversWell'
  <2>1. IsBacklog(old.backlog, 0)'
    BY <1>5, <1>6 DEF IsContext
  <2>2. IsBacklog(unfinished, 0)'
    BY <1>3, <2>1
  <2> QED
    BY <1>3, <1>7, <1>9, <1>11, <2>2 DEF LeftoversWell
<1>13. NoneLost'
  <2> SUFFICES ASSUME NEW fn \in DOMAIN functions, functions[fn].waits, functions[fn].outer = 0
               PROVE  IsResolved(fn) \/ IsIn(fn, old.backlog[functions[fn].name])
    BY <1>3, <1>4, <1>5, <1>7, <1>9 DEF NoneLost, IsIn
  <2>1. \/ IsResolved(fn)
        \/ IsIn(fn, contexts[1].backlog[functions[fn].name])
        \/ IsIn(fn, unfinished[functions[fn].name]) \/ IsIn(fn, funcs)
    BY <1>1, <1>5 DEF NoneLost
  <2>2. functions[fn].name \in FuncNames
    BY <1>1 DEF FunctionsWell
  <2>3. ~IsIn(fn, <<>>)
    BY SmallSequences DEF IsIn
  <2> QED
    BY <1>5, <1>11, <2>1, <2>2, <2>3 DEF NoBacklog
<1>14. Counted'
  <2>1. \A name \in FuncNames : NoBacklog[name] = <<>> /\ Len(<<>>) = 0
    BY SmallSequences DEF NoBacklog
  <2>2. \A i \in (DOMAIN contexts)', name \in FuncNames :
           contexts'[i].backlog[name] = <<>> /\ Len(contexts'[i].backlog[name]) = 0
    BY <1>7, <1>9, <2>1
  <2> QED
    BY <2>2 DEF Counted
<1>15. OutersBegun'
  BY <1>1, <1>3, <1>4, OutersKeep
<1>16. /\ HistoryWell' /\ CallsSeeGlobals'
       /\ ResolvedOnce' /\ FirstCallResolves' /\ GlobalsExist' /\ PanicsOnlyOnRepeated'
  BY <1>3, <1>4, <1>5, <1>7, <1>9, PastKeeps
<1> QED
  BY <1>1, <1>3, <1>4, <1>9, <1>10, <1>12, <1>13, <1>14, <1>15, <1>16 DEF IInv

\* The list of one name is taken from it.
LEMMA UnfinishedKeeps == ASSUME IInv, NEW name \in FuncNames, Unfinished(name) PROVE IInv'
<1>1. /\ LeftoversWell /\ NoneLost /\ FunctionsWell /\ errors \in BOOLEAN /\ left \in 0..MaxStmts
      /\ phase \in {"script", "leftovers", "done", "panicked"}
  BY DEF IInv
<1>2. /\ phase = "leftovers" /\ funcs = <<>> /\ funcs' = unfinished[name]
      /\ unfinished' = [unfinished EXCEPT ![name] = <<>>]
      /\ UNCHANGED <<contexts, global_bindings, functions, errors, phase, left, history, resolved>>
  BY DEF Unfinished, history
<1>3. /\ Grows /\ FunctionsWell' /\ ContextsWell' /\ GlobalsWell' /\ Counted' /\ OutersBegun'
      /\ Len(functions)' \in Nat /\ Len(global_bindings) \in Nat
      /\ \A fn : IsResolved(fn)' <=> IsResolved(fn)
  BY <1>2, SameTables
<1>4. /\ DOMAIN unfinished = FuncNames /\ contexts[1].backlog = NoBacklog
      /\ \A other \in FuncNames : IsList(unfinished[other], other, 0)
  BY <1>1, <1>2 DEF LeftoversWell, IsBacklog
<1>5. \A list, other : IsList(list, other, 0) => IsList(list, other, 0)'
  <2> SUFFICES ASSUME NEW list, NEW other, IsList(list, other, 0) PROVE IsList(list, other, 0)'
    OBVIOUS
  <2>1. \A k \in DOMAIN list : list[k] # Taken => ~IsResolved(list[k])'
    BY <1>3 DEF IsList
  <2> QED
    BY <1>3, <2>1, ListKeeps
<1>6. /\ unfinished'[name] = <<>> /\ DOMAIN unfinished' = FuncNames
      /\ \A other \in FuncNames : other # name => unfinished'[other] = unfinished[other]
  BY <1>2, <1>4
<1>7. LeftoversWell'
  <2>1. IsList(<<>>, name, 0)'
    BY SmallSequences DEF IsList
  <2>2. \A other \in FuncNames : IsList(unfinished[other], other, 0)'
    BY <1>4, <1>5, <1>6, <2>1
  <2>3. IsList(funcs, name, 0)'
    BY <1>2, <1>4, <1>5
  <2>4. IsBacklog(unfinished, 0)'
    BY <1>6, <2>2 DEF IsBacklog
  <2> QED
    BY <1>2, <1>4, <1>6, <2>3, <2>4 DEF LeftoversWell
<1>8. NoneLost'
  <2>1. ASSUME NEW fn \in DOMAIN functions, NEW i \in DOMAIN contexts,
               functions[fn].waits, functions[fn].outer = contexts[i].fn
        PROVE  \/ IsResolved(fn)
               \/ IsIn(fn, contexts[i].backlog[functions[fn].name])
               \/ i = 1 /\ (IsIn(fn, unfinished'[functions[fn].name]) \/ IsIn(fn, funcs'))
    <3>1. \/ IsResolved(fn)
          \/ IsIn(fn, contexts[i].backlog[functions[fn].name])
          \/ i = 1 /\ (IsIn(fn, unfinished[functions[fn].name]) \/ IsIn(fn, funcs))
      BY <1>1, <2>1 DEF NoneLost
    <3>2. functions[fn].name \in FuncNames /\ ~IsIn(fn, <<>>)
      BY <1>1, <2>1, SmallSequences DEF FunctionsWell, IsIn
    <3> QED
      BY <1>2, <1>6, <3>1, <3>2
  <2> QED
    BY <1>2, <1>3, <2>1 DEF NoneLost, IsIn
<1>9. /\ HistoryWell' /\ CallsSeeGlobals'
      /\ ResolvedOnce' /\ FirstCallResolves' /\ GlobalsExist' /\ PanicsOnlyOnRepeated'
  BY <1>2, <1>3, PastKeeps
<1> QED
  BY <1>1, <1>2, <1>3, <1>7, <1>8, <1>9 DEF IInv

\* No list is left.
LEMMA DoneKeeps == ASSUME IInv, Done PROVE IInv'
<1>1. /\ LeftoversWell /\ NoneLost /\ errors \in BOOLEAN /\ left \in 0..MaxStmts
  BY DEF IInv
<1>2. /\ phase = "leftovers" /\ funcs = <<>> /\ unfinished = NoBacklog /\ phase' = "done"
      /\ UNCHANGED <<contexts, global_bindings, functions, errors, leftovers, left, history, resolved>>
      /\ UNCHANGED <<unfinished, funcs>>
  BY DEF Done, history, leftovers
<1>3. /\ Grows /\ FunctionsWell' /\ ContextsWell' /\ GlobalsWell' /\ Counted' /\ OutersBegun'
      /\ Len(functions)' \in Nat /\ Len(global_bindings) \in Nat
      /\ \A fn : IsResolved(fn)' <=> IsResolved(fn)
  BY <1>2, SameTables
<1>4. LeftoversWell'
  <2>1. IsBacklog(unfinished, 0)'
    BY <1>2, NothingWaits
  <2> QED
    BY <1>1, <1>2, <2>1 DEF LeftoversWell
<1>5. NoneLost'
  BY <1>1, <1>2, <1>3, NoneLostKeeps
<1>6. /\ HistoryWell' /\ CallsSeeGlobals'
      /\ ResolvedOnce' /\ FirstCallResolves' /\ GlobalsExist' /\ PanicsOnlyOnRepeated'
  BY <1>2, <1>3, PastKeeps
<1> QED
  BY <1>1, <1>2, <1>3, <1>4, <1>5, <1>6 DEF IInv

\* All but the first of a list are in the rest of it.
LEMMA StillIn ==
  ASSUME NEW list, NEW name, NEW outer, IsList(list, name, outer), list # <<>>
  PROVE  \A f : IsIn(f, list) => f = Head(list) \/ IsIn(f, Tail(list))
<1>1. PICK rest, n : rest = Tail(list) /\ n = Len(list)
  OBVIOUS
<1>2. /\ DOMAIN list = 1..n /\ n \in Nat /\ Head(list) = list[1]
      /\ DOMAIN rest = 1..(n - 1) /\ \A i \in 1..(n - 1) : rest[i] = list[i + 1]
  BY <1>1, Behead, Places DEF IsList
<1>3. ASSUME NEW f, IsIn(f, list), f # Head(list) PROVE IsIn(f, rest)
  <2>1. PICK k \in 1..n : list[k] = f
    BY <1>2, <1>3 DEF IsIn
  <2>2. k - 1 \in 1..(n - 1) /\ (k - 1) + 1 = k
    BY <1>2, <1>3, <2>1
  <2>3. rest[k - 1] = f
    BY <1>2, <2>1, <2>2
  <2> QED
    BY <1>2, <2>2, <2>3 DEF IsIn
<1> QED
  BY <1>1, <1>3

\* The rest of a list whose first function is resolved now, or was taken.
LEMMA ListBeheaded ==
  ASSUME FunctionsWell, UNCHANGED functions, NEW list, NEW name, NEW outer, IsList(list, name, outer),
         list # <<>>, \A f : IsResolved(f)' => IsResolved(f) \/ f = Head(list)
  PROVE  IsList(Tail(list), name, outer)'
<1>1. PICK rest, n : rest = Tail(list) /\ n = Len(list)
  OBVIOUS
<1>2. /\ IsSequence(list) /\ DOMAIN list = 1..n /\ n \in Nat
      /\ Head(list) = list[1] /\ 1 \in DOMAIN list
      /\ IsSequence(rest) /\ DOMAIN rest = 1..(n - 1) /\ \A i \in 1..(n - 1) : rest[i] = list[i + 1]
  BY <1>1, Behead, Places DEF IsList
<1>3. \A k \in DOMAIN rest : k + 1 \in DOMAIN list /\ k + 1 # 1 /\ rest[k] = list[k + 1]
  BY <1>2
<1>4. \A k \in DOMAIN rest : rest[k] # Taken => rest[k] # list[1]
  BY <1>2, <1>3 DEF IsList
<1>5. \A k \in DOMAIN rest : rest[k] # Taken => ~IsResolved(rest[k])'
  <2> SUFFICES ASSUME NEW k \in DOMAIN rest, NEW f, f = rest[k], f # Taken PROVE ~IsResolved(f)'
    OBVIOUS
  <2>1. ~IsResolved(f) /\ f # Head(list)
    BY <1>2, <1>3, <1>4 DEF IsList
  <2> QED
    BY <2>1
<1>6. \A k \in DOMAIN rest : rest[k] # Taken =>
         /\ rest[k] \in DOMAIN functions
         /\ functions[rest[k]].waits
         /\ functions[rest[k]].name = name
         /\ functions[rest[k]].outer = outer
  BY <1>3 DEF IsList
<1>7. \A j, k \in DOMAIN rest : rest[j] = rest[k] /\ rest[j] # Taken => j = k
  <2> SUFFICES ASSUME NEW j \in DOMAIN rest, NEW k \in DOMAIN rest, rest[j] = rest[k], rest[j] # Taken
               PROVE  j = k
    OBVIOUS
  <2>1. j + 1 = k + 1
    BY <1>3 DEF IsList
  <2> QED
    BY <1>2, <2>1
<1>8. IsList(rest, name, outer)'
  BY <1>2, <1>5, <1>6, <1>7 DEF IsList
<1> QED
  BY <1>1, <1>8

\* The first function of the list under way is resolved unless it was taken.
LEMMA LeftoverKeeps == ASSUME IInv, Leftover PROVE IInv'
<1>1. /\ FunctionsWell /\ ContextsWell /\ GlobalsWell /\ LeftoversWell /\ HistoryWell /\ NoneLost
      /\ Counted /\ CallsSeeGlobals /\ FirstCallResolves /\ GlobalsExist /\ PanicsOnlyOnRepeated
      /\ errors \in BOOLEAN /\ phase \in {"script", "leftovers", "done", "panicked"} /\ left \in 0..MaxStmts
  BY DEF IInv
<1>2. PICK fn : fn = Head(funcs)
  OBVIOUS
<1>3. /\ phase = "leftovers" /\ InMain /\ funcs # <<>> /\ funcs' = Tail(funcs)
      /\ IF fn = Taken THEN UNCHANGED <<contexts, resolved>> ELSE Begin(fn, contexts)
      /\ UNCHANGED <<global_bindings, functions, errors, phase, unfinished, left, calls, uses>>
  BY <1>2 DEF Leftover, Rest
<1>4. PICK name \in FuncNames : IsList(funcs, name, 0) /\ unfinished[name] = <<>>
  BY <1>1, <1>3 DEF LeftoversWell
<1>5. /\ Len(contexts) = 1 /\ DOMAIN contexts = {1} /\ ctx = contexts[1] /\ ctx.fn = 0
      /\ contexts[1].backlog = NoBacklog
  BY <1>1, <1>3, Current DEF InMain, LeftoversWell
<1>6. /\ FunctionsWell' /\ Grows /\ Len(functions)' \in Nat
  BY <1>1, <1>3, SameFunctions, Current DEF FunctionsWell
<1>7. ASSUME \A f : IsResolved(f)' => IsResolved(f) \/ (f = fn /\ fn # Taken),
             contexts'[1].backlog = NoBacklog
      PROVE  LeftoversWell'
  <2>1. IsList(funcs, name, 0)'
    <3> SUFFICES ASSUME NEW list, list = funcs' PROVE IsList(list, name, 0)'
      OBVIOUS
    <3>1. \A l : l = Tail(funcs) => IsList(l, name, 0)'
      <4>1. PICK old : old = funcs
        OBVIOUS
      <4>2. IsList(Tail(old), name, 0)'
        BY <1>1, <1>2, <1>3, <1>4, <1>7, <4>1, ListBeheaded
      <4> QED
        BY <4>1, <4>2
    <3> QED
      BY <1>3, <3>1
  <2>2. \A other \in FuncNames : IsList(unfinished[other], other, 0)'
    <3> SUFFICES ASSUME NEW other \in FuncNames, NEW list, list = unfinished[other]
                 PROVE  IsList(list, other, 0)'
      BY <1>3
    <3>1. IsList(list, other, 0)
      BY <1>1 DEF LeftoversWell, IsBacklog
    <3>2. CASE other = name
      BY <1>4, <3>2, SmallSequences DEF IsList
    <3>3. CASE other # name
      <4>1. fn # Taken => functions[fn].name = name
        <5>1. 1 \in DOMAIN funcs /\ funcs[1] = fn
          BY <1>2, <1>3, <1>4, Behead DEF IsList
        <5> QED
          BY <1>4, <5>1 DEF IsList
      <4>2. \A k \in DOMAIN list : list[k] # Taken => ~IsResolved(list[k])'
        <5> SUFFICES ASSUME NEW k \in DOMAIN list, NEW f, f = list[k], f # Taken PROVE ~IsResolved(f)'
          OBVIOUS
        <5>1. ~IsResolved(f) /\ functions[f].name = other
          BY <3>1 DEF IsList
        <5> QED
          BY <1>7, <3>3, <4>1, <5>1
      <4> QED
        BY <1>6, <3>1, <4>2, ListKeeps
    <3> QED
      BY <3>2, <3>3
  <2>3. IsBacklog(unfinished, 0)'
    BY <1>1, <1>3, <2>2 DEF IsBacklog, LeftoversWell
  <2> QED
    BY <1>3, <1>4, <1>7, <2>1, <2>3 DEF LeftoversWell
<1>8. \A f : IsIn(f, funcs) => f = fn \/ IsIn(f, funcs')
  BY <1>2, <1>3, <1>4, StillIn
<1>9. CASE fn = Taken
  <2>1. UNCHANGED <<contexts, functions, global_bindings, resolved, history>>
    BY <1>3, <1>9 DEF history
  <2>2. /\ Grows /\ FunctionsWell' /\ ContextsWell' /\ GlobalsWell' /\ Counted' /\ OutersBegun'
        /\ Len(functions)' \in Nat /\ Len(global_bindings) \in Nat
        /\ \A f : IsResolved(f)' <=> IsResolved(f)
    BY <2>1, SameTables
  <2>3. LeftoversWell'
    BY <1>5, <1>7, <2>1, <2>2
  <2>4. NoneLost'
    <3>1. ASSUME NEW f \in DOMAIN functions, NEW i \in DOMAIN contexts,
                 functions[f].waits, functions[f].outer = contexts[i].fn
          PROVE  \/ IsResolved(f)
                 \/ IsIn(f, contexts[i].backlog[functions[f].name])
                 \/ i = 1 /\ (IsIn(f, unfinished[functions[f].name]) \/ IsIn(f, funcs'))
      <4>1. f # fn
        BY <1>1, <1>9, Current DEF Taken, FunctionsWell
      <4> QED
        BY <1>1, <1>8, <3>1, <4>1 DEF NoneLost
    <3> QED
      BY <1>3, <2>1, <2>2, <3>1 DEF NoneLost, IsIn
  <2>5. /\ HistoryWell' /\ CallsSeeGlobals'
        /\ ResolvedOnce' /\ FirstCallResolves' /\ GlobalsExist' /\ PanicsOnlyOnRepeated'
    BY <1>3, <2>1, <2>2, PastKeeps
  <2> QED
    BY <1>1, <1>3, <2>2, <2>3, <2>4, <2>5 DEF IInv
<1>10. CASE fn # Taken
  <2>1. Begin(fn, contexts)
    BY <1>3, <1>10
  <2>2. /\ fn \in DOMAIN functions /\ functions[fn].waits /\ functions[fn].outer = 0
        /\ functions[fn].name = name /\ ~IsResolved(fn)
    <3>1. 1 \in DOMAIN funcs /\ funcs[1] = fn
      BY <1>2, <1>3, <1>4, Behead DEF IsList
    <3> QED
      BY <1>4, <1>10, <3>1 DEF IsList
  <2>3. \A f : IsResolved(f)' <=> IsResolved(f) \/ f = fn
    BY <1>1, <2>1, BodyBegun DEF HistoryWell
  <2>4. PICK below : below = contexts
    OBVIOUS
  <2>5. HaveLost(below, fn)
    <3>1. PICK d : d = below[1]
      OBVIOUS
    <3>2. \A f : ~WaitsIn(f, d.backlog)
      BY <1>5, <2>4, <3>1, SmallSequences DEF WaitsIn, IsIn, NoBacklog
    <3>3. IsContext(d)
      BY <1>1, <1>5, <2>4, <3>1 DEF ContextsWell
    <3>4. IsContext(d)'
      BY <1>1, <1>6, <3>2, <3>3, ContextKeeps
    <3>5. \A i \in DOMAIN contexts : IsContext(below[i])'
      BY <1>5, <2>4, <3>1, <3>4
    <3> QED
      BY <1>1, <2>4, <3>5 DEF HaveLost, ContextsWell
  <2>6. /\ Len(contexts) < MaxContexts /\ functions[fn].outer = ctx.fn
        /\ UNCHANGED <<functions, global_bindings, uses>> /\ UNCHANGED unfinished
        /\ \A f : IsIn(f, funcs) => f = fn \/ IsIn(f, funcs)'
        /\ Begin(fn, below)
    <3>1. Len(contexts) < MaxContexts
      BY <1>5, ResolverAssumption
    <3>2. \A f : IsIn(f, funcs) => f = fn \/ IsIn(f, funcs)'
      BY <1>8 DEF IsIn
    <3> QED
      BY <1>3, <1>5, <2>1, <2>2, <2>4, <3>1, <3>2
  <2>7. /\ ContextsWell' /\ GlobalsWell' /\ OutersBegun' /\ NoneLost' /\ Counted' /\ ResolvedOnce'
        /\ \A f : IsResolved(f)' <=> IsResolved(f) \/ f = fn
        /\ IsSequence(resolved)'
        /\ \A k \in (DOMAIN resolved)' : resolved'[k].fn = fn \/ \E j \in DOMAIN resolved : resolved'[k] = resolved[j]
        /\ (DOMAIN contexts)' = DOMAIN contexts \cup {Len(contexts) + 1}
        /\ \A i \in DOMAIN contexts : contexts'[i] = below[i]
        /\ contexts'[Len(contexts) + 1].fn = fn
    BY <2>2, <2>5, <2>6, BeginKeeps
  <2>8. /\ ContextsWell' /\ GlobalsWell' /\ OutersBegun' /\ NoneLost' /\ Counted' /\ ResolvedOnce'
        /\ IsSequence(resolved)'
        /\ \A k \in (DOMAIN resolved)' : resolved'[k].fn = fn \/ \E j \in DOMAIN resolved : resolved'[k] = resolved[j]
        /\ (DOMAIN contexts)' = DOMAIN contexts \cup {Len(contexts) + 1}
        /\ \A k \in DOMAIN contexts : contexts'[k] = contexts[k]
        /\ contexts'[Len(contexts) + 1].fn = fn
    BY <2>4, <2>7
  <2>9. LeftoversWell'
    BY <1>5, <1>7, <1>10, <2>3, <2>8
  <2>10. HistoryWell'
    <3>1. \A k \in (DOMAIN resolved)' : /\ resolved'[k].fn \in DOMAIN functions
                                        /\ functions[resolved'[k].fn].waits
      BY <1>1, <2>2, <2>8 DEF HistoryWell
    <3> QED
      BY <1>1, <1>3, <2>8, <3>1 DEF HistoryWell
  <2>11. \A c : IsFirstCall(c)' <=> IsFirstCall(c)
    BY <1>3 DEF IsFirstCall, Repeated
  <2>12. CallsSeeGlobals'
    <3> SUFFICES ASSUME NEW c \in calls, NEW k \in (DOMAIN contexts)', IsFirstCall(c),
                        contexts'[k].fn = c.fn
                 PROVE  Len(global_bindings) <= c.globals
      BY <1>3, <2>11 DEF CallsSeeGlobals
    <3>1. IsResolved(c.fn)
      BY <1>1 DEF FirstCallResolves, IsFirstCall
    <3>2. k \in DOMAIN contexts
      BY <2>2, <2>8, <3>1
    <3>3. contexts[k].fn = c.fn
      BY <2>8, <3>2
    <3> QED
      BY <1>1, <3>2, <3>3 DEF CallsSeeGlobals
  <2>13. FirstCallResolves'
    <3> SUFFICES ASSUME NEW c \in calls, IsFirstCall(c), NEW f, f = c.fn PROVE IsResolved(f)'
      BY <1>3, <2>11 DEF FirstCallResolves, IsFirstCall
    <3> QED
      BY <1>1, <2>3 DEF FirstCallResolves, IsFirstCall
  <2>14. GlobalsExist' /\ PanicsOnlyOnRepeated'
    BY <1>1, <1>3, <2>11 DEF GlobalsExist, PanicsOnlyOnRepeated, Repeated, IsFirstCall
  <2> QED
    BY <1>1, <1>3, <1>6, <2>8, <2>9, <2>10, <2>12, <2>13, <2>14 DEF IInv
<1> QED
  BY <1>9, <1>10

(***************************************************************************)
(* The theorems.                                                           *)
(***************************************************************************)
\* The script begins with the natives as its globals and nothing that waits.
LEMMA InitEstablishes == ASSUME Init PROVE IInv
<1>1. /\ global_bindings = [i \in DOMAIN Natives |-> Callable(Natives[i], <<"Any">>, i)]
      /\ functions = [i \in DOMAIN Natives |->
                        [name |-> Natives[i], params |-> <<"Any">>, outer |-> 0, waits |-> FALSE]]
      /\ contexts = <<Context(0, NewResolver(TRUE, "None"))>>
      /\ errors = FALSE /\ phase = "script" /\ left = MaxStmts
      /\ unfinished = NoBacklog /\ funcs = <<>>
      /\ resolved = <<>> /\ calls = {} /\ uses = {}
  BY DEF Init
<1>2. PICK n : n = Len(Natives) /\ n \in Nat /\ DOMAIN Natives = 1..n
  BY ResolverAssumption, LenProperties
<1>3. PICK fs : fs = functions
  OBVIOUS
<1>4. fs = [i \in 1..n |-> fs[i]]
  BY <1>1, <1>2, <1>3
<1>5. IsSequence(fs) /\ Len(fs) = n /\ DOMAIN fs = 1..n
  BY <1>2, <1>4, FunctionIsSequence
<1>6. ASSUME NEW i \in 1..n
      PROVE  /\ functions[i].outer = 0 /\ functions[i].waits = FALSE /\ functions[i].params = <<"Any">>
             /\ functions[i].name = Natives[i]
             /\ global_bindings[i] = Callable(Natives[i], <<"Any">>, i)
  BY <1>1, <1>2
<1>7. FunctionsWell
  <2>1. 0 \in 0..n /\ IsSequence(<<"Any">>)
    BY <1>2, SmallSequences
  <2>2. ASSUME NEW i \in 1..n, NEW f, f = functions[i]
        PROVE  f.outer \in 0..n /\ f.waits = FALSE /\ IsSequence(f.params)
    BY <1>6, <2>1, <2>2
  <2>3. ASSUME NEW i \in DOMAIN functions
        PROVE  /\ functions[i].outer \in 0..Len(functions)
               /\ functions[i].waits = FALSE
               /\ IsSequence(functions[i].params)
    BY <1>3, <1>5, <2>2
  <2> QED
    BY <1>3, <1>5, <2>3 DEF FunctionsWell
<1>8. IsScope(global_bindings)
  <2>1. PICK globals : globals = global_bindings
    OBVIOUS
  <2>2. globals = [i \in 1..n |-> globals[i]]
    BY <1>1, <1>2, <2>1
  <2>3. IsSequence(globals) /\ DOMAIN globals = 1..n
    BY <1>2, <2>2, FunctionIsSequence
  <2>4. ASSUME NEW i \in 1..n
        PROVE  /\ IsDeclaration(globals[i]) /\ globals[i].type.t = "Function"
               /\ globals[i].tag = i /\ globals[i].name = Natives[i]
    <3>1. globals[i] = Callable(Natives[i], <<"Any">>, i)
      BY <1>6, <2>1
    <3>2. i \in Int
      BY <1>2
    <3> QED
      BY <3>1, <3>2 DEF Callable, VarData, IsDeclaration
  <2>5. IsTable(globals)
    BY <2>3, <2>4 DEF IsTable
  <2>6. ASSUME NEW i \in 1..n PROVE NamesItsFunction(globals[i])
    <3>1. PICK data : data = globals[i]
      OBVIOUS
    <3>2. data.type.t = "Function" /\ data.tag = i /\ data.name = Natives[i]
      BY <2>4, <3>1
    <3>3. data.tag \in DOMAIN functions /\ functions[data.tag].name = data.name
      BY <1>3, <1>5, <1>6, <3>2
    <3>4. NamesItsFunction(data)
      BY <3>2, <3>3 DEF NamesItsFunction, IsFunctionData
    <3> QED
      BY <3>1, <3>4
  <2> QED
    BY <2>1, <2>3, <2>4, <2>5, <2>6 DEF IsScope
<1>9. PICK main : main = Context(0, NewResolver(TRUE, "None"))
  OBVIOUS
<1>10. contexts = <<main>> /\ IsSequence(contexts) /\ Len(contexts) = 1
       /\ DOMAIN contexts = {1} /\ contexts[1] = main
  BY <1>1, <1>9, SmallSequences
<1>11. /\ DOMAIN main = {"fn", "res", "backlog"} /\ main.fn = 0 /\ main.backlog = NoBacklog
       /\ main.res = NewResolver(TRUE, "None")
  BY <1>9 DEF Context
<1>12. /\ IsResolver(main.res) /\ main.res.is_global /\ main.res.local_bindings = <<>>
  BY <1>11, NewResolverEffect
<1>13. IsContext(main)
  <2>1. IsScope(<<>>)
    BY SmallSequences DEF IsScope, IsTable
  <2>2. 0 \in 0..Len(functions)
    BY <1>2, <1>3, <1>5
  <2> QED
    BY <1>11, <1>12, <2>1, <2>2, NothingWaits DEF IsContext
<1>14. ContextsWell
  <2>1. Len(contexts) \in 1..MaxContexts
    BY <1>10, ResolverAssumption
  <2>2. \A i \in DOMAIN contexts : i = 1 /\ contexts[i] = main
    BY <1>10
  <2>3. \A i \in DOMAIN contexts : contexts[i].res.is_global /\ contexts[i].fn = 0 /\ IsContext(contexts[i])
    BY <1>11, <1>12, <1>13, <2>2
  <2> QED
    BY <1>10, <2>1, <2>2, <2>3 DEF ContextsWell
<1>15. GlobalsWell
  <2>1. \A i \in DOMAIN global_bindings : functions[global_bindings[i].tag].outer = 0
    BY <1>1, <1>2, <1>3, <1>5, <1>6, <1>8 DEF Callable, VarData
  <2>2. DOMAIN contexts[1].res.local_bindings = {}
    BY <1>10, <1>12, SmallSequences
  <2> QED
    BY <1>8, <2>1, <2>2 DEF GlobalsWell
<1>16. LeftoversWell
  BY <1>1, NothingWaits DEF LeftoversWell
<1>17. /\ HistoryWell /\ CallsSeeGlobals
       /\ ResolvedOnce /\ FirstCallResolves /\ GlobalsExist /\ PanicsOnlyOnRepeated
  BY <1>1, SmallSequences
  DEF HistoryWell, CallsSeeGlobals, ResolvedOnce, FirstCallResolves, GlobalsExist, PanicsOnlyOnRepeated
<1>18. OutersBegun /\ NoneLost
  BY <1>3, <1>5, <1>6 DEF OutersBegun, NoneLost
<1>19. Counted
  <2>1. \A name \in FuncNames : contexts[1].backlog[name] = <<>>
    BY <1>10, <1>11 DEF NoBacklog
  <2>2. ~(Len(<<>>) > 1)
    BY SmallSequences
  <2> SUFFICES ASSUME NEW i \in DOMAIN contexts, NEW name \in FuncNames, NEW waiting,
                      waiting = contexts[i].backlog[name]
               PROVE  waiting = <<>> /\ ~(Len(waiting) > 1)
    BY DEF Counted
  <2> QED
    BY <1>10, <2>1, <2>2
<1>20. errors \in BOOLEAN /\ phase \in {"script", "leftovers", "done", "panicked"}
  BY <1>1
<1>21. left \in 0..MaxStmts
  BY <1>1, ResolverAssumption
<1> QED
  BY <1>7, <1>14, <1>15, <1>16, <1>17, <1>18, <1>19, <1>20, <1>21 DEF IInv

\* Every statement and every step of the end keeps the invariant.
LEMMA NextKeeps == ASSUME IInv, [Next]_vars PROVE IInv'
<1>1. \A params \in Signatures : IsSequence(params)
  BY ResolverAssumption, SeqIsSequence
<1>2. ASSUME NEW name \in FuncNames, NEW params \in Signatures, FunctionStmt(name, params) PROVE IInv'
  BY <1>1, <1>2, FunctionStmtKeeps
<1>3. ASSUME NEW name \in StructNames, NEW params \in Signatures, StructStmt(name, params) PROVE IInv'
  BY <1>1, <1>3, StructStmtKeeps
<1>4. ASSUME NEW name, NEW args, Call(name, args) PROVE IInv'
  BY <1>4, CallKeeps
<1>5. ASSUME NEW name \in VarNames, VarStmt(name) \/ Mention(name) PROVE IInv'
  BY <1>5, VarStmtKeeps, MentionKeeps
<1>6. CASE EnterBlock
  BY <1>6, EnterBlockKeeps
<1>7. CASE ExitBlock
  BY <1>7, ExitBlockKeeps
<1>8. CASE EndBody
  BY <1>8, EndBodyKeeps
<1>9. CASE EndScript
  BY <1>9, EndScriptKeeps
<1>10. ASSUME NEW name \in FuncNames, Unfinished(name) PROVE IInv'
  BY <1>10, UnfinishedKeeps
<1>11. CASE Leftover
  BY <1>11, LeftoverKeeps
<1>12. CASE Done
  BY <1>12, DoneKeeps
<1>13. CASE UNCHANGED vars
  <2>1. UNCHANGED <<contexts, functions, global_bindings, leftovers, history>> /\ UNCHANGED <<errors, left, phase>>
    BY <1>13 DEF vars
  <2>2. errors' \in BOOLEAN /\ left' \in 0..MaxStmts
    BY <2>1 DEF IInv
  <2> QED
    BY <2>1, <2>2, NothingKeeps
<1> QED
  BY <1>2, <1>3, <1>4, <1>5, <1>6, <1>7, <1>8, <1>9, <1>10, <1>11, <1>12, <1>13 DEF Next

\* The invariant holds in every state, for every program and every bound.
THEOREM InvariantHolds == Spec => []IInv
BY InitEstablishes, NextKeeps, PTL DEF Spec

\* What the invariant says of the types.
LEMMA TypesFollow == ASSUME IInv PROVE ResolverTypeOK
<1>1. /\ phase \in {"script", "leftovers", "done", "panicked"} /\ errors \in BOOLEAN /\ left \in 0..MaxStmts
      /\ FunctionsWell /\ ContextsWell /\ LeftoversWell /\ HistoryWell
  BY DEF IInv
<1>2. 1 \in DOMAIN contexts /\ contexts[1].fn = 0
  BY <1>1, Current DEF ContextsWell
<1>3. \A i \in DOMAIN contexts :
          /\ contexts[i].res.is_global <=> i = 1
          /\ contexts[i].fn \in 0..Len(functions)
  BY <1>1 DEF ContextsWell, IsContext
<1>4. ASSUME NEW i \in DOMAIN contexts, NEW name \in FuncNames, NEW k \in DOMAIN contexts[i].backlog[name]
      PROVE  contexts[i].backlog[name][k] \in {Taken} \cup {fn \in DOMAIN functions :
                    functions[fn].name = name /\ functions[fn].outer = contexts[i].fn}
  <2>1. IsList(contexts[i].backlog[name], name, contexts[i].fn)
    BY <1>1 DEF ContextsWell, IsContext, IsBacklog
  <2> QED
    BY <2>1 DEF IsList
<1>5. \A k \in DOMAIN funcs : funcs[k] # Taken => functions[funcs[k]].waits
  BY <1>1, SmallSequences DEF LeftoversWell, IsList
<1>6. \A k \in DOMAIN resolved : functions[resolved[k].fn].waits
  BY <1>1 DEF HistoryWell
<1>7. Len(contexts) \in 1..MaxContexts
  BY <1>1 DEF ContextsWell
<1> QED
  BY <1>1, <1>2, <1>3, <1>4, <1>5, <1>6, <1>7 DEF ResolverTypeOK

\* At the end nothing waits anywhere, so what was not lost is resolved.
LEMMA NoneLeft == ASSUME IInv PROVE AllResolved
<1> SUFFICES ASSUME phase = "done", NEW fn \in DOMAIN functions, functions[fn].waits, functions[fn].outer = 0
             PROVE  IsResolved(fn)
  BY DEF AllResolved
<1>1. /\ FunctionsWell /\ ContextsWell /\ LeftoversWell /\ NoneLost
  BY DEF IInv
<1>2. 1 \in DOMAIN contexts /\ contexts[1].fn = 0
  BY <1>1, Current DEF ContextsWell
<1>3. functions[fn].name \in FuncNames
  BY <1>1 DEF FunctionsWell
<1>4. contexts[1].backlog = NoBacklog /\ unfinished = NoBacklog /\ funcs = <<>>
  BY <1>1 DEF LeftoversWell
<1>5. NoBacklog[functions[fn].name] = <<>>
  BY <1>3 DEF NoBacklog
<1>6. ~IsIn(fn, <<>>)
  BY SmallSequences DEF IsIn
<1> QED
  BY <1>1, <1>2, <1>4, <1>5, <1>6 DEF NoneLost

\* Only the first context is the script's, and what waits in a backlog is a
\* function of its name that its own context declared.
THEOREM ResolverTypesHold == Spec => []ResolverTypeOK
BY InvariantHolds, TypesFollow, PTL

\* No body is resolved twice: not by two calls, not by a call while it is being
\* resolved, and not again at the end of the script.
THEOREM EachBodyOnce == Spec => []ResolvedOnce
<1>1. IInv => ResolvedOnce
  BY DEF IInv
<1> QED
  BY <1>1, InvariantHolds, PTL

\* No body of a function of the script is left when the analysis ends.
THEOREM NoBodyLeft == Spec => []AllResolved
BY InvariantHolds, NoneLeft, PTL

\* A function whose name is its own is resolved no later than its first call
\* where it is declared.
THEOREM CallsResolveInTime == Spec => []FirstCallResolves
<1>1. IInv => FirstCallResolves
  BY DEF IInv
<1> QED
  BY <1>1, InvariantHolds, PTL

\* Whatever global its body refers to has its slot when that call is made.
THEOREM GlobalsInTime == Spec => []GlobalsExist
<1>1. IInv => GlobalsExist
  BY DEF IInv
<1> QED
  BY <1>1, InvariantHolds, PTL

\* The index into a backlog leaves it only if some function shares its name
\* with another callable.
THEOREM IndexInRange == Spec => []PanicsOnlyOnRepeated
<1>1. IInv => PanicsOnlyOnRepeated
  BY DEF IInv
<1> QED
  BY <1>1, InvariantHolds, PTL
===============================================================================
