------------------------------- MODULE Resolver -------------------------------
(***************************************************************************)
(* The order in which analysis.rs resolves a program.  The body of a       *)
(* function waits in the backlog of the context that declares it until a   *)
(* call there chooses the function; bodies that still wait in the main     *)
(* script's backlog are resolved at its end.  A body is chosen when it is  *)
(* resolved, as nothing looks at it before.                                *)
(*                                                                         *)
(* Compiler.tla follows one function at a time and leaves this order out;  *)
(* here types and values are left out but for the choice of an overload.   *)
(***************************************************************************)
EXTENDS Scopes

CONSTANTS
    FuncNames, StructNames, VarNames,   \* names that are declared
    Signatures,            \* parameter types of functions and structs, as sequences
    Arguments,             \* types of arguments of calls, as sequences
    Natives,               \* names of native functions, a sequence; they take one value
    MaxStmts, MaxContexts, MaxVisits   \* bounds on programs

ASSUME ResolverAssumption ==
    /\ MaxStmts \in Nat /\ MaxVisits \in Nat
    /\ MaxContexts \in Nat \ {0, 1}     \* the script and a body at least
    /\ Natives \in Seq(Range(Natives))
    /\ \A s \in Signatures \cup Arguments : s \in Seq({"Any", "Int", "Bool", "String"})

VARIABLES
    contexts,          \* functions under analysis, the main script first
    global_bindings,
    functions,         \* every callable declared: [name, params, outer, waits]; outer is the
                       \* function whose body declares it, or 0, waits whether it has a body
    errors,            \* whether an error was reported
    phase,             \* "script", "leftovers", "done" or "panicked"
    unfinished,        \* at the end, the script's backlog that is being emptied
    funcs,             \* and the rest of the list that is under way
    left,              \* statements the program may still have
    resolved,          \* bodies that were resolved: [fn, phase]
    calls,             \* calls that chose a function: [fn, from, globals]
    uses               \* globals that a body refers to: [fn, slot]

history == <<resolved, calls, uses>>
leftovers == <<unfinished, funcs>>
vars == <<contexts, global_bindings, functions, errors, phase, leftovers, left, history>>

(***************************************************************************)
(* Contexts.                                                               *)
(***************************************************************************)
\* Several functions of one name wait in the order of their declarations.
NoBacklog == [name \in FuncNames |-> <<>>]
Taken == 0

Context(fn, res) == [fn |-> fn, res |-> res, backlog |-> NoBacklog]
ctx == Last(contexts)
InMain == Len(contexts) = 1
WithTop(c) == [contexts EXCEPT ![Len(contexts)] = c]

Callable(name, params, tag) == VarData(name, [t |-> "Function", f |-> 0], params, "None", tag)
Variable(name) == VarData(name, [t |-> "Int", f |-> 0], <<>>, "None", 0)

Declare(data, c) ==
    /\ contexts' = WithTop([c EXCEPT !.res = DeclareLocal(c.res, data)])
    /\ global_bindings' = DeclareGlobal(c.res, global_bindings, data)

(***************************************************************************)
(* finish_function: a context of its own, with the function itself and its *)
(* parameters in its first slots.                                          *)
(***************************************************************************)
\* A body that is taken for another script.
BodyResolverGlobal == NewResolver(TRUE, "None")
BodyResolver == NewResolver(FALSE, "None")

Begin(fn, below) ==
    LET f == functions[fn]
        first == <<Callable(f.name, f.params, fn)>> \o [i \in DOMAIN f.params |-> Variable("param")]
    IN /\ contexts' = Append(below, Context(fn, [BodyResolver EXCEPT !.local_bindings = first]))
       /\ resolved' = Append(resolved, [fn |-> fn, phase |-> phase])

(***************************************************************************)
(* Calls.                                                                  *)
(***************************************************************************)
IsCallable(name, b) == b.data.name = name /\ b.data.type.t = "Function"

\* The places of the definitions of the name, in the order of get_all_identifiers.
Definitions(res, name) ==
    LET all == GetAllIdentifiers(res, global_bindings)
    IN {i \in DOMAIN all : IsCallable(name, all[i])}

\* The definitions behind the chosen one, which were searched before it.
\* CorrectIndex that goes on counting behind the match.
CorrectIndexUnmatched(res, name, binding) == Cardinality(Definitions(res, name))
CorrectIndex(res, name, binding) ==
    LET all == GetAllIdentifiers(res, global_bindings)
        definitions == Definitions(res, name)
    IN Cardinality({i \in definitions : \A j \in definitions : all[j] = binding => j < i})

\* Take that copies.
TakeNothing(c, name, i) == c
\* take() leaves nothing behind.
Take(c, name, i) == [c EXCEPT !.backlog[name][i] = Taken]

Step == phase = "script" \/ (phase = "leftovers" /\ ~InMain)
Stmt == Step /\ left > 0 /\ left' = left - 1 /\ UNCHANGED <<phase, leftovers>>

\* A name that has no function, or none for these arguments.
CallError ==
    /\ errors' = TRUE
    /\ UNCHANGED <<contexts, global_bindings, functions, history>>

\* The chosen function is a native, a struct, or was resolved before, or waits
\* in another context.
CallDone(call) ==
    /\ calls' = calls \cup call
    /\ UNCHANGED <<contexts, global_bindings, functions, errors, resolved, uses>>

\* Finish that leaves the body for the end.
FinishNothing(fn, name, i, call) == CallDone(call)
Finish(fn, name, i, call) ==
    /\ Begin(fn, WithTop(Take(ctx, name, i)))
    /\ calls' = calls \cup call
    /\ UNCHANGED <<global_bindings, functions, errors, uses>>

Call(name, args) ==
    /\ Step /\ left > 0 /\ left' = left - 1
    /\ UNCHANGED leftovers
    /\ LET found == ResolveCall(ctx.res, global_bindings, name, args)
       IN IF found = {} THEN CallError /\ UNCHANGED phase
          ELSE \E b \in found :
            LET i == CorrectIndex(ctx.res, name, b) + 1
                waiting == IF name \in FuncNames THEN ctx.backlog[name] ELSE <<>>
                call == {[fn |-> fn, from |-> ctx.fn, globals |-> Len(global_bindings)] :
                            fn \in {t \in {b.data.tag} : functions[t].waits}}
            IN IF waiting = <<>> THEN CallDone(call) /\ UNCHANGED phase
               ELSE IF i \notin DOMAIN waiting
               THEN phase' = "panicked" /\ UNCHANGED <<contexts, global_bindings, functions, errors, history>>
               ELSE IF waiting[i] = Taken THEN CallDone(call) /\ UNCHANGED phase
               ELSE /\ Len(contexts) < MaxContexts
                    /\ Finish(waiting[i], name, i, call) /\ UNCHANGED phase

(***************************************************************************)
(* The other statements.                                                   *)
(***************************************************************************)
\* Enqueue that leaves out functions in blocks.
EnqueueOfScript(c, name, fn) ==
    IF InGlobalScope(c.res) THEN [c EXCEPT !.backlog[name] = Append(@, fn)] ELSE c
Enqueue(c, name, fn) == [c EXCEPT !.backlog[name] = Append(@, fn)]

NewCallable(name, params, waits) ==
    functions' = Append(functions, [name |-> name, params |-> params, outer |-> ctx.fn, waits |-> waits])

FunctionStmt(name, params) ==
    LET fn == Len(functions) + 1
    IN /\ Stmt
       /\ NewCallable(name, params, TRUE)
       /\ Declare(Callable(name, params, fn), Enqueue(ctx, name, fn))
       /\ UNCHANGED <<errors, history>>

\* A struct is a function that nothing waits for, and so is a variable that
\* holds a function.
StructStmt(name, params) ==
    /\ Stmt
    /\ NewCallable(name, params, FALSE)
    /\ Declare(Callable(name, params, Len(functions) + 1), ctx)
    /\ UNCHANGED <<errors, history>>

VarStmt(name) ==
    /\ Stmt
    /\ Declare(Variable(name), ctx)
    /\ UNCHANGED <<functions, errors, history>>

\* A variable is mentioned.
Mention(name) ==
    /\ Stmt
    /\ LET found == GetIdentifier(ctx.res, global_bindings, name)
       IN IF found = {} THEN CallError
          ELSE /\ uses' = uses \cup {[fn |-> ctx.fn, slot |-> b.slot] : b \in {c \in found : c.space = "Globals"}}
               /\ UNCHANGED <<contexts, global_bindings, functions, errors, resolved, calls>>

EnterBlock ==
    /\ Stmt /\ ctx.res.depth < MaxVisits
    /\ contexts' = WithTop([ctx EXCEPT !.res = EnterScope(@)])
    /\ UNCHANGED <<global_bindings, functions, errors, history>>

ExitBlock ==
    /\ Step /\ ctx.res.depth > 0
    /\ contexts' = WithTop([ctx EXCEPT !.res = ExitScope(@)])
    /\ UNCHANGED <<global_bindings, functions, errors, phase, leftovers, left, history>>

\* The context of a body is dropped, with what still waits in it.
EndBody ==
    /\ Step /\ ~InMain /\ ctx.res.depth = 0
    /\ contexts' = Front(contexts)
    /\ UNCHANGED <<global_bindings, functions, errors, phase, leftovers, left, history>>

(***************************************************************************)
(* The end of the script.                                                  *)
(***************************************************************************)
EndScript ==
    /\ phase = "script" /\ InMain /\ ctx.res.depth = 0
    /\ phase' = "leftovers"
    /\ unfinished' = ctx.backlog
    /\ contexts' = WithTop([ctx EXCEPT !.backlog = NoBacklog])
    /\ UNCHANGED <<global_bindings, functions, errors, funcs, left, history>>

\* A hash map gives its entries in any order.
Unfinished(name) ==
    /\ phase = "leftovers" /\ InMain /\ funcs = <<>> /\ unfinished[name] # <<>>
    /\ funcs' = unfinished[name]
    /\ unfinished' = [unfinished EXCEPT ![name] = <<>>]
    /\ UNCHANGED <<contexts, global_bindings, functions, errors, phase, left, history>>

\* Rest that ends at a function that was taken.
RestUntilTaken(list) == IF Head(list) = Taken THEN <<>> ELSE Tail(list)
Rest(list) == Tail(list)

Leftover ==
    /\ phase = "leftovers" /\ InMain /\ funcs # <<>>
    /\ IF Head(funcs) = Taken THEN UNCHANGED <<contexts, resolved>>
       ELSE Begin(Head(funcs), contexts)
    /\ funcs' = Rest(funcs)
    /\ UNCHANGED <<global_bindings, functions, errors, phase, unfinished, left, calls, uses>>

Done ==
    /\ phase = "leftovers" /\ InMain /\ funcs = <<>> /\ unfinished = NoBacklog
    /\ phase' = "done"
    /\ UNCHANGED <<contexts, global_bindings, functions, errors, leftovers, left, history>>

(***************************************************************************)
(* The specification.                                                      *)
(***************************************************************************)
Init ==
    /\ global_bindings = [i \in DOMAIN Natives |-> Callable(Natives[i], <<"Any">>, i)]
    /\ functions = [i \in DOMAIN Natives |->
                      [name |-> Natives[i], params |-> <<"Any">>, outer |-> 0, waits |-> FALSE]]
    /\ contexts = <<Context(0, NewResolver(TRUE, "None"))>>
    /\ errors = FALSE /\ phase = "script" /\ left = MaxStmts
    /\ unfinished = NoBacklog /\ funcs = <<>>
    /\ resolved = <<>> /\ calls = {} /\ uses = {}

Next ==
    \/ \E name \in FuncNames, params \in Signatures : FunctionStmt(name, params)
    \/ \E name \in StructNames, params \in Signatures : StructStmt(name, params)
    \/ \E name \in FuncNames \cup StructNames \cup Range(Natives), args \in Arguments : Call(name, args)
    \/ \E name \in VarNames : VarStmt(name) \/ Mention(name)
    \/ EnterBlock \/ ExitBlock \/ EndBody
    \/ EndScript \/ (\E name \in FuncNames : Unfinished(name)) \/ Leftover \/ Done

Spec == Init /\ [][Next]_vars

(***************************************************************************)
(* The types.                                                              *)
(***************************************************************************)
\* The variables have their types: only the first context is the script's, a
\* backlog holds functions of its name that its own context has declared, and
\* nothing is resolved that has no body (function_backlog).
ResolverTypeOK ==
    /\ phase \in {"script", "leftovers", "done", "panicked"} /\ errors \in BOOLEAN /\ left \in 0..MaxStmts
    /\ Len(contexts) \in 1..MaxContexts /\ contexts[1].fn = 0
    /\ \A i \in DOMAIN contexts :
          /\ contexts[i].res.is_global <=> i = 1
          /\ contexts[i].fn \in 0..Len(functions)
          /\ \A name \in FuncNames : \A k \in DOMAIN contexts[i].backlog[name] :
                contexts[i].backlog[name][k] \in {Taken} \cup {fn \in DOMAIN functions :
                    functions[fn].name = name /\ functions[fn].outer = contexts[i].fn}
    /\ \A k \in DOMAIN funcs : funcs[k] # Taken => functions[funcs[k]].waits
    /\ \A k \in DOMAIN resolved : functions[resolved[k].fn].waits

(***************************************************************************)
(* Each body once, in time.                                                *)
(***************************************************************************)
IsResolved(fn) == \E k \in DOMAIN resolved : resolved[k].fn = fn

\* Whether another callable has the name, whatever its parameters and scope.
Repeated(fn) == \E k \in DOMAIN functions \ {fn} : functions[k].name = functions[fn].name

\* No body is resolved twice: not by two calls, not by a call while it is being
\* resolved, and not again at the end.
ResolvedOnce ==
    \A j, k \in DOMAIN resolved : resolved[j].fn = resolved[k].fn => j = k

\* At the end no body of a function of the script is left, in a block or not,
\* called or not, overloaded or not: the generator asks for all their bindings.
\* Those within other functions are dropped with the backlog they wait in.
AllResolved ==
    phase = "done" => \A fn \in DOMAIN functions :
                         functions[fn].waits /\ functions[fn].outer = 0 => IsResolved(fn)

\* A function is resolved no later than its first call where it is declared.
\* Where a name has several callables the index into the backlog is another
\* one's, and a call within another function does not look at the backlog.
FirstCallResolves ==
    \A c \in calls :
        c.from = functions[c.fn].outer /\ ~Repeated(c.fn) => IsResolved(c.fn)

\* So what its body refers to has its slot in the stack when it is called there.
GlobalsExist ==
    \A c \in calls, u \in uses :
        /\ u.fn = c.fn /\ c.from = functions[c.fn].outer /\ ~Repeated(c.fn)
        => u.slot < c.globals

\* The index into the backlog leaves it only if some function shares its name
\* with another callable.
PanicsOnlyOnRepeated ==
    phase = "panicked" => \E fn \in DOMAIN functions : functions[fn].waits /\ Repeated(fn)

\* What waits until the end is never called: the comment above the loop over
\* the leftovers calls them "functions that are never called", and assumes that
\* they see the globals of the end.
LeftoversUncalled ==
    \A k \in DOMAIN resolved : resolved[k].phase = "leftovers" =>
        ~\E c, d \in calls : /\ c.fn = resolved[k].fn
                             /\ c.from = 0 \/ (c.from = d.fn /\ d.from = 0)
==============================================================================
