------------------------------- MODULE Scopes --------------------------------
(***************************************************************************)
(* Names and slots: the part of analysis.rs that decides which declaration *)
(* a name means and where the machine will find it.  The context of a      *)
(* function under analysis is a record                                     *)
(*   [local_bindings, depth, is_global, loop_depth, ret_type]              *)
(* of which is_global marks the main script.  A binding says in which      *)
(* space, "Stack" or "Globals", and at which slot a declaration lives.     *)
(*                                                                         *)
(* A declaration is a record [name, type, params, ret_type, depth, tag]:   *)
(* type is [t, f] as in Verifier, params and ret_type are the signature of *)
(* a callable, and tag tells declarations of one name apart.               *)
(***************************************************************************)
EXTENDS OpCodes

NewResolver(is_global, ret_type) ==
    [local_bindings |-> <<>>, depth |-> 0, is_global |-> is_global,
     loop_depth |-> 0, ret_type |-> ret_type]

InGlobalScope(res) == res.is_global /\ res.depth = 0

VarData(name, type, params, ret_type, tag) ==
    [name |-> name, type |-> type, params |-> params, ret_type |-> ret_type,
     depth |-> 0, tag |-> tag]

\* declare() pushes to one of two tables.
DeclareLocal(res, data) ==
    IF InGlobalScope(res) THEN res
    ELSE [res EXCEPT !.local_bindings = Append(@, [data EXCEPT !.depth = res.depth])]
DeclareGlobal(res, globals, data) ==
    IF InGlobalScope(res) THEN Append(globals, data) ELSE globals

EnterScope(res) == [res EXCEPT !.depth = @ + 1]

\* Bindings are dropped from the end while they are deeper than the new depth.
ExitScope(res) ==
    LET depth == res.depth - 1
        kept == SelectLastInSeq(res.local_bindings, LAMBDA data : data.depth <= depth)
    IN [res EXCEPT !.depth = depth, !.local_bindings = SubSeq(@, 1, kept)]

EnterLoop(res) == [res EXCEPT !.loop_depth = @ + 1]
ExitLoop(res) == [res EXCEPT !.loop_depth = @ - 1]

Binding(space, slot, data) == [space |-> space, slot |-> slot, data |-> data]

\* The place of the last declaration of the name; a set of at most one.
LastNamed(table, name) ==
    {i \in DOMAIN table : table[i].name = name /\ \A j \in DOMAIN table : table[j].name = name => j <= i}

\* GetIdentifier that takes a local's slot for its place among the locals.
GetIdentifierUnshifted(res, globals, name) ==
    LET locals == LastNamed(res.local_bindings, name)
    IN IF locals # {} THEN {Binding("Stack", i - 1, res.local_bindings[i]) : i \in locals}
       ELSE {Binding("Globals", i - 1, globals[i]) : i \in LastNamed(globals, name)}

\* The latest local of that name, or else the latest global; a set of at most
\* one binding.  The main script's locals lie above the globals.
GetIdentifier(res, globals, name) ==
    LET locals == LastNamed(res.local_bindings, name)
        offset == IF res.is_global THEN Len(globals) ELSE 0
    IN IF locals # {} THEN {Binding("Stack", i - 1 + offset, res.local_bindings[i]) : i \in locals}
       ELSE {Binding("Globals", i - 1, globals[i]) : i \in LastNamed(globals, name)}

\* Every declaration, locals before globals; here the slot of a local is its
\* place among the locals, in the main script too.
GetAllIdentifiers(res, globals) ==
    LET all(space, table) ==
            [i \in DOMAIN table |-> Binding(space, i - 1, table[i])]
    IN all("Stack", res.local_bindings) \o all("Globals", globals)

CanConvert(expected, given) ==
    \/ expected = "Any" \/ given = "Any" \/ expected = given
    \/ <<given, expected>> \in { <<"Int", "Float">>, <<"Int", "Bool">>, <<"Char", "Int">>,
                                 <<"Bool", "Int">>, <<"Bool", "Float">> }

\* The callee of a call by name: of the callables of that name the last one
\* whose parameters are the argument types, or else the last one they can be
\* converted to; a set of at most one binding.
ResolveCall(res, globals, name, argTypes) ==
    LET all == GetAllIdentifiers(res, globals)
        converts(params) ==
            /\ Len(params) = Len(argTypes)
            /\ \A i \in DOMAIN params : CanConvert(params[i], argTypes[i])
        callable == {i \in DOMAIN all : /\ all[i].data.name = name
                                       /\ all[i].data.type.t \in {"Function", "NativeFunc"}}
        exact == {i \in callable : all[i].data.params = argTypes}
        fitting == IF exact # {} THEN exact ELSE {i \in callable : converts(all[i].data.params)}
    IN {all[i] : i \in {k \in fitting : \A j \in fitting : j <= k}}
==============================================================================
