------------------------------ MODULE Verifier -------------------------------
(***************************************************************************)
(* A bytecode verifier for Carabao's compiled functions.  The program has  *)
(* none: its machine trusts the generator.  The verifier states what that  *)
(* trust amounts to.  It accepts a program for which there are             *)
(*                                                                         *)
(*   - for each function a table with the types of the values that its     *)
(*     frame holds at every instruction, in which each instruction finds   *)
(*     the operands it wants and every path that joins another agrees with *)
(*     it;                                                                 *)
(*   - for each function a set of the globals that it, or what it calls,   *)
(*     touches, so that the main script has declared them when it calls.   *)
(*                                                                         *)
(* TablesOK and NeedsOK are the conditions; Inferred and Needed find such   *)
(* tables and sets, by going once through the code of each function.       *)
(*                                                                         *)
(* A static type is a record [t, f]: the variant of the value, and for a   *)
(* function or a native function which one it is, or 0 if that is not      *)
(* known.                                                                  *)
(***************************************************************************)
EXTENDS Program

Of(t) == [t |-> t, f |-> 0]
TypeOfValue(x) == [t |-> x.t, f |-> IF x.t \in {"Function", "NativeFunc"} THEN x.v ELSE 0]

Variants(types) == [i \in DOMAIN types |-> types[i].t]

\* Two marks in the place of a frame's types: unreachable code, and code that
\* would misbehave.
Mark(name) == <<[t |-> name, f |-> 0]>>
Dead == Mark("dead")
Bad == Mark("bad")

Ip(k, ip) == program[k].code[ip + 1]

Successors(k, ip) ==
    LET op == Decode(Ip(k, ip))
        after == ip + Width(op)
        target == after + Signed16(Ip(k, ip + 1), Ip(k, ip + 2))
    IN CASE op \in {"Return", "Crash"} \cup Unwritten -> {}
         [] op = "Jump" -> {target}
         [] op = "JumpIfNot" -> {after, target}
         [] OTHER -> {after}

\* The types after the instruction at ip of function k, from the types s before
\* it.  globals are the types of the main script's globals.  Nothing calls the
\* main script.
Effect(k, globals, ip, s) ==
    LET op == Decode(Ip(k, ip))
        arg == Ip(k, ip + 1)
        n == Len(s)
        has(m) == n >= m
        top == s[n]
        less(m) == SubSeq(s, 1, n - m)
        replaced(m, ts) == less(m) \o ts
        slots == IF k = MainId THEN s ELSE globals
        callee == s[n - arg]
        args == SubSeq(s, n - arg + 1, n)
        variants == Variants(args)
        constants == program[k].constants
    IN CASE op = "Pass" -> s
         [] op = "None" -> Append(s, Of("None"))
         [] op \in {"True", "False"} -> Append(s, Of("Bool"))
         [] op = "LoadByte" -> Append(s, Of("Int"))
         [] op = "Constant" ->
              IF arg < Len(constants) THEN Append(s, TypeOfValue(constants[arg + 1])) ELSE Bad
         [] op = "GetLocal" -> IF has(arg + 1) THEN Append(s, s[arg + 1]) ELSE Bad
         [] op = "GetGlobal" ->
              IF Len(slots) > arg THEN Append(s, slots[arg + 1]) ELSE Bad
         [] op = "SetLocal" -> IF has(arg + 1) /\ s[arg + 1] = top THEN s ELSE Bad
         [] op = "SetGlobal" ->
              IF has(1) /\ Len(slots) > arg /\ slots[arg + 1] = top THEN s ELSE Bad
         [] op = "Pop" -> IF has(1) THEN less(1) ELSE Bad
         [] op = "Jump" -> s
         [] op = "JumpIfNot" -> IF has(1) /\ top.t = "Bool" THEN less(1) ELSE Bad
         [] op = "CallUser" ->
              IF /\ has(arg + 1)
                 /\ callee.t = "Function"
                 /\ callee.f \in DOMAIN program \ {MainId}
                 /\ program[callee.f].params = variants
              THEN replaced(arg + 1, <<Of(program[callee.f].ret_type)>>) ELSE Bad
         [] op = "CallNative" ->
              IF /\ has(arg + 1)
                 /\ callee.t = "NativeFunc"
                 /\ callee.f \in DOMAIN Natives
                 /\ Natives[callee.f].builds \/ Natives[callee.f].takes = variants
              THEN replaced(arg + 1, <<Of(Natives[callee.f].gives)>>) ELSE Bad
         [] op = "Return" ->
              IF k = MainId \/ (has(1) /\ top = Of(program[k].ret_type)) THEN s ELSE Bad
         [] op \in {"Crash"} \cup Unwritten -> s
         [] op = "TESTTakeInput" -> Append(s, Of(InputType))
         [] op = "TESTYield" -> IF has(1) THEN replaced(1, <<Of("None")>>) ELSE Bad
         [] op = "WrapAny" -> IF has(1) THEN replaced(1, <<Of("Any")>>) ELSE Bad
         [] op = "ValEqual" -> IF has(2) THEN replaced(2, <<Of("Bool")>>) ELSE Bad
         [] op \in DOMAIN Unwraps ->
              IF has(1) /\ top.t = "Any" THEN replaced(1, <<Of(Unwraps[op])>>) ELSE Bad
         [] op \in DOMAIN Computing ->
              LET takes == Computing[op].takes
              IN IF /\ has(Len(takes))
                    /\ \A i \in DOMAIN takes : s[n - Len(takes) + i].t = takes[i]
                 THEN replaced(Len(takes), <<Of(Computing[op].gives)>>) ELSE Bad
         [] OTHER -> Bad   \* FieldGet and FieldSet need the types of fields

\* An instruction with all its operands starts at ip.
Readable(k, ip) ==
    /\ ip < Len(program[k].code)
    /\ IsOp(Ip(k, ip))
    /\ ip + Width(Decode(Ip(k, ip))) <= Len(program[k].code)

Entry(k) ==
    IF k = MainId THEN [i \in DOMAIN Natives |-> [t |-> "NativeFunc", f |-> i]]
    ELSE <<[t |-> "Function", f |-> k]>> \o [i \in DOMAIN program[k].params |-> Of(program[k].params[i])]

(***************************************************************************)
(* The conditions.                                                         *)
(***************************************************************************)
\* A table of function k: the types at every ip, the first of them at ip 0.
FunctionOK(k, globals, table) ==
    /\ table[1] = Entry(k)
    /\ \A ip \in 0..Len(program[k].code) :
          table[ip + 1] # Dead =>
            /\ table[ip + 1] # Bad
            /\ Readable(k, ip)
            /\ LET effect == Effect(k, globals, ip, table[ip + 1])
               IN /\ effect \notin {Bad, Dead}
                  /\ \A next \in Successors(k, ip) :
                        next \in 0..(Len(program[k].code) - 1) /\ table[next + 1] = effect

\* The reachable instructions of some kinds.
Reached(k, table, ops) ==
    {ip \in 0..(Len(program[k].code) - 1) :
        table[ip + 1] \notin {Dead, Bad} /\ Readable(k, ip) /\ Decode(Ip(k, ip)) \in ops}

CalledAt(k, table, ip) == table[ip + 1][Len(table[ip + 1]) - Ip(k, ip + 1)].f
Calls(k, table) == {CalledAt(k, table, ip) : ip \in Reached(k, table, {"CallUser"})}
Touches(k, table) == {Ip(k, ip + 1) : ip \in Reached(k, table, {"GetGlobal", "SetGlobal"})}

\* A function reads the globals where the main script keeps them.
Covers(tables, needs) ==
    \A k \in DOMAIN program \ {MainId} :
        /\ Touches(k, tables[k]) \subseteq needs[k]
        /\ \A c \in Calls(k, tables[k]) : needs[c] \subseteq needs[k]

MainReady(globals, table, needs) ==
    \A ip \in Reached(MainId, table, {"CallUser"}) :
        \A g \in needs[CalledAt(MainId, table, ip)] :
            LET s == table[ip + 1]
            IN /\ g < Len(s) - Ip(MainId, ip + 1) - 1
               /\ s[g + 1] = globals[g + 1]

TablesOK(globals, tables) == \A k \in DOMAIN program : FunctionOK(k, globals, tables[k])
NeedsOK(globals, tables, needs) == Covers(tables, needs) /\ MainReady(globals, tables[MainId], needs)

(***************************************************************************)
(* The search.                                                             *)
(***************************************************************************)
\* One pass over the code: ip 0 has the entry's types, another has the types
\* after the first instruction found to lead to it.
Inferred(k, globals) ==
    LET Live(types, p) == types[p + 1] \notin {Dead, Bad} /\ Readable(k, p)
        TypesAt(types, ip) ==
            LET preds == {p \in 0..(ip - 1) : Live(types, p) /\ ip \in Successors(k, p)}
            IN IF preds = {} THEN Dead
               ELSE LET p == CHOOSE q \in preds : TRUE
                    IN Effect(k, globals, p, types[p + 1])
    IN FoldLeft(LAMBDA types, ip : Append(types, TypesAt(types, ip)),
                <<Entry(k)>>,
                [i \in 1..Len(program[k].code) |-> i])

\* What a function touches, then what those it calls touch, as often as there
\* are functions.
Needed(tables) ==
    FoldLeft(LAMBDA needs, round :
                [k \in DOMAIN program |-> needs[k] \cup UNION {needs[c] : c \in Calls(k, tables[k])}],
             [k \in DOMAIN program |-> Touches(k, tables[k])],
             [i \in DOMAIN program |-> i])

\* A concatenation is a tuple, which TLC evaluates once.
Verifies(globals) ==
    \E tables \in {<<>> \o [k \in DOMAIN program |-> Inferred(k, globals)]} :
       /\ TablesOK(globals, tables)
       /\ \E needs \in {<<>> \o Needed(tables)} : NeedsOK(globals, tables, needs)
==============================================================================
