# Carabao: specification, model checking and proofs

Carabao is a statically typed scripting language. The program in this repository
reads a script, builds its syntax trees, resolves names and checks types over the
trees, generates bytecode, and runs the bytecode on a stack machine. This
directory holds TLA+ modules for all of these passes, and above all for what they
take from each other without checking it: the slots that the analysis gives to
names, the types it gives to expressions, the bytecode that the generator writes
for both, and the machine that runs the bytecode and trusts it.

Source paths below are relative to the repository (`src/` is its source directory).

## The system

| Component | Source | State it keeps | Operations |
| --- | --- | --- | --- |
| lexer | `lexing.rs` | cursor, start of the token, line | one token at a time |
| parser | `parsing.rs` | two tokens, `ignore_newlines`, `panic_mode`, `errors`, `user_types` | one method per construct, `synchronize` |
| syntax trees | `expr_ast.rs`, `stmt_ast.rs` | none | visitors, rewriting of a node |
| semantic analysis | `analysis.rs` | `global_bindings`, per function `local_bindings`, scope depth and loop depth, a backlog of functions whose bodies wait for their first call | one visitor per statement and expression |
| types | `types.rs` | none | conversions, equality |
| code generator | `codegen.rs` | per function its code, constants, `stack_size`, `loop_starts`, `break_backlog` | one visitor per statement and expression, helpers that write, patch and pop |
| virtual machine | `runtime.rs` | the value stack, the call stack, the heap behind the values | `cycle()`, one arm per instruction |
| values | `values.rs` | contents of lists and objects | conversions, display |
| native functions | `standard_library/` | none | `print`, `clock`, strings, lists, ranges, `new_obj` |
| registry | `standard_library/registry.rs` | the list of native functions | order and types of the first globals |
| disassembler | `debug.rs` | none | prints code |
| command line | `main.rs`, `errors.rs` | none | the path of a script, printing of errors; `interpret()` is in `runtime.rs` |

How they interact. The analysis walks the whole tree, decides what every name means
and writes its decision (a space and a slot) into the tree. The generator walks
the same tree afterwards, reads the decisions, and counts on its own how many
variables the code keeps on the stack; it never sees the analysis' tables. The
machine gets the finished functions, one as a constant of another, with the native
functions in the first slots of its stack, and has no verifier: an operand of
another variant, a slot above the stack or an instruction pointer behind the code
is a panic. There are no threads, no persistence and no messages, so what is hard is
not interleaving but the long-range agreement of three walks over one program:

- numbering a slot twice, by declarations (analysis) and by pushes (generator),
  under shadowing, nested scopes, loops and functions declared in blocks;
- jumps that are written before their target is known, through lists of breaks
  under indexes that the next loop uses again;
- one value stack for all activations, divided only by each frame's `stack_bottom`;
- ends that depend on a limit: the value stack is bounded, the call stack is not;
- legal sequences of statements whose combination nobody tried;
- a body that is analysed not where it stands but at a call, with the tables of that moment,
  and is found through an index into a list that other declarations shape;
- types that are decided once and coded twice: the generator repeats the choice of a conversion
  or an instruction, and the machine repeats it again by the variants that it demands;
- in the lexer, a cursor that several loops move past the end of what they look at;
- in the parser, recovery from errors: methods that return without consuming a
  token, a flag that every nested expression sets, and `take_prev`, which hands out
  whatever was consumed last.

What makes each component correct:

- lexer: no character is lost or read twice between two tokens, a lexeme is what its kind
  says, lines are counted, and every scan ends;
- parser: it ends on every source, and the tree of a source without errors is made of
  the tokens that were meant;
- analysis and generator: the slot of a name is where its value will be; the loops
  one counts are those of the other; each body is resolved once, and before it can run;
  what the analysis accepts the generator can code, and values have the types it recorded;
- generator: jumps lead to instructions, exits to their loop, a function ends with a
  return on every path, and conversions appear wherever a type differs;
- expressions: the code computes what the expression means, and stops where that stops;
- machine: an activation's slots are its own, a call hands over exactly the callee
  and its arguments and gets one value back, the natives stay where they are;
- all together: a program that the analysis accepts never reaches one of the
  machine's panics, and ends unless it loops.

`PROJECT.json` lists the hazards at their lines, and the properties that look for
each.

## The modules

```
OpCodes --- Registry --- Program --- VM ----------.--- Bytecode --- MCVM
   |                        \                     |       |
   |                         Verifier ------------|     Frames (refined by both)
   |                                              |       |
 Emit ----.                                       '--- CompileAndRun --- MCCompileAndRun
           Compiler --------------------------------------'
 Scopes --'

 Scopes --- Resolver --- MCResolver

 Arithmetic --- Iterables --.
                   Emit -----Expressions --- MCExpressions
                   Scopes --'

 Lexer --- MCLexer          Parser --- ReadAhead --- MCParser

 Scopes --- SharedFacts --- MachineProofs, ResolverProofs, ParserProofs, LexerProofs
 VM and Verifier: MachineProofs     Bytecode: BytecodeProofs (which extends MachineProofs)
 CompileAndRun: CompilerProofs (which extends MachineProofs) --- TypingProofs
 Resolver: ResolverProofs     Parser: ParserProofs     Lexer: LexerProofs
```

| Module | Models | Correspondence |
| --- | --- | --- |
| `OpCodes` | `enum OpCode`, operand widths, bytes | `OpByte` and `Decode` are `as u8` and `from_u8`; `Computing` gives what an arithmetic, comparison or conversion instruction takes and gives |
| `Registry` | `GLOBAL_FUNCS` | a constant: name, parameter types, result type, whether the function builds an object |
| `Program` | `CompiledFunction` | the functions, named by index where the code holds counted pointers |
| `Scopes` | the tables of `analysis.rs` | `declare`, `enter_scope`, `exit_scope`, `get_identifier`, `get_all_identifiers`, the choice of a callee, `can_convert_type` |
| `Emit` | the helpers of `codegen.rs` | `write_*`, `patch_jump_*`, `begin_loop`, `end_loop`, `pop_locals`, `code_constant`, `code_expr_into`; one record per function under generation |
| `Compiler` | the statement visitors of both passes | one action per statement, or for the opening and the closing of one that contains others |
| `VM` | `cycle()` | one action per instruction or family; every panic is a value of `status` |
| `Frames` | what the machine promises | activations with slots of their own: the abstract specification |
| `Verifier` | nothing in the code | a bytecode verifier that states which code the machine's unchecked reads are safe for |
| `Bytecode` | the loop of `run()` | the machine on any bytecode, with the verdict of the verifier on it |
| `CompileAndRun` | `interpret()` and the loop of `run()` | compile, start, cycle until an end |
| `Parser` | `parsing.rs` | one action per method, or per part of one between two of its calls |
| `ReadAhead` | the token that `parsing.rs` reads ahead | the parser with one history variable: the setting under which `cur` was read |
| `Resolver` | the order of the analysis | calls, declarations, blocks; `finish_function`, the backlog and the loop over what is left in it |
| `Arithmetic` | what `vm_binary_op!` passes on to Rust | integers of `IntBits` bits with overflow, floats that are whole numbers |
| `Iterables` | `iterables.rs`, the contents and equality of `values.rs` | one operator per idea, `NativeCall` is a native function's result |
| `Expressions` | the expression visitors of both passes and the cycles they need | one action per node of the analysis, `Generate`, one action per family of instructions; `Meaning` is the reference |
| `Lexer` | `lexing.rs` | one action per branch of `scan_token()`, one per iteration of its loops over blanks and strings |
| `MC...` | | values of the constants, small programs |
| `SharedFacts` | | what the proofs need of sequences and natural numbers, with induction as the least counterexample, and of the tables of the analysis |
| `MachineProofs` | | lemmas on the cycles of the machine, also of a program that the verifier's tables describe |
| `CompilerProofs`, `TypingProofs`, `BytecodeProofs`, `ResolverProofs`, `ParserProofs`, `LexerProofs` | | inductive invariants and theorems |

### The compiler as a state machine

A behaviour of `Compiler` writes one program. Every statement is an action whose
guard is what the analysis accepts and whose effect is what both passes do to
their own state; `contexts` holds the function being compiled on top of the main
script, each with a generator (`gen`), a resolver (`res`) and the statements that
are open (`visits`, the Rust call stack of the visitors with the locals that
survive in it: `old_count`, the place of a jump that must be patched, the start of
a loop).

In the code, the analysis of the whole tree comes first and the body of a function
is analysed at its first call. In the model both passes advance together. They
see the same bindings because programs of this module respect three restrictions, which are
guards of the actions: a body mentions names declared before the function only, no
global is declared again once there is a function, and functions are declared in
the main script. What the restrictions exclude (the backlog, overloads, functions
within functions) is the subject of `Resolver`.

Conditions are the test build's `>>bool` expression (`TESTTakeInput`), which yields a new
input each time it is evaluated, so every path of a generated program is run.
`<<name` (`TESTYield`) is how a program looks at a variable; `AssignStmt` gives it
its own value again, so that a store into a wrong slot is seen by the next read.
Every variable has a literal of its own, its tag, and `reads` remembers which
variable each load is meant for.

The record of the generator has, besides the code's fields, history that only
the properties read: `heights` (the count at each statement boundary), `reads`,
`exits`, and the marks `leaky`, `sealed`, `untyped`, `misplaced` of four
of the constructs of `SoundProgram`; the fifth is read off `heights`.

### The machine

`Problem` says how the next cycle ends if it cannot go on; it follows the order of
the tests in `cycle()`, starting with the capacity of the value stack. `Cycle` is
the disjunction of the instructions. Payloads of computed values are drawn from
`Data`; variants, slots, bottoms and pointers are exact. Integer overflow is a
panic in a debug build and wraps in a release build, so an arithmetic instruction
may do either.

`Bytecode` starts the machine on any program of `Programs`, not only on what the
generator writes. `Verifies` looks for a table with the types of every function's
slots at every instruction, in which all paths agree, and for the globals that each function needs
of the main script when it is called. `TablesOK` and `NeedsOK` say what such tables must satisfy;
`Inferred` and `Needed` find them, and everything that is proved uses the first two only. Types of fields
are not in the tables, so code that touches fields is refused; nothing calls the main script.

### The order of the analysis

`Resolver` takes the other half of what `Compiler` leaves out: several functions of a name,
functions in functions, and bodies that wait. A function declared in a context is put into that
context's backlog under its name; a call chooses one of the candidates by the types of its
arguments (`ResolveCall` of `Scopes`), turns its place among the candidates into an index into
the backlog, and if something is there takes it out and resolves the body at once,
in a context of its own; at the end of the script the bodies that are left are resolved
in any order of names, as a hash map gives them. The body itself is chosen when it is
resolved: nothing looks at it before. What is left is emptied as in the code: `unfinished` is the backlog, moved out
of the script's context, and `funcs` the list of one name that the loop is at. Values are left out, and so are types but for the choice of
an overload; `calls`, `uses` and `resolved` are history.

After an error the analysis goes on, so a behaviour does too. A struct is a callable that
nothing waits for, and so would be a variable that holds a function. Bodies nested in
functions that are never called there are dropped with their context; the generator
then finds no bindings for them and panics. `AllResolved` therefore speaks of the script's functions.

### Expressions

`Expressions` builds a tree node by node as the analysis meets it, with the type it
records for each, and refuses, panics or accepts as the visitors do; then `Generate` codes
the accepted tree (`code_expr_into` and the expression visitors, over the helpers of `Emit`), and
the machine executes it with values that are really computed: integers of `IntBits` bits, strings
as characters, lists and objects in a heap, the native functions by `Iterables`.
`Meaning` says what a tree means without an instruction and without a stack, and `Means` compares
variables, heap, value and the reason of a stop.

`gaps` of a node names what the analysis accepts and the others do not live up to. It is
exact on one side: `CodedExactly` says that the generator panics on the gaps
`operator`, `conversion` and `callee`, and only on them. The gaps `condition`, `branches` and `query` are
the three places where a value is coded without the conversion that its type asks for; `TypesHold`
says that nothing else can break a type. `Means` is about trees without any gap, and leaves
out the sum of two lists (`list_concat` appends its first argument to its second, so `[1] + [2]` is `[2, 1]`)
and the comparison of what is not a number (`a >= b` is coded as the negation of `a < b`).

Left out: calls of user functions (they are in `Compiler`), list literals of more than two
items, assignments to a native's name, calls of `print`, `println` and `clock`, and the operators of
the test build. The text of anything but a character or a string is one character
that stands for it. Floats are whole numbers with infinities and one that is not a number.

### The lexer

The cursor, the start of the token and the line are the code's. A character stands for its class, and one
that is not ASCII is two bytes, so that a slice can cut it in two. A loop that passes over one
class of characters is the place where it ends (`Until`); the loops of `skip_ignored()`, which calls
itself behind a backslash, and of strings are one step an iteration. Keywords are not told
apart from other identifiers: the trie that does it has no state.

What the properties except is how the code is. Four quotes and more are a string with an empty
lexeme, whose quotes the parser takes off all the same (`parsing.rs` 630). Newlines in block
comments, in characters and in strings on one line (behind a backslash), and the one that ends a line with a
stray backslash, are not counted. A source that ends within a character, behind a backslash in
a string, or, after a stray backslash, within a comment, is sliced out of range: a panic. And `/*/` is
a whole comment, in the code and in `IsIgnored`.

### The parser

The methods call each other, so a behaviour needs their call stack: `todo` holds the
steps that the methods under way have still to do, each a name and an argument. A
step consumes at most one token and may put others before the rest of its
caller's. `prev` is `Parser::prev`, with `"taken"` for the default token that
`take_prev` leaves behind; `cur` is chosen when `advance` reads it, so all sources
over a set of tokens, up to a length, are covered at once. `advance` may meet a token that the lexer refuses, which
reports an error and is passed over; newlines are passed over where the flag says so.

The tree is left out. In its place `odd` notes in which role `take_prev` gave a token
that does not fit it, and `opens` the brackets that are not closed; both are kept up to the
first error only, after which there is no tree. A parse ends `accepted`, `refused`, at the
`todo!()` for functions without a name, or `panicked`: a `struct` without a name and without a
lexeme in its place makes `copy_ident` unwrap nothing. `parse_expr_string`, which only
the tests use, is `expression` alone.

`NewlinesCount` is about the flag and holds after errors, too; it is proved (`NewlinesEndStatements`) and no run checks it. What a newline does depends on the flag at
an earlier moment: `advance` passes over newlines before the token that it reads ahead, and the flag may change
before that token is looked at. `ReadAhead` keeps that moment in a history variable, `ahead`, which no step of the
parser reads, and `NewlinesReadOutside` says that where a newline matters it was not passed over. It is about sources
without an error up to there: when the parser misses the bracket in `(1`, the newline behind the 1 is already gone.

### Frames, the abstract machine

`Frames` has no shared stack. Its activations own their slots; a call moves the
callee and its arguments into a new activation, a return hands one value to the
caller, and no step touches the slots of a waiting activation, except one slot of
the first one, where the globals live. `CompileAndRun` and `Bytecode` map the shared
stack to it by cutting it at the bottoms (`Activations`) and check
`FramesImplemented == F!Spec`.

## The runs

| Run | Question | Properties | States |
| --- | --- | --- | --- |
| `bytecode` | what must code satisfy for the machine to be safe | `VMTypeOK`, `VerifiedNeverFaults`, `FramesImplemented` | 285,113 |
| `blocks` | do the passes agree under scopes and shadowing | `TypeOK`, `SlotsAgree`, `HeightKept`, `ReadsOwn`, `JumpsLand` | 1,163,374 |
| `loops` | do exits land where their loop says | `LoopsAgree`, `ExitsLand`, `HeightKept` | 747,076 |
| `functions` | is generated code safe, and does it end | `ReadsOwn`, `RunsOffOnlyUncovered`, `CompiledVerifies`, `SoundNeverFaults`, `NoneForAny`, `NativesKept`, `FramesImplemented`, `RunEnds` | 672,123 |
| `resolver` | is every body resolved once, and in time | `ResolverTypeOK`, `ResolvedOnce`, `AllResolved`, `FirstCallResolves`, `GlobalsExist`, `PanicsOnlyOnRepeated` | 7,671,182 |
| `expressions` | does the code of an expression compute what it means | `ExprTypeOK`, `CodedExactly`, `TypesHold`, `Means` | 2,784,156 |
| `lexer` | does scanning end, and lose nothing | `LexTypeOK`, `NothingSkipped`, `LexemesFit`, `LinesCounted`, `PanicsAtOpenEnd`, `LexEnds` | 864,987 |
| `parser` | does parsing end, and of what is the tree made | `ParserTypeOK`, `NewlinesReadOutside`, `TakesWhatFits`, `AcceptedIsBalanced`, `ParseEnds` | 2,526,010 |
| `leaked_locals` | are the locals of a block always popped | `LocalsPopped`, violated | |
| `open_epilogue` | is the test for a final `Return` cosmetic | `EpilogueOnlyNoise`, violated | |
| `misplaced_callee` | do calls find their callee | `CallsFindCallee`, violated | |
| `called_leftover` | is what waits until the end never called | `LeftoversUncalled`, violated | |

`bytecode` starts from 33,682 programs: every sequence of up to two value
instructions after four starts, of up to four jumps, conditions and
pushes, and of up to three instructions in a callee below up to two calls. Most are
code that the generator would never write; the verifier accepts some and refuses
others, and the accepted ones never fault. `VerifiedNeverFaults` is what justifies
using the verifier as the meaning of "good code" in the other runs, and the theorem
`VerifierIsSound` makes it a fact about all programs.

`CompiledVerifies` then says that generated code is good code, and
`SoundNeverFaults` looks at the run itself, both for programs without the five
constructs of `SoundProgram`: a break or continue out of a block with locals, a function whose end is
open, a call of a function that was declared in a block of the script (these three are findings), a
`return` without a value in a function of type `any`, which the analysis accepts (`analysis.rs`
609-613) though the generator does not wrap its `None` (`codegen.rs` 673), so that printing the
result panics, and more variables at a time than an operand can number (`codegen.rs` 1007, `as u8`), the later
of which are read and stored in the wrong slot. `RunsOffOnlyUncovered` holds for programs with them too, and `HeightKept` for a main script with the
first: they say exactly how far the damage goes. So does `NoneForAny` for the untyped return, which the two properties
before it except: in a program with that construct and none of the others, the only fault is a native function that finds
the bare `None` in the place of an `any`. The programs of `Compiler` drop the value of a call or print it.

`FirstCallResolves` and `GlobalsExist` are about calls in the context that declares the function,
of a name that no other callable has; `called_leftover` and `PanicsOnlyOnRepeated` show what happens
if the name is repeated. A call within another function looks at that function's backlog only (`analysis.rs` 431), so a body
that is called nowhere else waits until the end, too, and is bound to globals that its call did not have yet: in
`func f() { g() }`, `func g() { x }`, `f()`, `new x = 1` the slot of `x` in `g` is where the callee `f` lies when `f()` runs. `LeftoversUncalled`
counts such calls.

### Bounds

- `MaxStmts` 4 or 5, `MaxVisits` 2 or 3: a slot can go wrong only through a
  declaration, a scope that ends, and a later access; an exit through two loops at one depth, or
  two nested ones, and a break in each. Five statements contain all of these; closings are not counted.
- `FuncNames` has two names, so a function can call another, or itself;
  `MaxParams` 1 gives a frame a slot that is neither the callee nor a local.
- In `blocks`, `MaxJump` is 12 so that programs reach the generator's `todo!()` on
  long jumps, and `IndexWidth` 5, so that they reach the slots that an operand cuts off; `ReadsOwn` is
  about the others, up to the last. Elsewhere both are the code's, 32767 and 256, and so is `MaxConstant`.
- `StackCapacity` 9 to 16 in place of 16384 so that recursion meets it. It is above what any
  non-recursive program of the run needs.
- `MaxFrames` 16 is never the limit for generated code: it pushes the callee before each call, so every
  activation that waits keeps at least its own callee and the value stack overflows first. In `bytecode` a function
  may call with the slot it was called with, which keeps nothing; such a recursion, which the
  program would continue until memory ends, is cut at 16 activations there. The theorems have no such bound. `MaxObjects` is above the number of objects a run creates.
- Natives: one with a parameter that programs call by name, and `new_obj`. The
  registry's order matters only in that the analysis and the machine use the same. In
  `Expressions` it is the registry's.
- `resolver`: `MaxStmts` 5 is two functions of a name, a variable, a mention and a call, in the
  script or in a body; `MaxContexts` 3 is a body that resolves another one's body;
  `MaxVisits` 1 puts a function in a block. `print` is also a name of functions and structs, so that
  candidates mix natives, structs and functions.
- `expressions`: three operands and two operators are every operator over every other, and
  the three operands of a conditional and of an assignment to an item. The variables are one of every sort that matters:
  an `any`, a list, an object whose struct has a field twice, an integer and a variable without a type. `IntBits`
  4 lets two operators overflow, shift too far and negate the least integer.
- `lexer`: all sources of three characters of every class, and of up to seven of those that
  interact: quotes and backslashes, comments and newlines, digits and dots, characters.
- `parser`: all sources of four tokens of every kind, which is a whole struct, a
  statement, or an error with what follows it, and of seven tokens for brackets, blocks,
  conditionals and newlines: three pairs of brackets and an operand, or an error inside two pairs.
- `MCLevels` has one series of boolean operators and one of other operators, which is also the
  unary one, of the twelve: `left_assoc_boolean_series` and
  `left_assoc_bin_series` are called with nothing but the next level and its operators.
- `MCTags` contains the byte of `Return` as a literal, for the generator's test of the last byte.

Deadlock is not checked: a run, a scan or a parse ends, or the program is compiled no further.

### Fairness

`Spec` has weak fairness of `Start` and `RunStep` only: `interpret()` goes on
from compilation to the run, and `run()` calls `cycle()` again as long as it says
`Continue`. Nothing obliges a programmer to write another statement, so `Compile` has no
fairness. `RunEnds` is checked where programs have no loops; a loop whose input is
always true need not end.

`Parser` and `ReadAhead` have weak fairness of their next steps: once called, `parse()` runs until it returns.
`ParseEnds` needs it, and names the one loop that may keep it from returning.
`Lexer` has the same for `to_vec()`, which calls `scan_token()` until the end of the source.
`Resolver` and `Expressions` state safety only.

## The proofs

Every theorem is about a specification as a whole, for every value of the constants that
satisfies the assumptions named, so for programs and sources of any length and nesting.
No proof assumes anything else.

| Module | Theorem | Statement |
| --- | --- | --- |
| `CompilerProofs` | `InvariantHolds` | `Spec => []IInv` |
| | `CompilerTypesHold` | `Spec => []CompilerTypeOK` |
| | `SlotsAlwaysAgree` | `Spec => []SlotsAgree` |
| | `LoopsAlwaysAgree` | `Spec => []LoopsAgree` |
| | `RunInvariant` | `Spec => []RunInv` |
| | `ProgramIsTyped` | `Spec => []TypeOK` |
| | `LayoutHolds` | `Spec => []LayoutInv` |
| | `JumpsAlwaysLand` | `Spec => []JumpsLand` |
| | `ExitsAlwaysLand` | `Spec => []ExitsLand` |
| | `OnlyUncoveredRunsOff` | `Spec => []RunsOffOnlyUncovered` |
| | `CodeAlwaysRead` | `Spec => []CodeIsRead` |
| `TypingProofs` | `TypesFlow` | `Spec => []TypeInv` |
| | `SoundCodeIsTyped` | `Spec => []TablesThere` |
| | `SoundCodeNeverFaults` | `Spec => []SoundNeverFaults` |
| | `SoundHeightsKept` | `Spec => [](SoundProgram => HeightKept)` |
| | `SoundFramesRefinement` | `Spec => SoundFramesImplemented` |
| `BytecodeProofs` | `BytecodeInvariant` | `Spec => []BytecodeInv` |
| | `MachineIsTyped` | `Spec => []VMTypeOK` |
| | `VerifierIsSound` | `Spec => []VerifiedNeverFaults` |
| | `FramesRefinement` | `Spec => FramesImplemented` |
| `ResolverProofs` | `InvariantHolds` | `Spec => []IInv` |
| | `ResolverTypesHold` | `Spec => []ResolverTypeOK` |
| | `EachBodyOnce` | `Spec => []ResolvedOnce` |
| | `NoBodyLeft` | `Spec => []AllResolved` |
| | `CallsResolveInTime` | `Spec => []FirstCallResolves` |
| | `GlobalsInTime` | `Spec => []GlobalsExist` |
| | `IndexInRange` | `Spec => []PanicsOnlyOnRepeated` |
| `ParserProofs` | `InvariantHolds` | `Spec => []IInv` |
| | `ParserTypesHold` | `Spec => []ParserTypeOK` |
| | `NewlinesEndStatements` | `Spec => []NewlinesCount` |
| | `TokensFit` | `Spec => []TakesWhatFits` |
| | `BracketsClose` | `Spec => []AcceptedIsBalanced` |
| `LexerProofs` | `TypedAlways` | `Spec => [](Typed /\ PanicsOpen)` |
| | `LexerTypesHold` | `Spec => []LexTypeOK` |
| | `PanicsOnlyAtOpenEnds` | `Spec => []PanicsAtOpenEnd` |
| | `NothingIsSkipped` | `Spec => []NothingSkipped` |
| | `LexemesAlwaysFit` | `Spec => []LexemesFit` |
| | `LinesAlwaysCounted` | `Spec => []LinesCounted` |

### The compiler

From `EmitAssumption`, `RegistryAssumption`, `CompilerAssumption`, `ArgumentsAssumption` and `VMAssumption`, so for any set of
natives and any width of indexes and jumps. What a condition reads is a bool (`CompilerAssumption`): conditions are
`>>bool`. The number of arguments fits an operand (`ArgumentsAssumption`).

`SlotsAgree` is not inductive. The two passes forget the variables of a block in
different ways: `exit_scope` drops bindings from the end of its table as long as they
are deeper than the new depth, `pop_locals` pops until the count is what it was when the block
was entered. That both drop the same number has to be known for every block that is
still open, and it has to survive what happens in the blocks inside. `Layout` says it:

    the locals are ordered by depth, none is deeper than the number of open
    statements, and the `old_count` of the j-th open statement, in the analysis'
    numbering, separates the locals of depth less than j from the others.

`Coherent` puts this together for one context with `IsContext` (types, and places of
jumps that are inside the code, so that patching one does not change
its length), `SlotsMatch` (the counts agree, but for the declaration of a
function that is still being compiled: the analysis has declared it, the generator will count it
when it ends) and `LoopsMatch` (as many open whiles as `loop_starts`; as
`end_loop` frees the last index only, a break that waits names a loop that is
open). `IInv` asks `Coherent` of every context. The lemmas follow the code:

- the first part of `CompilerProofs`: every helper of the generator appends or replaces bytes and leaves
  the rest of its record alone (`Writes` is transitive, so an expression is a chain of them);
- `SharedFacts`: tables stay tables, `DeclareEffect` and `ExitScopeEffect` say what
  a declaration and the end of a scope do to them;
- the rest of `CompilerProofs`: `Layout` under a declaration, an opening and a closing
  (`LayoutDeclared`, `LayoutOpened`, `LayoutClosed`); `Coherent` under each kind of step; one lemma
  `...Keeps` per action; the theorems.

The last part joins the compiler with the machine. `IInv` knows of every finished function that its code is
bytes and that a function among its constants is one of those finished before it; when the
program is compiled, that is what the machine assumes of its program (`CompiledIsProgram`), so `RunInvariant`
has `MachineOK` for the whole run, and `ProgramIsTyped` holds from the first statement to the end of the run.

`JumpsLand` and `ExitsLand` look at finished code; what makes them true is spread over its whole generation. A
forward jump is written with offset 0 and patched when the place it leads to is reached, which for a break may be
many statements and several loops later. `LayoutInv` says what holds in between, of each generator that has not
panicked: there is a set of places (0, the length of the code, and after each instruction the next one: `Laid`)
such that

- every jump leads to one of the places (`JumpsStay`; a jump that waits for its patch leads to the next
  instruction, as its offset is 0);
- the jumps of the open statements are distinct jumps of the code, and so are those of the waiting breaks;
- the starts of the loops increase, are among the places, and the n-th open `while` from the inside has the n-th from the end;
- an exit whose goal is known leads to it; one whose goal is not known is a break that waits, for the loop it names.

A step of the generator either appends whole instructions (`LaysOut`; transitive again) or patches some of the jumps
that wait (`PatchKeepsJumps`), and neither moves an instruction. For code that ends in a return of its own, or in an epilogue,
`ClosedCode` adds that all jumps lead to before its end. `StartsAreRow` shows that the places are those that
`InstructionStarts` counts, so there is one such set only.

A run rests on this: every activation stands at one of the places of its function, and in closed code never at the end
(`RunStands`). So no run, also of a program that is not sound, reads a byte that is no instruction (`CodeAlwaysRead`), and only a function
that is not `covered` is run past its code.

### The types of generated code

`SoundNeverFaults` is about runs, and what makes it true is a property of code that nothing in the compiler
states: every path to an instruction leaves the same types in the slots of the frame. `VerifierIsSound` says that tables
of such types are enough; `TypesFlow` says that the compiler's output has them. From the same assumptions as above.

- `Rule` says of each instruction which frame it takes to which, `Flow(e, cs, code, S, T)` that the frames `T` at
  the places `S` of some code follow it, and that the target of a jump has the frame of the jump. `e` is the
  environment of a function: its return type, what its frame begins with, the globals it reads, and the signatures of the
  functions it may call. `T` is chosen with the code: the code of an expression, a statement, a call extends it
  (`Leads`, transitive, with a lemma for each helper of the generator);
- `Kept` joins this with the generator's records: the frame at the end of the code has the types of the
  declarations in scope, slot by slot; the jump of an open statement waits with the frame that its
  branch will end with; the start of a loop has the frame at which its body's locals begin, and so has each waiting
  break; `heights` are the lengths of the frames at their places;
- `TypingHolds(sigs)` is this for every function under compilation, with `sigs` the signatures of those compiled.
  A signature says how many globals there were when the function was compiled: its body mentions no later ones,
  so the globals that it reads have their types wherever it is called from (`Ready`);
- `CleanGen` says which programs this is about. Each of the five constructs leaves a mark that stays (`Goes`), so a program that is sound
  in the end was so after every statement. A leaky exit joins two frames of different lengths, an
  untyped return hands on a `None` as an `any`, a misplaced call finds another type in its slot, an
  operand that is cut off does too, and an uncovered end has no next instruction: each is where the induction fails without its
  mark.

One lemma `...Typed` per action says that it keeps `TypingHolds`. The last parts turn a flow into the verifier's
tables (`TableFor`: `RuleObeys` shows that each rule is what the verifier computes, `FlowFits` that the conditions of `TablesOK` follow;
`NeedsOK` follows from the signatures' reach), so `SoundCodeIsTyped`, and from it, with the lemmas of
`MachineProofs`, `SoundCodeNeverFaults`. `SoundHeightsKept` and `SoundFramesRefinement` follow from the same invariant of the run (`VerifiedInv`).

The proof changed what was thought to be true. The fifth construct is in `SoundProgram` since a call through an operand
that is cut off finds another value, which the runs with few slots, having no functions, did not show; and `HeightKept` no longer speaks of
a leaky program of several functions, whose calls may find other values than the callee.

### The machine

From `RegistryAssumption`, `VMAssumption` and `BytecodeAssumption`: the result of a native function
is no function, and an object exactly if the native is `new_obj`; inputs of the tests have one variant, which is
no function and no object; a constant that is a function is one of the program's, and no constant is an
object. Nothing is assumed of the code.

`MachineOK` (values are values, a function value is one of the program's, an object is in
the heap, frames run functions of the program) is kept by every cycle of any program, as
`Problem` stops what would break it. That alone is `MachineIsTyped`.

`VerifiedNeverFaults` needs to know that the tables of the verifier agree with the machine at every moment,
and not only for the activation that runs: a function returns to code that the
verifier has looked at with a value of the callee's result type in place of the callee. `FramesOK` says:

- `ScriptFirst`: the first activation, and no other, is the main script's, with bottom 0;
- `Reaches`: every activation is at an instruction for which its function's table has types;
- `Stacked` and `Typed`: between its bottom and the next lies one value for each of those types, of that type, and
  a function that the table knows is that very function;
- `Waits`: an activation that is not on top waits behind a call. Its table there is what it has on the stack,
  and one more value, of the result type of the function that runs above it;
- `GlobalsThere`: the globals that the functions under way need lie in the
  first activation's part of the stack, with the types that the verifier was told.

`Accepted` is this with the conditions on the tables. `CycleAccepted` has a lemma for each family of instructions: `EffectIs`
turns the verifier's verdict on an instruction into `Admits`, what it may find and what it leaves;
`ReplaceAccepted` does the work for all that replace topmost values. For a call `CalledFrames` and `CallTyped` say that the
callee's part begins at the callee and fits its entry, for a return `ReturnedFrames` finds the caller's table
in `Waits`. `GlobalsThere` is why `needs` has to be closed under calls: a function that touches no global
may call one that does, much later.

An earlier form of the verifier was not sound, which the attempt to prove it showed: it let the main
script be called as a constant, with the natives of the first frame missing in the second.
The conditions on calls exclude it now, and the programs of the run contain such calls.

`CycleImplemented`, on which `FramesRefinement` and `SoundFramesRefinement` rest, maps every cycle to a step of `Frames` or to none. A call cuts the running part at the callee
(`CallImplemented`), a return puts the topmost value on the caller's part (`LeaveImplemented`), and all the others
write at or above the bottom of the running activation, or one place below the end of the first
(`CycleWorks`); that such a place is not within a waiting activation's part follows from `Stacked`.

### The order of the analysis

From `ResolverAssumption`. `ResolvedOnce` says nothing of the bodies that wait, so nothing in it
keeps a call from resolving one again. The invariant says where each body is:

- a list of a backlog holds functions of its name that its own context declares, each once
  and none that was resolved (`IsList`, for every context, for what is `unfinished` and for `funcs`);
- a function that was not resolved is in the list of its name, in the context that declares it if that is
  still under analysis, or among the leftovers (`NoneLost`), and a context other than the script's exists
  only for a body that has begun (`OutersBegun`);
- no two contexts are of one function, so no body begins within itself.

For `IndexInRange` and `CallsResolveInTime` the index must be compared with the list: a backlog with
an entry has a function of the name behind it, one with two has two (`Counted`), and the table of bindings holds
each callable once (`IsScope`), so that without a second callable of the name
`CorrectIndex` is 0 and the list has one entry. `GlobalsInTime` needs `CallsSeeGlobals`:
while the body that a call resolves is under analysis no global is declared, so a mention in the body finds
those of the call.

### The parser

From `ParserAssumption`, so for every table of operators. The steps on `todo` are the calls under way, and
what the properties say depends on calls that are far down in it:

- `Linked` says which step may follow which: above a step that takes a token is the
  step that has made sure of it, below an opening bracket is what it opens;
- `FlagOff`: wherever a declaration can begin, `ignore_newlines` will be off, as it
  is off now or a step before it restores an "off" that was saved;
- `Closed`: the open brackets are those that the steps still owe, in their order. `Debts`
  numbers them from the end of `todo`, so that steps put before the others do not
  renumber them, and `Enumerates` says that `opens` is the increasing enumeration of the debts. The exception
  (`Unclosed`) is the brace of a struct at the end of the source;
- `HeadFits`: the token that will be taken next fits its place, but for unary operators.

A method of the parser replaces itself by a list of steps. One lemma for each
says what its list owes and how it is linked (`Row`, `Calm`, `Owing`), and the lemmas on `Pushes` say what such a
replacement keeps of the invariant.

### The lexer

From `LexerAssumption`, that sources are UTF-8. `Typed` says where the cursor is in each mode: it is past the end only
behind a backslash, in a comment that is not closed or in a string that ends with a
backslash, which is `PanicsOnlyAtOpenEnds` when a slice is made there. `NothingIsSkipped` has the
invariant `Covered`: what lies between the last token and the cursor (or the start of the token) is a gap, that is
blanks, closed comments and joined lines. A step adds one such piece at the right
end (`IgnoredGap`, `JoinedGap`). `IsGap` is a recursive function, so `GapsExist`
and `GapsAre` first show, by the least counterexample, that there is such a function and only one. `LexemesAlwaysFit` needs `QuotesRead`:
the loop over a string passes over a backslash and what follows it, and the
reference `IsEscaped` counts the backslashes behind which a character stands. That they mean the same is the
invariant that the character at the cursor is not escaped and every quote passed
since the first is.

`LinesAlwaysCounted` compares the counter with a count over the whole source, which says of each newline
before the cursor whether it is hidden, by the token or the gap that it is in. The invariant is `LinesKept`: the tokens are
apart, the newlines between a backslash and the newline that it waits for are hidden,
and the line is one more than `Lines`, the set of those that have been counted, which in a string on several lines
takes in what the string has passed. What was hidden stays so when a token is added
(`HiddenStays`). That a joined newline is not hidden needs that a source is divided into gaps in one way only:
`CommentsOver` shows, by the least counterexample, that every later place of
a gap is behind the end of each comment that begins at an earlier one.

### Only model-checked

What a slot holds (`ReadsOwn`, `NativesKept`: types do not tell two integers apart), `HeightKept` for leaky scripts,
`FramesImplemented` for programs that are not sound, that the search of `Inferred` and `Needed` finds the tables whose existence is proved
(`CompiledVerifies`), what a bare `None` does (`NoneForAny`), newlines and the token ahead (`NewlinesReadOutside`),
everything about `Expressions`, and liveness (`RunEnds`, `ParseEnds`, `LexEnds`). Liveness is
out of the prover's reach, and so is what the folds in `Verifier` compute
for every input, which takes an induction over data. `Expressions` and `Iterables`
define equality, text and meaning by RECURSIVE operators, which the prover does not take.

## Findings

Four properties state what the repository says of itself and are violated. Each run is a
counterexample of a few steps.

1. `leaked_locals`: `visit_block_stmt` pops a block's locals where control falls
   through; `break` and `continue` jump over the pops (`codegen.rs` 547, 607-666).
   The values stay on the stack and later slots are off.
2. `open_epilogue`: a function whose last byte is `Return` gets no epilogue (`codegen.rs` 490), but
   that byte may end one of two paths, as in `func f() { if c { return; } }`. The other
   path runs past the code.
3. `misplaced_callee`: calls are resolved by `get_all_identifiers`, which does not
   add the number of globals to the slot of a local of the main script
   (`analysis.rs` 233); `get_identifier` does (201). A function declared in a
   block is called through the slot of a native.
4. `called_leftover`: the index into the backlog counts candidates from the end, the backlog
   is in the order of declarations (`analysis.rs` 434, with the comment at 428). With two functions of a
   name a call resolves the other one's body; the one that was called waits until the end, with what is
   "never called" (151).

Some more things the models show are not findings, as no doc or test speaks of them; the properties
except them by name. `ParseEnds`: the loop over the fields of a struct (`parsing.rs` 95) consumes nothing that
is not a field, so `struct p { int x; }` is parsed for ever. `AcceptedIsBalanced`: a struct
may end with the source. `TakesWhatFits`: `unary()` skips newlines before it takes its operator (`parsing.rs`
519), which is then the newline, and the generator panics on it. The lexer's and those of expressions
are under their modules above.

## What is not modelled, and the plan

Modelled: slots, scopes, jumps, loops, functions, the order of the analysis, expressions and native
functions, the machine, the lexer, the parser, and the agreement of the passes. What is left, in the order
in which it is worth doing:

1. A proof of `ReadsOwn`, from flows with values in place of types.
2. Calls of user functions within expressions, in one run with the frames of `VM`.

Not modelled, and why:

- a `for` loop is parsed, and is a `todo!()` in the generator; a `summon` is one in the analysis already;
- the parser's tree and ids, and the trie of the keywords: data without a state of their own;
- the conversion of literals: single conversions of the standard library, best kept as unit tests (a
  binary literal is parsed in base 12, `parsing.rs` 765);
- generated visitors (no state), the disassembler and the command line (printing),
  line tables, display of values, the wording of errors.
