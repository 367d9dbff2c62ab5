# A TLA+ model of mach-c

`mach-c` is the bootstrap compiler of the Mach language: one process, one thread, run as
`cmach build <file>`. It reads an entry file, resolves conditional compilation, loads the modules
the file uses, analyzes everything in phases, specializes generics on the way, and hands LLVM the
code of one object file per module and of an executable. Nothing in it runs concurrently. What is
hard about it is *order* and *recursion*: phases that visit modules in the order of a hash table,
state that is read before the phase that fills it, recursion along import graphs and generic
calls that is only cut short by a cache, a parser that must go on after any error, a code generator
that has to guess whether a value is an object or its address, and stages that fail half way with
files written.

This directory holds TLA+ modules for that control structure, TLC configurations that check them
on small instances, and TLAPS proofs of the main results for all instances. Paths such as
`semantic.c:1125` are relative to `src/src/`.

- [1. The system](#1-the-system)
- [2. The modules and the code](#2-the-modules-and-the-code)
- [3. What the runs check](#3-what-the-runs-check)
- [4. Fairness](#4-fairness)
- [5. What is proved](#5-what-is-proved)
- [6. Behaviours met while modelling](#6-behaviours-met-while-modelling)
- [7. What is not modelled](#7-what-is-not-modelled)
- [8. Plan](#8-plan)

## 1. The system

### Components

| component | state | operations | what makes it correct |
|---|---|---|---|
| **Preprocessor** (`preprocessor.c`) | stack of frames, one flag "active", output buffer, line number | one handler for each of `#@if`, `#@or`, `#@end`, the scan of the other lines, the check at the end | keeps exactly the text of the first true branch of each group, whatever the nesting; every kept line keeps its number; fails on malformed sources only, at the right line |
| **Condition expressions** (`preprocessor.c`) | scanner position | recursive descent over `\|\|`, `&&`, `==`, `!=`, `!` and brackets | a condition has the value of the tree that the parser of the language would build for it, and fails where that does |
| **Lexer** (`lexer.c`) | position | `lexer_next`, one function per kind of token; values of literals | tokens cover the source; values of literals |
| **Parser** (`parser.c`) | current and previous token, pending `#@symbol` name, panic flag, errors | one function per construct, precedence climbing, lookahead by scanning, `synchronize` | every source ends in a tree or an error; precedence and associativity; recovery makes progress; a name goes to its declaration |
| **Module manager** (`module.c`) | hash table with chains, count, search paths, aliases, errors | find, load (find file, read, preprocess, parse), insert, resize, collect objects | a module is in the table once and is found; the table loses nothing when it grows |
| **Loading** (`semantic.c`, `enqueue_module`) | the C stack of the recursion, `success` | one call per use statement | everything that is used is loaded and nothing else; failure has a cause; it ends |
| **Semantic driver** (`semantic.c`, `semantic_driver_analyze`) | phase, scopes of all units, diagnostics, `success` | pass A (declarations), imports, pass B (signatures), pass C (bodies) | what a name means and whether a program is accepted follow from the source, not from the order of the table |
| **Symbols** (`symbol.c`) | scopes: lists, the newest symbol first | add, lookup | the nearest declaration is found |
| **Types and layout** (`type.c`, `semantic.c`) | size, alignment, field offsets of each type | resolve alias, lay out struct, union | fields are disjoint and aligned, sizes are what the types have in the end |
| **Generics** (`semantic.c`) | specialization cache, bindings, the recursion of instantiations | request, bind, instantiate, analyze the copy | one instance per tuple of arguments, all that are needed, in finite time |
| **Analysis of bodies** (`semantic.c`, pass C; `type.c`) | types of the nodes, block scopes | one function per statement and expression, relations between types | what it accepts can be generated; every node has the type its value will have |
| **Code generation** (`codegen.c`) | LLVM module, symbol map, the builder's block, the innermost loop | one function per construct, one pass over the cache | one body per function; the blocks do what the statements say; each consumer gets a value where it needs one and an address where it needs one |
| **Compilation** (`compilation.c`) | stages, objects, executable, files on disk | seven stages in a row | an executable is there only when all stages passed, and is made of this build's code |
| **Configuration, files, commands** (`config.c`, `filesystem.c`, `ioutil.c`, `commands.c`, `main.c`) | `mach.toml`, options | read, expand module paths | the same path has one canonical name |

### How they interact

`compilation_run` calls the stages in a row; each returns false to end the build. The first reads
the configuration, gives it to the module manager and preprocesses the entry file.
`compilation_analyze` calls `semantic_driver_analyze`, which loads modules depth first
(`enqueue_module` -> `load_module_deferred` -> `module_manager_load_module_internal`, which again
preprocesses and parses), then runs its phases over the entry file and all modules of the table.
Passes B and C call the instantiation of generics, which calls them again for the copied AST. Code
generation reads the AST with the types pass C left in it, the symbols and the specialization cache,
once for the entry file and once for each module; what pass C lets through and code generation has
no instruction for is only found by LLVM's verifier. Components share state by pointer: the module table, the scopes, the Type
objects (whose addresses are keys of the cache), and the AST copies of instances.

There are no messages, threads or callbacks that outlive a call. The only state that outlives the
process is files: object files and the executable.

### Where it can go wrong

`PROJECT.json` lists the hazards, each at its line. In groups:

- *Order*: the hash table's order of modules, the entry file before its modules, `use` statements
  before and after others (`SemanticDriver`, `TypeLayout`).
- *State read too early, or stale*: sizes of types that are not laid out yet, a flag restored from
  the wrong frame, a module that has imports already when others import from it, Type addresses as
  keys, type parameters that stay bound.
- *Recursion without a visited set*: import cycles, recursive generics.
- *Partial failure*: a phase that skips the units after the first one that fails, diagnostics that
  do not make their pass fail, freed ASTs in the cache, object files of builds that failed.
- *Recovery*: tokens passed over after an error, the panic flag, a pending name that outlives the
  directive's statement, lookahead that does not stop at the end of the file (`Parser`).
- *Nesting*: the context of a loop is saved and restored over everything inside it; each basic block
  must end exactly once, whatever the branches contain (`ControlFlow`).
- *Two walks that must agree*: pass C types an expression and code generation gives it a value, each
  with rules of its own for lvalues, widths and pointers (`Operands`); the conditions of `#@if` have
  a parser of their own (`ConditionExpr`).
- *Boundaries*: line numbers, padding with alignment 0, the load factor of the table, indexes in the
  upper half of their type.

## 2. The modules and the code

Each module's header says what it takes as input. A source's *data* (names, expressions, paths) is
abstracted to what control depends on; *control* is kept: every early return, failure path, and the
order of effects. Operators whose comment starts with "A slip" are alternative, wrong forms of the
definition after them, for checking that the properties notice; nothing else uses them.

| module | models | composed with |
|---|---|---|
| `Preprocessor` | `preprocessor_run` and its directive handlers | refines `ConditionalText`; the outcome of a condition is that of `ConditionExpr` |
| `ConditionExpr` | `preprocessor_eval_condition` as recursive operators | its values are compared with the trees of `Parser` (`MCParser`) |
| `ConditionalText` | abstract: which lines nested conditionals select | - |
| `MachGrammar` | the parsing functions of `parser.c`: what each consumes, calls and builds; its lookaheads | used by `Parser` |
| `Parser` | the parser's state: tokens, pending name, panic mode, synchronization | runs on the text `Preprocessor` keeps |
| `ModuleTable` | the hash table of modules, with resizing one module at a time | refines `ModuleSet`; part of `ModuleManager` |
| `ModuleSet` | abstract: a set that modules are added to | - |
| `ModuleLoader` | the loading phase | part of `ModuleManager`; it ends with the set that `SemanticDriver` starts from (`Loaded`) |
| `ModuleManager` | both together: the loader on the table | extends `ModuleLoader` and `ModuleTable` |
| `SemanticDriver` | the phases of `semantic_driver_analyze` | takes the outcomes of passes B and C as input |
| `TypeLayout` | pass B for aliases, structs, unions | visits types in the order `SemanticDriver` visits units |
| `ControlFlow` | the statements of a body: analysis, basic blocks, verifier, and a run of the blocks beside a run of the source | a condition is what `Operands` says `codegen_expr` leaves |
| `Operands` | the expressions of a body: types in pass C and values in code generation | starts from the declared types; a statement of `ControlFlow` uses its result |
| `Specialization` | generics from request to code generation | the recursion within passes B and C |
| `Compilation` | `compilation_run` and object files, over several builds | refines `Builds`; its "analyze" stage is `ModuleLoader` and `SemanticDriver` |
| `Builds` | abstract: a build replaces the executable as a whole or not at all | - |
| `MC*` | small instances for TLC | extend their module |
| `*Proofs` | theorems | extend their module |

### Preprocessor

A line is a record: its kind, the outcome of its condition, and whether a newline ends it.
`frames` is `PreprocessorFrameStack`, `global_active` the local flag, `buffer` the output, in which
a number stands for the text of that line. `HandleIf`, `HandleOr` and `HandleEnd` are the three
handlers together with the blank line the caller appends; `TextLine` is every other line, kept or
dropped; `OutOfMemory` any append that fails; `Finish` the check for open groups. `read` and
`conds` are history variables for the properties: the lines so far and the conditions of the open
groups.

### MachGrammar and Parser

A file is a sequence of lexemes: token kinds, `newline`, `comment`, `#@symbol` (a directive with a
name), `#@other` (a directive that is wrong) and `error`. A blank is between any two, so that
lexemes do not run together. `agenda` is the pending work of all active parsing functions, the
innermost first: "consume this token", "enter this function", "build this node". `Expansion` gives,
for each parsing function and the token it starts at, what it puts there; a loop puts itself back.
`built` has the nodes in the order in which they are made, operands before operators, which
determines the tree. A function of the code that gets NULL from one it called returns NULL too,
except `parser_parse_program`, so that a failure (`Mismatch`) drops the whole agenda.

`StartTop`, `EndTop` and `FinishProgram` are the loop of `parser_parse_program`, `ChooseTop` is
`parser_parse_stmt_top`, `StartNested` the start of `parser_parse_stmt`. `Consume` contains all of
`parser_advance`: comments, directives and error tokens up to the next token. `Synchronize` and
`Skip` are `parser_synchronize` and its loop. The scans ahead for a method, a generic call and a
typed literal are operators of `MachGrammar` on the text. `starts` and `names` are history
variables for `NamesNextStatement`.

### ModuleTable

`modules` is the array of chains, each a sequence with its first module first. `Insert` is a load
that finds room, `Grow` the first half of one that does not: the capacity is doubled and the old
chains are taken off. `MoveFirst` and `NextChain` are the two loops of `module_manager_resize`,
`Grown` the insertion that caused it. The hash is an arbitrary function, reduced modulo the
capacity.

### ModuleLoader

`stack` is the C stack: one record per active `enqueue_module` with its next use statement.
`EnqueueEntryUse` is an iteration of the loop over the entry file's uses, which goes on after a
failure; `EnqueueDependency` one iteration within `enqueue_module`, which returns at the first;
`Return` its return. A stack as deep as `StackLimit` leads to "overflow", which is a crash.
`Circular` is the check of `module_has_circular_dependency` as it is written. Which paths name one
module, and which modules cannot be loaded, is input.

### ModuleManager

The loader and the table step together where the code calls one from the other: `LoadInto` is a load
that finds room (`module.c:855`), `StartResize`, `Resize` and `LoadResized` one that does not, while
the loader stands still in the middle of `module_manager_load_module_internal`. `Proceed` is every
step of the loader that adds nothing. The loader keeps asking its own set `loaded`; the property
`TableAnswersLoader` says that the table, which the code asks, would have answered the same. In
`ModuleTable` the variable of the loop is `mode`, and its behaviour is `TableInit`, `TableNext`,
`TableSpec`.

### ConditionExpr

One operator for each of the five mutually recursive functions; the three binary levels differ in
their operators only and are one operator with a level. A result has the value, the position of the
scanner and `ok`. The right operand is read in every case, as the code does, so that an error in it
counts where the value would not. What a name or a number is worth is given.

### SemanticDriver

`order` is the entry file followed by the modules in any order, chosen in `Init`. A phase moves
`turn` along it; `EnterUnit` and `SkipUnit` are the test of `success` before each unit. `Declare`
is pass A for one statement: it fails when the name is there, for methods when the owner is not a
type. `BeginUse`, `ImportSymbol` and `EndUse` are `process_use_statement` and the loop of
`import_public_symbols` over the whole scope of the used module (`pending`), one symbol at a time;
a symbol that is not `Exported` is passed over. `ResolveSignatures` and `AnalyzeBodies`
take the outcome of passes B and C for a unit from the program. `linking` are the modules with
`needs_linking`: the builtin `target` module has it as soon as it is loaded (`MarkedAtLoad`,
`module.c:843`), before any phase, and `MarkModules` adds those with a statement; `ProcessQueue`
returns the verdict. A path in a use statement is a canonical module name here: `ModuleLoader` has the
other names. The parser makes no function without a body, so there is none among the declarations.

### TypeLayout

`order` lists the types as pass B comes to them: per unit aliases, structs, unions. `StructField`
and `UnionField` lay out one field with the size its type has *at that moment*; `EndComposite`
rounds up. Builtins, pointers, slices and functions are `Prims` with fixed sizes.

### Specialization

A generic has one type parameter, a program one unit. Type objects live in `heap` and are
identified by position, as the code identifies them by address; the hash of the cache sees
addresses only, up to a bucket chosen when a type is created, and its comparison sees structure as
`type_equals_strict` does. `stack` is the recursion of instantiations. A request names a type, or
asks for an instance of a generic type or function: `CacheHit`, `Instantiate`, `UnknownType`.
`FinishType`, `FinishSignature` and `FinishBody` are where the code inserts into the cache and where
a failing body frees its AST. `Propagate` is a caller that gets NULL: an instance whose signature is
being resolved is given up, a body goes on with the next statement, without a type for the one that
failed (`last` is 0). `GenerateFunction` is one visit of `specialization_cache_foreach`.

### ControlFlow

A body is its statement tree in preorder, written one token at a time in `Write`; `pos` is where
`codegen_stmt` reads. `frames` is the C stack of `codegen_stmt_if`, `codegen_stmt_for` and
`codegen_stmt_block` with their local blocks, `blocks` the LLVM function, `insert` the builder's
block, `breakTo` and `continueTo` the two fields of the context, 0 for NULL. There is one action per
kind of statement and one for what each does after its body (`EndOfThen`, `EndOfIf`, `EndOfFor`,
`EndOfBlock`); `codegen_stmt_fun` is the end of the function with `LLVMVerifyModule`, whose rule here
is that each block ends with its only terminator (`Valid`). `codegen_stmt_or` is `codegen_stmt_if`
called for the `or` of a chain, whose blocks are nested in the else block of the branch before. An
effect stands for every statement that emits code and goes on: expressions, assignments, and
declarations too, since a local variable is stored with zero at the builder's position before its
initial value is asked for (`codegen.c:1478`). An index inside such a statement splits the block for its bounds
check, with an `unreachable` of its own after the call that aborts (`codegen.c:3329-3367`); that is part of
the effect here, and `MergeIsReached` is about the merge blocks of statements.

After that the body runs twice: `src` walks its text as `doc/statements.md` reads it, `pc` the
emitted blocks. They meet at effects, conditions and returns, and a condition gets the same arbitrary
value in both, except one that is a bare name: for it the code compares the address of the variable.
`Diverged` is a meeting at different events.

### Operands

An expression is built bottom up on `stack`, in the order in which both walks handle it; an operand
has what pass C knows (`type`, `lvalue`) and what the LLVM value is (`inst`, `holds`, `bits`).
`holds` says whether it is the value of the expression, the address of its object, or neither, which
the code does not know: `codegen_load_if_needed` guesses it from `inst` and the form of the node.
Each operation says whether pass C accepts it, whether there is code for it, and whether the
verifier takes that code. `codegen_stmt_var`, `Argument` and `codegen_stmt_ret` are the statements
that use an operand. `fat` marks what pass C takes for a pointer and LLVM has as the two words of a slice:
a slice stored where a pointer is expected is neither converted nor taken apart (`codegen.c:2132`), and
neither is the value of that assignment. Such a value is refused wherever an instruction needs a
pointer. Two fields serve the properties: `plain` (no step of the expression is one of
the forms the guess gets wrong) and `exact` (no comparison, shift or conversion without code is at
its root).

### Compilation

One action per stage function, each of which may fail, and one per module of the loop in
`module_manager_compile_dependencies`, in any order. `files` and `exe` are what is on disk and
outlive builds; the other variables are the process's. A failed or interrupted write leaves a file
as it was or cut short. `Crash` is the death of the process anywhere, a stack overflow of
`ModuleLoader` or `Specialization` included. Extra objects given with `--link`, and dumps of the
AST, IR or assembly (whose failure is only reported), are left out.

## 3. What the runs check

Every module has a type invariant, `TypeOK` (`TableTypeOK`). Those of `Preprocessor`,
`ModuleLoader`, `ModuleTable`, `SemanticDriver`, `TypeLayout`, `ControlFlow`, `Operands` and
`Compilation` are proved for all instances and the others hold in the instances below; the configurations list the properties that
say more:

| run | what it shows |
|---|---|
| `preprocessor` | `FramesSummarise`: frames and flag sum up the conditions of all open groups. `KeepsSelectedText`: the output has the lines whose every enclosing group is in its first true branch, *as the nesting of the source defines it*. `PreservesLineNumbers`: line numbers. `SucceedsOnWellFormed`: the verdict. `ImplementsConditionalText`: refinement. |
| `parser` | `NamesNextStatement`: a `#@symbol` name goes to one declaration, the one it stands before or in. `ParsesExpressions`: an expression is accepted if and only if the table of precedences gives it a tree, and the parser builds that tree, `=` after `=` excepted. `ConditionsReadAsExpressions`: as the condition of an `#@if` the same text is accepted if and only if it has a tree, and has that tree's value. `RecoversAtNext`: an error in a declaration never costs the next one. `EveryParseEnds`. |
| `modules` | `LoadsAllNeeded`: loading ends well only with all that is used in the table. `FailsForACause`: failures name needed modules that cannot be loaded. `LoadedIsAcyclic`: what gets past loading has no cycle, which the later phases need. `OneHome`: no module is doubled, in the middle of a resize too. `TableAnswersLoader`: no module is lost, put under an old index, or read twice. `ImplementsModuleSet`: refinement. `AcyclicTerminates`: without a cycle the recursion ends, within the stack it has. |
| `semantic_driver` | `ImportsAreExports`: nothing private, and nothing at second hand, is imported. `NamesFollowSource`: the meaning of names, own declarations before imports and earlier uses before later ones. `VerdictFollowsSource`: for every order of the modules, a program with anything wrong in any unit is rejected, and what is rejected has something wrong in it, or one of four things that code and documents judge differently, both by definitions from the source alone. `LinkingFollowsPhases`: but for the target's module, marked when it is loaded, modules are marked for linking only when no phase failed, and an accepted program links exactly those with statements and the target's. `Terminates`. |
| `type_layout` | `FieldsDisjoint`: always. `SettledFieldsExact`: fields whose types came before them have final size and alignment. `NoWastedSpace`: no gap is larger than alignment asks for. |
| `type_layout_imported` | violated: a struct of an imported module has size 0 as a field, although the documentation has modules analyzed first. |
| `specialization` | `CacheClosed`: an accepted program has every instance it asks for. `SpecialisedOnce`: once. `FreedNeverGenerated`: no code from freed ASTs. `OneBodyPerName`. `RegularEnds`: recursion of generics without growing types ends. |
| `control_flow` | `VerdictFollowsBody`: a body is rejected for a `ret` that does not fit, a `brk` or `cnt` outside any loop, a condition without truth value, or a statement right after one that ends the flow; nothing else makes malformed blocks or has a body rejected, with nothing said of a body with a path that lacks its `ret`. `LoopContextIsInnermost`: `brk` and `cnt` go to the innermost loop. `FollowsSource`: every run of the blocks has the effects, conditions and returns of the source, in its order. `MergeIsReached`: no "unreachable" is emitted. |
| `control_flow_conditions` | violated: a condition that is a bare name does not decide anything, since its address is tested. |
| `operands` | `PlainExpressionsDenote`: outside the forms listed in section 6, every consumer gets the value of the expression and every store goes to its object. `WidthOfType`: a value is as wide as its type, so that a store writes its object and nothing beside it, but for comparisons, shifts and stores between types of different widths. `InvalidForCause`: what pass C accepts and the verifier refuses is one of a few forms: a comparison's one bit where a wider integer is needed, a slice where a pointer or a scalar is, a pointer where an integer is. `SignedIndexIsInside`: an index that passes the bounds check is inside, if signed or of 64 bits. |
| `operands_index` | violated: an unsigned index of fewer bits can pass the check and address what is before the slice. |
| `compilation` | `SuccessMeansObjects`: exit code 0 means whole objects of this build. `ImplementsBuilds`: refinement; the executable changes as a whole, in successful builds only, and has no code of an earlier one. |

Some properties are stated and proved but not run: `ErrorLine` of `Preprocessor`, `LoadsOnlyNeeded`
and `CircularNeverReported` of `ModuleLoader` (the check for circular dependencies has no effect),
`Findable` and `LoadFactor` of `ModuleTable`, and `SizesRounded` of `TypeLayout`.

### Kept counterexamples

Where the code disagrees with a document in a case that a property above would have to judge, the
property takes no side, and the document's claim is a property of its own. TLC violates each one with
the configuration named here; they stand beside the runs above, which include the three violations
that are recorded as findings.

| configuration | property | the document |
|---|---|---|
| `MCAssignment.cfg` (`MCParser`) | `AssignmentIsRightAssociative` | `doc/expressions.md:11` |
| `MCForwardDeclaration.cfg` (`MCParser`) | `FunctionsCanBeForwardDeclared` | `doc/declarations-and-modules.md:110` |
| `MCSemanticDriverUses.cfg` | `UseIsIdempotent` | `doc/declarations-and-modules.md:21`, `semantic.c:1180` |
| `MCSemanticDriverConflicts.cfg` | `ConflictsRaiseErrors` | `doc/declarations-and-modules.md:139` |
| `MCSemanticDriverNames.cfg` | `NamesAreUsedOnce` | `doc/declarations-and-modules.md:132` |
| `MCSemanticDriverAliases.cfg` | `AliasesAreErrors` | `doc/declarations-and-modules.md:19` |
| `MCEveryPathReturns.cfg` (`MCControlFlow`) | `EveryPathReturns` | `doc/statements.md:52`, `:90` |
| `MCOperandsSlices.cfg` (`MCOperands`) | `SlicesBecomePointers` | `doc/types.md:129` |

`KeyIdentifiesArguments` of `Specialization` (`include/semantic.h:86`) is stated in its module only.

### Bounds, and why they are enough

- `preprocessor`: all sources of up to 5 lines over all kinds and outcomes. Five lines hold two
  nested groups with an `#@or` and text, and every pair of directives next to each other; the
  handlers look at the top two frames only.
- `parser`: as the value of a `val`, all sequences of up to four of six lexemes, every pair of binary
  operators, and every unary operator before every binary one: each pair of levels meets in each
  order, and the climbing compares two levels at a time. Eleven declarations that use every
  construct, each with any one lexeme missing or replaced by one that matters for recovery
  (a keyword, `;`, a bracket, a directive, an error token); four of them with a declaration after.
  Conditions: all sequences of up to three lexemes, and every two operators with and without brackets,
  with `!` before either, and cut short. One text declares a function first and defines it then.
- `modules`: five paths for four modules: chains, diamonds, self-use, cycles of two and three,
  a module under two names, unloadable ones; `StackLimit` above the number of modules. The table
  starts with one chain, so that it is resized three times, and with hashes that collide in one
  table and not in the next.
- `semantic_driver`: entry file and three modules in all orders, one of them (`b`) the target's; declarations private, public,
  repeated, types, methods; use statements plain, aliased, repeated and conflicting; at most one of
  passes B and C fails, in the entry file or a module. An import looks at two units at a time and
  never further, so a chain of three shows what can pass through one in between.
- `type_layout`: three named types as struct, union or alias, in one or two units in four orders,
  with up to three fields of sizes 1, 4, 16 and arrays. Layout looks at one field at a time and at
  the size of its type; the orders decide whether that is known.
- `specialization`: one generic type, two generic functions that may call each other or themselves
  with their own parameter, with a pointer to it, or with the other's; one or two requests from
  outside. `StackLimit` is above the depth any regular program of these needs.
- `control_flow`: all bodies of up to four tokens, of five with plain conditions, and of six in functions
  with a result, without inner blocks and statements that emit nothing (`Bound` in `MCControlFlow`). Six
  tokens hold two statements that open a body, nested or one after the other, with statements
  between or a branch: the code looks at one frame and the two fields of the context, so that what can
  go wrong between an inner statement and the outer one it stands in happens with two.
- `operands`: expressions of up to six nodes over locals, results, fields and parameters of one struct,
  integers of different width and signedness, pointers and slices. A form is confused by at most
  three operations in a row (an address, what is computed from it, what is read through it); six
  nodes hold two such operands under a binary operation or a store. Indexes are checked with bytes of
  4 patterns instead of 256 (`Half`), at all values where a width or a sign changes; nothing in the
  check depends on the size of a byte.
- `compilation`: two builds, three modules, two of them with one object file, programs with any of
  them, with and without code. Two builds are what it takes for an old object to be mistaken.

Deadlock checking is off where the model describes runs that end; `ControlFlow` and `Operands` stutter
explicitly when they are finished, and are checked for deadlock: every body and every operand gets on.

## 4. Fairness

The compiler is one thread that runs until it returns, so weak fairness of the whole next-state
relation is what the operating system gives; no choice between actions is made fair. In
`ModuleManager` this is the fairness of `ManagerNext`, loader and table together. `Preprocessor`,
`TypeLayout`, `Compilation`, `ControlFlow` and `Operands` state safety only. Termination of loading is claimed
for programs without import cycles, that of specialization for regular programs, and that of the
parser for files in which it does not look for the `>` of a `<` that is never closed
(`LooksForever`), because the code ends for no others.

## 5. What is proved

TLAPS checks these for all values of the constants, from the `ASSUME`s of the module alone. These
state what the code gets from elsewhere: programs are well-formed values, the modules of a program
are finitely many, loading has left no cycle, an alias has one target, names have one declaration per
pass-A check, `Expand` and `Hash` are functions; types, generics and type constructors are told apart, and
no signature calls a function. The module of the target is any module, or none of the program's.

**`PreprocessorProofs`.** `TypeOK`; `FramesSummarise`, which is inductive as it stands: an `#@or`
overwrites the top frame, and the summary of a frame depends only on the conditions of its own
group and those below (`SummaryIsLocal`). `ErrorLine`, from the fact that the line number is one
more than the lines read until the scan stops. `ImplementsConditionalText` follows: since the flag
is the summary of all groups, keeping a line under the flag is keeping it under the selection.

The other three properties define what they promise over the lines of the source, without frames.
The invariant `Following` ties the two together: there is an `opener` for each open frame, the frames
are exactly the conditionals of the source that are open after the last line, outermost first, and
the conditions of a frame are those of its branches (`Follows`, `Level`). Each handler keeps it, an
`#@end` because the innermost open conditional is the one with no other one within it. Then
the flag is `SelectedIn` for the next line, which gives `KeepsSelectedText`; a directive is refused
exactly when it is badly placed in the source, which with "an open frame means an open conditional"
gives `SucceedsOnWellFormed`; and `PreservesLineNumbers` follows from `Placed`: every text in the
output has as many line ends before it as its line has lines before it, because a directive, a
dropped line and a kept line each write one.

**`ModuleManagerProofs`**, first for the loader alone. The invariant `IInv` says that loaded modules are needed and loadable,
that each use statement of a loaded module leads to a loaded module, or is yet to be followed by a
call on the stack, or a failure was recorded, and that errors name needed, unloadable modules.
`FollowsUses` is what makes it inductive: it accounts for every use that has not been followed. It
gives `LoadsOnlyNeeded`, `LoadsAllNeeded`, `FailsForACause` and `CircularNeverReported` for every
import graph, cycles included. `LoadedIsAcyclic` needs a second invariant, `CyclesChased`, about
every set of modules in which each module uses another one of the set: while no failure is recorded,
a loaded module of the set implies an active call for one, and a call that has followed a use inside
the set has a call for the set above it. The stack then never empties with such a set loaded.

Then for the table. Its invariant says that each module is in the chain of its
hash, in one place only, that old chains before the current one are empty, that there is room for the
module that waits, and that `count` counts. `Findable`, `OneHome`, `LoadFactor` follow, and
`ImplementsModuleSet`: moving a module between chains leaves the set alone, because it leaves one as it
enters the other. For the loader on the table, every step is shown to be a step of the loader alone or
to leave it as it is (`ManagerImplementsLoader`), and the same for the table (`ManagerImplementsTable`);
so the theorems about each hold of the two together (`ManagerLoadsAllNeeded`, `ManagerOneHome` and so
on). What joins them is `Joined`: the table stores what the loader has loaded, and while the table is
resized the module that waits is the one the loader is about to load. It gives `TableAnswersLoader`:
asking the table, even between two halves of a resize, is asking the loader's own set.

**`SemanticDriverProofs`.** For any finite set of modules, any declarations and use statements, and
every order of the modules. `TypesAndSymbols` says what a symbol of a scope is: an own declaration,
a namespace for an alias, or a copy of a public declaration of the module it comes from, never of
one at second hand (`SymbolOf`); it gives `ImportsAreExports`, in the middle of an import too, where
`pending` is the scope of a module that may itself hold imports. `Established` says what each phase has
done up to where it is: in pass A a scope mirrors the declarations in reverse order (`Mirrors`); after
the use statements before the k-th, every name of the scope means what the source says of it and every
name that the source gives a meaning is there (`Sound`, `Complete`), and an imported name has one symbol
(`Single`); in the middle of a use statement every exported declaration is still pending, taken over, or
left to a symbol that was there before (`NoneLost`). The order of the modules does not matter, since
what a module exports is its own declarations, which pass A has finished for all units. Last,
`Failing` says that a phase fails only for a unit in which a statement breaks the code's own rules
(`DeclAccepted`, `UseAccepted`) or a pass fails, and `Deciding` that all units were found to keep them when
the verdict is "accepted" (`VerdictDecided`). What is `Refused` in the source breaks these rules, and what
breaks them is `Refused` or `Disputed` (`DeclJudged`, `UseJudged`). `LinkingStable` says that nothing but the
end of pass C marks a module that was not marked at load. `NamesFollowSource`, `VerdictFollowsSource` and
`LinkingFollowsPhases` follow.

**`TypeLayoutProofs`.** `TypeOK`, and an invariant on the type under construction (`end` is past
all its fields, `maxAlign` at least every settled alignment) and on complete types. It gives
`FieldsDisjoint` and `SizesRounded`; with "a complete type's size and alignment do not change again"
(no type comes twice in the order) also `SettledFieldsExact`, stated for the type under construction
as well (`SettledSoFar`). `NoWastedSpace` needs also that `end` is where the last field ends
(`EndIsLast`) and that rounding up to 1, 2, 4 or 8 gives the least multiple that is large enough.

**`OperandsProofs`.** For expressions of any size over all types in scope. The invariant speaks of one
operand at a time: what its form tells of the instruction that made it (`Formed`), that outside the
confusing forms `holds` is what `codegen_load_if_needed` takes it for, and that an exact value is as wide as its
type (`Faithful`); a dereference says so of its operand too (`Sound`). A load keeps it (`LoadIsLoaded`),
and each operation asks no more of its operands than that. It gives `PlainExpressionsDenote` and
`WidthOfType`. A store hands on the words of a slice exactly when it stores one for a pointer (`StoredIs`),
and a conversion of an exact value to an integer neither extends nor cuts more bits than there are
(`ConvertsExact`); with these `InvalidForCause` is by cases on what the verifier refuses for an operation
that pass C accepts. `SignedIndexIsInside` is arithmetic on the bit patterns of a byte (`Half` is any positive number):
the sign extension of a negative index is larger than any length.

**`ControlFlowProofs`.** For bodies of any length and nesting. The invariant says of each active
`codegen_stmt_if` and `codegen_stmt_for` which blocks it still waits for: they exist, are different
from each other and from the builder's block, and are empty, and while an else block is generated the
next frame's else block is too (`Builder`, `ElseEmpty`). Then the else block of the last branch of a chain
is empty when its end is reached and falls through, which is `MergeIsReached`. `Context0` and
`LoopContext` say that the two fields of the context are those of the innermost frame of a loop, and
that each such frame has saved those of the next one; a failed loop condition leaves them wrong, but
has reported an error. `Executes` says that the run of verified code always stands at an
instruction; it needs `Valid` and that branches go to blocks that exist. `TypeCorrect` is the type
invariant.

`LoopContextIsInnermost` speaks of the loops of the *text*, so frames have to be tied to it: `Nested` says
that each frame stands for a statement that is open where the builder reads (`open`), one body further
out than the next frame, that an `if` and the chain of its `or`s share one, that frames above
the first `L` wait in an else side of an `if` that is at its end, and that no loop around the position is
missing. How many bodies are open between two positions is `Depth`, a difference of two counts that
changes by one at an opener and at an `end` (`DepthStep`); that the first `end` at which it falls below 0
closes the statement is `ClosingFacts`. Frames of loops and loops of the text are then in bijection
(`SameLoops`).

`VerdictFollowsBody` compares what LLVM's verifier finds in the blocks with what the text says, so `Judged`
carries both along the tokens read. The builder's block is terminated exactly when the text before the
position has just ended the flow (`Ended`); a terminator stands inside a block exactly when a
statement followed one that ends the flow (`Dead`), and since instructions are only ever appended this
is settled when it is emitted; and no token so far is one that `codegen_stmt` reports (`Bad`). Each block
that is not the builder's is terminated or a frame still waits for it (`Sealed`), so at the end none is
left open. A `brk` or `cnt` is reported exactly outside the loops of the text because the two fields are 0
exactly there, which takes `Nested` again (`NoContext`). That neither a returned value
nor any other statement makes a malformed block is what remains of the cases. `Judged` decides the verdict
exactly; the property leaves out the bodies with a path that lacks its `ret`, which the code accepts.

**`CompilationProofs`.** The invariant follows the stages: the modules marked for linking stay those
of the program (`Marked`); none has a path before the loop over the modules, and the loop's `rest`
with `compiled` covers the program (`Fresh`, `Covered`); each compiled module's object path holds an
object of this build (`ObjectsWritten`, in which a later module may have overwritten it, since paths
are not one-to-one). `SuccessMeansObjects` and the refinement `ImplementsBuilds` follow: the code
that `Link` collects is one whole object per path (`LinkedIsWhole`).

**`SpecializationProofs`.** For any generics, any programs, recursive or not, and any room on the stack. Three
invariants, each the next one's support.

`Core` holds whatever the program. `Types` says how every Type object was built and which ones the
program can still name (`Live`): declared, of an instance in the cache, or wrapped around one of
these. An instance that was given up leaves a Type object that nothing names, so `Unique` speaks of
live types only: two of them with one shape, arrays aside, are one object. `Stacked` says that each
instantiation under way is what the one below it asks for. `Keys` says that no two entries of the
cache have one key; its hard case is an instantiation that, on the way to its own end, comes to ask
for its own key again, before the cache has it. It would be entered twice, but it never ends
(`NoCycle`): an instance enters the cache only after one of every generic that its signature asks for
(`Ordered`), so of the entries of the generics on such a cycle each would have another one before it.
`SpecialisedOnce` follows.

`Sound` is about programs without a diagnosed error. No call has then returned NULL and every frame
is `ok` (`Waits`): the requests before the current one are answered, the last instance is the one
that the last type request asked for (`Faithful`), and each frame is the instantiation of what the
frame below asks for (`Requests`). And every entry of the cache has what its signature and body ask
for, or its body is still under way (`Complete`). What a request asks for is told by the names in the
source (`Asked`), not by Type objects; that the two agree up to the length of arrays is
`MeansWhatItSays`. At the end of pass C the only frame is that of the code around the generics, so
nothing is under way: `CacheClosed`, and with "no entry is freed", `FreedNeverGenerated`. `Generated`
says that code generation leaves all this alone and has given each name it came to one body, which is
`OneBodyPerName`.

**Only model-checked**:

- all liveness (`AcyclicTerminates`, `Terminates`, `RegularEnds`, `EveryParseEnds`), which is out of the
  prover's reach;
- `Parser` and `ConditionExpr`, whose definitions are recursive operators, for which the prover has no
  arithmetic: `NamesNextStatement`, `ParsesExpressions`, `RecoversAtNext`, `ConditionsReadAsExpressions`;
- `FollowsSource` of `ControlFlow`: its invariant would tie every position of the text to a place in the
  blocks that survives the end of generation, for each run of the two sides. `Judged` does that for
  terminators only.

Where a proof goes by induction over the elements of a sequence or over numbers, it takes the least
number with a property (`LeastNumber`, from the well-foundedness of inclusion on finite sets).

## 6. Behaviours met while modelling

Three disagree with the documentation and are recorded as findings, each with the run that shows it:

- Fields whose type is a struct of an imported module are laid out with size 0
  (`doc/declarations-and-modules.md:140`).
- A condition that is a bare name tests the address of the variable: `if (x)` and `for (x)` always enter
  (`codegen.c:1775`, `:1865`; `doc/statements.md:62`, `doc/expressions.md:49`).
- An unsigned index of 8, 16 or 32 bits with its top bit set passes the bounds check of a slice that is
  long enough and addresses memory before it (`codegen.c:3350`, `:3370`;
  `doc/intrinsics-and-runtime.md:97`).

More disagree with a document or a comment. Most have a property that says what the document says (the
table of kept counterexamples in section 3):

- `a = b = c` is parsed as `(a = b) = c` (`parser.c:2266-2310`), which pass C then rejects, since `a = b` is no
  lvalue; `doc/expressions.md:11` has `=` associate to the right.
- A function without a body is a syntax error (`parser.c:1655`); `doc/declarations-and-modules.md:110` has it
  declare the function, with the body to follow.
- A second `use` of a module that exports anything fails (`semantic.c:1180`);
  `doc/declarations-and-modules.md:21` and the comment there call it idempotent.
- An imported name that the importer has already is dropped without a diagnostic; `:139` has conflicts
  raise errors.
- A method may have the name of anything declared before it in its unit; `:132` has one name per scope.
- `use a:b` imports the module `b` under the name `a`; `:19` has it emit an error.
- A function with a return type that ends without `ret` returns zero; `doc/statements.md:52` and `:90` have
  the analyzer check that all paths return.
- A slice assigned to a pointer is stored with both words, 16 bytes into an object of 8, and the value of
  the assignment is the pair, so that `ret (p = s)`, `@(p = s)` and the like fail in the verifier;
  `doc/types.md:129` has slices become pointers where one is expected, `doc/expressions.md:61` has them not
  do so implicitly.
- The cache answers a request for `[2]T` with the instance for `[3]T` when their addresses share a
  bucket; the comment at `include/semantic.h:86` has a key identify one tuple of arguments
  (`KeyIdentifiesArguments`).
- `brk` and `cnt` outside a loop are found by code generation; `doc/statements.md:68` has the analyzer do
  it. The verdict is the same.

Others are in the models as the code has them:

- An import cycle recurses until the stack ends: `enqueue_module` follows the uses of modules that
  are loaded already, and the check for circular dependencies runs too early to see one.
  `doc/intrinsics-and-runtime.md:77` calls cycles unsupported.
- A generic that asks for itself with a larger type recurses without limit; the limit at
  `semantic.c:2695` guards a queue to which nothing is added.
- Type parameters stay bound in the instances made within an instance, so that a name can resolve in
  a generic to a parameter of its caller.
- An alias keeps size and alignment 0; `doc/types.md:121` says it mirrors its target.
- Instances for `[2]T` and `[3]T` share a link name.
- Without a readable `mach.toml` the modules are not compiled and the executable is linked from the
  entry file alone.
- Modules `dep.x` and `x` share an object file.
- After `fun f` or a method's name, a `<` that is never closed makes the parser look ahead forever.
- `a < b && c > (d)` is taken for a generic call, because the lookahead only counts `<` and `>`.
  The scan also passes over the character after an inner `>`, and `>>` never closes two.
- A `#@symbol` within a block, or at its end, names the next `val`, `var` or `fun` in the order of
  the text, be it in the block or after it; one at the end of the file, or with another one after
  it, is lost without an error.
- After an error, synchronization stops at keywords but not at `pub`, so the declaration it precedes
  is parsed as private.
- The asm statement keeps the position of a token that is freed already.
- `strtoull` and `strtod` read the literals `1_000` and `0b11`, which the lexer accepts, as 1 and, in C
  libraries before C23, 0.
- `parser_parse_struct_literal` and `parser_parse_parameter_list` are not called by anything.
- A statement after a `ret`, `brk` or `cnt` in the same block makes malformed blocks: the program is
  rejected by LLVM's verifier, with a message about the generated code. That includes `ret; var x: i32;`,
  for the zero that is stored.
- A loop whose condition has no truth value leaves its own blocks in the context of the loop around it.
- Expressions whose value or address is guessed wrong (`plain` excludes them): `@s.p`, `@a[i]` and
  `@s.p = v`, where the pointer is not loaded from its field or element; `?@p`, whose address is
  loaded again by what uses it; `(p + 1)->f`, `(?x)->f` and `(q = ?x)->f`, where an address counts as a
  pointer in memory; a pointer field of the result of a call; `.len` and `.data` through a pointer to
  a slice, and indexing through one, which steps by whole slices.
- Stores convert nothing: a narrower variable gets the bytes of a wider value and those beside it are
  overwritten; `doc/types.md:128` allows widening only. `WidthOfType` excepts such stores.
- A fixed array is laid out as its elements, one after the other; `doc/types.md:40-42` describes every array as
  a pointer and a length, 16 bytes.
- A comparison leaves one bit for a `u8`: as an argument for a `u8` parameter, or in
  `(a < b) + (c < d)` with a `u8`, or converted to `u8` when `a` and `b` are of 32 bits, it fails in the verifier; compared with a `u8`, the other side is cut to
  one bit; added to a pointer, or as an index, true counts as -1. An unsigned offset with its top bit
  set moves a pointer backwards.
- A shift widens its left operand to the type of its right one and keeps its type.
- `ret` extends signed values with zeros.
- `&&` and `||` evaluate both operands; `!` and unary `+` have a type and no code, `~` code and no type;
  an integer on the left of a pointer, and a difference of pointers, are accepted and fail in the
  verifier; indexing a pointer is rejected, although `doc/expressions.md` has it.
- The rules of `type_can_cast_to` are not those of `analyze_cast_expr`, which does not ask it.
- In `#@if`, a name that is no constant is 0, and an error to the right of `||` or `&&` counts even
  where the left operand decides.
- The file of a module and its platform file are preprocessed as one text; messages about the second
  count its lines on from the first.

## 7. What is not modelled

- *The lexer, the scanner of conditions, the configuration reader*: characters and numbers; the
  evaluator of conditions and the parser start from tokens.
- *Pass C*, beyond `ControlFlow` and `Operands`: floats, composite and array literals, methods,
  intrinsics, variadic calls and the inference of type arguments; block scopes. A unit's outcome is
  an input of `SemanticDriver`.
- *Type relations*, beyond integers, pointers, slices and one struct: functions, unions, aliases, fixed arrays.
- *Code generation*, beyond those two modules and the order of instances: globals and the folding of
  their initial values, floats, literals of composites, variadic and intrinsic calls, inline
  assembly, debug information. LLVM itself is external: what a block, a branch, a load, an extension
  and the verifier do is taken from its documentation of the calls the code makes.
- *The AST* (`ast.c`): constructors and destructors. `Parser` knows the nodes of a statement and
  their order; names, values and positions in nodes are left out, and allocation failures too.
- *Files and commands*: input and output.
- *Memory*: allocation failures only where the code handles them as outcomes (the preprocessor).
- *Generic types' layout, several type parameters, several units with generics* in `Specialization`.

## 8. Plan

In order of importance; the first fourteen are done.

1. `Preprocessor` against `ConditionalText`, with proofs.
2. `ModuleLoader`, `SemanticDriver`: the front end's control. Proofs for the loader.
3. `TypeLayout` with proofs.
4. `Specialization`.
5. `ModuleTable` against `ModuleSet` with proofs; `Compilation` against `Builds`.
6. `CompilationProofs`: `SuccessMeansObjects` and the refinement.
7. `MachGrammar` and `Parser`: precedence climbing, panic mode, `synchronize`, `#@symbol`.
8. `ControlFlow` with proofs: statements, blocks and the run of the code beside that of the source.
9. `Operands`: types and values of expressions, bounds checks, what the verifier finds.
10. `ModuleManager`: the loader on the table. `ConditionExpr`: the evaluator of conditions against the parser's trees.
11. `ModuleManagerProofs`, `OperandsProofs`, `SemanticDriverProofs`; the properties of `Preprocessor` over its
    source; `NoWastedSpace`.
12. `LoopContextIsInnermost`, from `LoopContext` and the correspondence of frames and text.
13. `SpecializationProofs`: `SpecialisedOnce` from the uniqueness of live types and the order of the cache,
    `CacheClosed`, `FreedNeverGenerated` and `OneBodyPerName` from what an error-free analysis has answered.
14. `VerdictFollowsBody`, from what the blocks tell of the tokens read (`Judged`).
15. `FollowsSource`: a simulation of the run of the source by the run of the blocks.
16. `Lexer`: tokens and the values of literals. `ProjectConfig`: sections and canonical names, against
    the assumption `Expand`.
