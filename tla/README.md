# py4: formal models, checks and proofs

py4 translates a statically typed Python-like language (`.p4`) to one C11 file,
compiles it with gcc and runs it. The translator (`src/transpiler/`) is a
sequential C program; the C it writes contains a small runtime for
reference-counted lists and dicts. The risk is not concurrency: it is long legal
sequences of statements, early exits, recursion and re-entrancy in which a
retain, a release, an import or a dedent is done once too often or not at all.
The models here are about those.

Contents: [inventory](#inventory), [modules](#modules-and-code),
[runs](#runs), [fairness](#fairness), [proofs](#proofs),
[findings](#findings), [not modelled](#what-is-not-modelled),
[plan](#plan).

## Inventory

The translator is a pipeline; each stage hands a data structure to the next and
no stage calls back into an earlier one, except that the module loader runs the
lexer and the parser once per imported file.

| Component (source) | State | Operations | Interaction | What makes it correct |
|---|---|---|---|---|
| Driver (`main.c`) | temporary C file, child process, options | compile, run, emit C, run the tests of a directory | calls the loader, the analysis and the generator, then gcc and the program | the generated file is kept exactly when it should be; exit codes are passed on; the outputs of two tests do not collide |
| Lexer (`frontend/lexer.c`) | indentation stack, token array | one line at a time, end of file | tokens to the parser | INDENT and DEDENT mirror the lines; a dedent to no open column is refused |
| Token stream (`frontend/token.c`) | tokens, cursor | get, peek, expect, set back | shared by all parser rules | end of file is sticky |
| Parser (`frontend/parse.c`, `parse_expr.c`) | recursion stack | one function per grammar rule | swallows layout tokens inside brackets, which the lexer does not know | every statement ends up in the suite its indentation shows |
| Module loader (`frontend/module_loader.c`) | visited paths, list of modules, emission root, recursion stack | `load_file`, `import_module_symbol`, alias wrappers | parses each file; the emission root goes to the analysis | each path once, also in cycles; exactly the imported definitions, in an order that respects the imports |
| Analysis passes (`semantic/semantic_analysis.c`) | scopes, functions, globals | collect aliases, classes, functions, globals; check bodies; returns; match exhaustiveness | fills the tables the generator reads | no path without a return; every match complete; bindings known when used |
| Symbols (`semantic/semantic_symbols.c`) | tables of functions, methods, import bindings, variables | bind, find, find overloads | used by all checks | redeclaration refused where C would not accept it |
| Types (`semantic/semantic_types.c`) | interned tables of lists, tuples, dicts, unions, optionals, classes, enums | intern, assignable, common type, member, narrow | type ids are indices into these tables | assignability is an order that the generated conversions respect; interning is unique |
| Resolution (`semantic/semantic_resolve.c`, `semantic_expr.c`) | none of its own | overload choice, member and call resolution | results stored per AST node for the generator | the chosen overload is the one that is called |
| Statement generator (`codegen/codegen_statements.c`) | output, loop ids | assignments, loops, with, match, return | asks the cleanup scopes for releases | evaluation before release before store; a loop keeps its iterable alive |
| Cleanup scopes (`codegen/codegen_expr.c`, `codegen_functions.c`) | managed locals, scope starts | register, push, pop, emit releases | every suite, return, break and continue | on every path every local is released at most once |
| Expression generator (`codegen/codegen_expr.c`) | numbered temporaries | hoist owned operands, retain borrowed ones | writes temporaries before the statement | each owned value has one releaser, evaluation order is the source's |
| List runtime (`codegen/codegen_runtime.c`, in the output) | refcount, length, capacity, items per list | new, incref, decref, append, get, set, pop, clear, from_values | decref recurses through elements | counts are exact, nothing reachable is freed |
| Dict runtime (same) | refcount, keys, values per dict | get, set, pop, copy, clear, loops by index | owns key copies, retains values | an insertion-ordered map with unique keys; every key copy owned once |
| Records (`codegen/codegen_types.c`) | marks of the dependency search | struct definitions, retain and release per type | generated for each class, tuple, optional, union | definitions before use; retain and release visit the same fields |
| Names (`codegen/codegen_list.c`) | ring of sixteen static buffers | name of a runtime function of a type | used while printing calls | a name is not reused while it is held |
| Native modules (`codegen/native/`) | none kept between calls | json, http, io, strings, math, chars | fixed C text around libc, libcurl, cJSON | errors end the program with a message |

Hard behaviours, in the order in which they matter:

* **Ownership across early exits**: releases are written at the end of each
  suite, before each return and behind the labels break and continue jump to;
  nothing ties the copies together.
* **Re-entrancy by recursion**: releasing a list can release its elements, which
  can be lists that contain it, while `clear` or `set` is in the middle of an
  update.
* **Aliasing**: a loop, an argument and a local can name the same list or dict;
  the loop body may reassign the local or change the container.
* **Import cycles**, and the two meanings of "visited".
* **Two counters of depth**: the lexer's stack and the parser's recursion.
* Limits: 16 name buffers, fixed indentation levels, loop counters near
  `INT_MAX`. There are no threads, no persistence and no timeouts; the driver is the
  only part whose steps can fail one by one (files, child processes).
* **Two evaluation orders**: the language's, and that of the C expression plus the
  statements written before it.
* **Types as numbers**: bit sets, and places in seven tables.

Every hazard is listed in `PROJECT.json` with its line and the properties that
would catch it.

## Modules and code

`PROJECT.json` ("map") gives the lines behind each definition.

**`ListRuntime`** is the list runtime of `codegen_emit_list_runtime` with the code
`codegen_statements.c` writes around each use. State: the heap (`rc`, `mem`,
`items`), the activations of the recursive decref (`stack`, `cursor`), the
locals (`var`), the statement being executed (`pc` and its temporaries) and one
for loop. One action is one statement's evaluation, or one iteration of a
runtime loop; decref's recursion takes a step per element, so every place where
a release can run in the middle of an update is a state. Elements are themselves
managed, which is the general case (`class Node: kids: list[Node]`). `lost`
counts references the emitted code abandons: an owned value passed inline, as in
`xs.append(ys[0])`, is retained by `get` and never released.

**`ManagedLists`** is what a programmer may assume: lists that locals and other
lists refer to, never freed. **`ListRefinement`** maps the runtime to it.

**`CleanupScopes`** has two halves: the generator walks every function body up to
a bound, and then the generated code runs with every outcome of its tests.
State of the first half: `managed_locals`, `cleanup_scope_starts`, the loop ids
and the emitted code; of the second: program counter, one count per local, the
loop action variable. The C rule that a name denotes the innermost declaration
is part of the model; this is what the shadowing finding is about.

**`ModuleLoader`** executes imports as the loader does, on every small source
tree: `body` is written when a file is first parsed, so a behaviour chooses the
tree. `stack` holds the activations of `load_file` and `import_module_symbol`.
The loader knows files by their paths as `resolve_import_path` spells them, and
compares the spellings; `FileOf` says which file a spelling opens. `visited`,
`body` and `modules` therefore go by path, and a file that has two spellings is
parsed twice, with the same text. `Exports` is the test of statement kinds in
`top_level_symbol_name`.

**`DictRuntime`** is the dict runtime with values of a managed type: parallel
arrays of key copies and values, and a for loop by index. No function of it
calls back, so a call is one step, except where a value is released before
another is used. **`OrderedMaps`** is the abstract map, **`DictRefinement`** the
mapping.

**`Layout`** joins the lexer's indentation stack to the parser's suites. A file is
a sequence of lines (column and kind); the lexer hands over one line at a time,
which yields the token stream it would have written in advance. The reference
(`Owner`, `Before`, `WellFormed`) reads the structure off the columns alone.

**`Records`** takes class declarations from the registration of names to the C
structs: `semantic_define_class_fields`, `collect_methods`,
`synthesize_inherited_methods`, `codegen_emit_struct_declarations` and the json
support checks. All are recursive walks over a graph the program draws (bases,
components of types), so there is one stack, `done` for the marks of the pass in
progress, and one action per call, descent, cycle and return. `prog` is the
program, chosen once, with the set of types that it mentions; the tables are `fields`,
`methods` (a set, since a class has one method of each name; wrappers of inherited
methods included), `structs` in the order of writing, `encoders`. The reference
(`Lineage`, `Held`, `Everything`, `Defect`) reads the program alone.

**`Names`** is `analyze_program` as far as it binds names. A program is given by its
emission root, the globals of all loaded files and the imports, and the body of one
function is chosen statement by statement; `global` is `global_scope`, `scopes` the
chain of `Scope` records from the function inwards, `functions` the list of
`FunctionInfo`. A scope's `owner` is its `function` field, which blocks do not have:
captures depend on it. `calls` keeps what C sees of the enclosing function's variables
where a nested function is called, because the C call passes captures by name.
`Meaning` and `Cheapest` are the references: import rules and a minimum, without scopes,
lists or flags.

**`Driver`** is `main.c`: options in order, the temporary C file from `mkstemp` to
`unlink`, `--emit-c`, the backend, and the runner of a directory of tests. The state is
the machine's files (what each holds, made from which source, complete or not); every
system call and child process may fail, and a part that calls `exit(1)` ends the driver
where it stands (`died`).

**`TypeTables`** registers the declarations of a program and then parses annotations,
as `semantic_parse_type_node` does, from the leaves upwards. A type carries its number,
and as history what it means and the words of its C names, so that the three can be
compared. `Assignable`, the limits of the tables and of the buffer for a tuple's name, and the
order of lookups are the code's.

**`Expressions`** has a translator, a machine and a reference. `Emit` maps a tree to a
prelude (C statements) and a C expression, case by case as `codegen_expr.c` and
`codegen_statements.c` do; the behaviour executes the C code of one statement over a
heap with reference counts, and `Operate` picks any operand of a C operation next, as C
does. The reference (`Runs`) evaluates the tree from left to right. Emission is a
function of the tree and therefore recursive, so this module is for TLC only.
`CleanupScopes` models suites with their exits and leaves expressions out; here suites
are single calls.

`MC*` modules give the constants for TLC, `*Proofs` modules hold the proofs.

## Runs

What a run checks on its instance is also proved for every value of the constants where
the section on proofs says so.

| Run | Shows | Bounds, and why they are enough |
|---|---|---|
| `list_refinement` | exact counts, no dangling pointer; the runtime implements `ManagedLists`; what stays allocated without being reachable hangs on a cycle or an abandoned reference; statements finish | 2 lists, so cycles of one and two; 2 locals: aliasing; 2 elements: one before and one after any index; one abandoned reference per list |
| `cleanup_scopes` | releases are sound on all paths, leaks have one of four named causes, the caller owns the result, no fall through | 4 statements over 2 names: declare, shadow, branch or loop, and leave it |
| `cleanup_shadowing` | violation, see findings | as above |
| `module_loader` | each path once, exact emission, order, errors with a cause, termination | three files under four paths: an entry with two spellings and 3 statements (of 5 kinds), and 2 files with 2: mutual and self imports, an entry that is loaded a second time, diamonds, an import before and after a from import, an enum beside a function of its name |
| `dict_refinement` | counts of dicts and values exact, nothing reachable freed, key copies owned once and keys unique; insertion-ordered maps; a loop that removes nothing visits every entry once, in order | 2 dicts (original and copy), 3 entries over 3 strings: an entry can be removed from the middle; 2 values; one local, which a loop over the old dict outlives when it is assigned; one abandoned reference |
| `layout` | accepted programs are parsed as indented, refusals are justified | 5 lines, 4 columns, 3 levels: two suites closed by one line, a wrong dedent, too deep a nesting, a bracket of one element in a suite |
| `records` | declarations are refused exactly for the defects they have (too many fields included), calls dispatch to the nearest declaration, structs are defined before use, json helpers exactly where they are supported, every pass ends | three classes declared in one order, with every graph of bases (a base declared later, chains and cycles included; a class that is its own base once), in four families of programs: clashing names; inheritance with fields `x`, `y`, `m` and methods `m`, `__p`; struct members by value and by pointer in optionals, tuples and lists, with two fields per class at most (`MaxFields`, so that the limit is met); json over classes, lists and supported or unsupported leaves |
| `json_support_check` | violation, see findings | four programs: a class whose field is an int or a list of its own kind, with and without a json call |
| `names` | a name denotes the global the import rules say, a call reaches the one cheapest function, captures can be passed | 19 programs over two modules: whole and from imports, alias, overloads, two nested functions, the function before and after the globals, homonyms, duplicates; bodies of 3 to 5 statements: declare, capture, redeclare in a block, call |
| `driver` | what file stays behind and is announced, what exit code 0 promises, which sources can be overwritten, a test's verdict is that of its own program | command lines of up to three words (each option with and without its value, before and after the input) and of four with `-o`; an input without extension, two inputs and two tests of one name in different directories; a failure at every call |
| `type_tables` | one number per type and one type per number, only annotations that are illegal or do not fit are refused, assignment keeps values in their types, C names differ | seventeen programs of one or two modules, tables of two places (one for enums), tuples of two elements, five steps of parsing: every shape is nested once, every table overflows; seven steps over `int` and `None`, and for unions of three types, ten for a class named `optional`; a class with a name of 62 letters, so that a tuple of two does not fit its buffer of 128 |
| `expressions` | calls happen in the order of the statement and as often, every object ends with the references that are held, nothing freed is used | about 3,600 statements: every operation over names, and over one representative operand per kind of code it can have (inline call, owned temporary, borrowed name, global), in every kind of statement; up to three operations deep; two rounds of a loop: a second evaluation of a condition shows |

The json programs of `records` are those whose classes do not reach themselves
through any container: the others are the finding.

Properties that hold under a condition name it: `GlobalMeaning` speaks of
names that no other emitted module has (finding), `CallMeaning` not of calls between
nested siblings, which the code does not resolve, nor of an aliased import whose
original name is also a function of the importing module, which makes both candidates;
`CapturesPassed` of calls after the definition outside blocks that declare the captured
name again: the C call would pass that one, and one before the declaration does not
compile in C. `LoopFaithful` speaks of loops
whose body does not remove entries of the dict (otherwise the loop's key is freed
memory), `AcceptedFaithful` of *hanging* brackets, the only form the
repository's programs use. A bracket closed at another column leaves an INDENT or
DEDENT over, and two of them can compensate: with six lines, `x = f([` at column
0, its `]` at column 1 and a second one the other way round, a statement is
parsed into the wrong suite without an error. `ReleasesSound` excludes shadowed
locals (finding) and releases behind a label that is reached by a jump before the
declaration: the C program jumps over the initialisation and releases a variable
whose value is indeterminate. `NoStray` excepts a generator that gives up,
`ExitTells` a write whose failure no call reports, `SourcesKept` paths given with `-o`
and inputs without `.p4` in the working directory. The properties of `TypeTables` leave out *odd* types
(another module's class or enum hides the name, or a native type is a member of a union), and
`NamesApart` tuples in tuples, names of several words, names that composed names use as a word
(`optional`, `py4`, `io`, `json`), and tuple or union parameters before the last.
`AssignableRight` is an equivalence, but for optionals: an optional takes itself, the type
inside and `None`, and is given to itself alone, so `float | None` does not take an
`int | None` whose every value would fit. `Resolved` calls an import justly refused if the
file defines the symbol as an enum only, which is what the code does (findings). In `Expressions` the exceptions are operators on the tree and its code:
`UsedAsWritten`, `OrderedAsWritten`, `Forgets` and `ReadBesideReset`; each stands for
behaviour the built compiler shows, listed below.

## Fairness

Generated programs and the translator are sequential: a statement that has
started runs to its end. `ListRuntime` therefore assumes weak fairness of the
steps inside a statement (`Runtime`) and none of the choice of statements;
`ModuleLoader` of `Next`, since the loader has nothing to wait for; `Records` of `Next` for the same reason. The other modules state safety
only.

## Proofs

Eight modules hold proofs that TLAPS checks for every value of the constants. The
assumptions are those named in the component's module, and say no more than that
the universe of addresses, files or names is finite where the proof counts, that
`NULL` is none of them and that bounds are numbers; the others are discussed below.

| Theorem | States |
|---|---|
| `ListRuntimeProofs!Inductive`, `Typing`, `Exactness`, `Safety` | `IInv`, `TypeOK`, `RefCountExact`, `NoDangling` of the list runtime |
| `ListRuntimeProofs!Refinement` | the list runtime implements `ManagedLists` (`ImplementsManagedLists`) |
| `ListRuntimeProofs!Garbage` | `GarbageIsExplained` |
| `DictRuntimeProofs!Inductive`, `Exactness`, `Safety`, `KeyOwnership`, `LoopVisitsInOrder` | `IInv`, `CountsExact`, `NoDangling`, `KeysOwnedOnce`, `LoopFaithful` of the dict runtime |
| `DictRuntimeProofs!Refinement` | the dict runtime implements `OrderedMaps` (`ImplementsOrderedMaps`) |
| `ModuleLoaderProofs!Inductive`, `OncePerPath`, `ErrorsHaveCauses`, `EmissionAsImported`, `EmissionInOrder` | `IInv`, `LoadedOnce`, `Resolved`, `EmissionExact`, `ImportsFirst` of the loader |
| `DriverProofs!Inductive`, `TemporaryFile`, `ExitCode`, `SourcesSafe`, `Verdicts` | `IInv`, `NoStray`, `ExitTells`, `SourcesKept`, `VerdictsOwn` of the driver |
| `CleanupScopesProofs!Inductive`, `ReleasesAreSound`, `LeaksAreExplained`, `ResultIsOwned`, `NeverFallsThrough` | `IInv`, `ReleasesSound`, `LeaksExplained`, `ResultOwned`, `NoFallThrough` of the generated cleanup code |
| `LayoutProofs!Inductive`, `Faithful`, `Justified` | `IInv`, `AcceptedFaithful`, `RejectedJustified` of the lexer and the parser of suites |
| `RecordsProofs!Inductive`, `Judged`, `Dispatched`, `StructsOrdered`, `Encoders` | `IInv`, `Verdict`, `Dispatch`, `DefinedBeforeUse`, `EncodersExact` of class declarations |
| `NamesProofs!Inductive`, `Globals`, `Meant`, `Passed` | `IInv`, `GlobalMeaning`, `CallMeaning`, `CapturesPassed` of name binding and overload resolution |

Each is `Spec => []Inv` (or `Spec => Abstract!Spec`), and each rests on an
invariant `IInv` that TLC checked before it was proved, and on one lemma per action
that says the action keeps it. `IInv` is stated at the end of the component's module, or, for
cleanup scopes, layout, names and records, where it needs operators that serve the proof alone, at the top of the proof module.

**List runtime.** `RefCountExact` alone is not inductive. That a decrement finds a positive count
needs that every pointer which will be released is counted; that a freed list has
no pointers to it needs that it is freed only at zero and that the list under
release is not visited again. `IInv` adds `Lifecycle` (a list is live while its
count is positive, dying while exactly one activation of decref works on it),
`Contents` (only the loops of decref and clear leave released elements in place,
and only behind their cursor) and `Statements` (which temporaries exist at each
point of a statement, and which local keeps the list under `set` or `clear`
alive). The proof counts: references are cardinalities of the sets of locals and
slots that hold an address, and lemmas say how each kind of step changes them by
one (`SlotLost`, `SlotGained`, `VarLost`, `VarGained`, `IncEffect`,
`DropEffect`).

**Lists implement `ManagedLists`.** The mapping shows the abstract program the lists
that are live, with the elements a half-done statement will have when it ends. Every
step of the runtime is one abstract step or none; the hard part is that a list is
reclaimed only out of reach. `Reachable` is the least set that holds the roots and is closed
under elements, so it is enough to show one closed set without the freed list:
the live lists are one, because whatever is named or held by a live list is counted.
`Garbage` goes the other way: a live list that is not explained has a positive count, so another
list holds it, which is not explained either, leads to everything the first one leads to, and to
the first one, which does not lead to itself. An unexplained list that leads to most would be held by one
that leads to more.

**Dict runtime.** `CountsExact` needs to know which entry is half replaced: `Open(d, i)`
names the entry whose old value `set` has released before it stores the new one,
and `Statements` says that the entry and its dict still exist then. `Owned` says
that every key copy belongs to one entry, which is what makes `free` of a key in
`pop` and `clear` right; `Arrays`, that keys and values are parallel. `Visits`
relates the loop's counter to the keys at its dict, and survives an entry that the
body adds because entries are only appended.

**Dicts implement `OrderedMaps`.** The map of a dict is a function on its texts, which is
well defined by `KeysOwnedOnce`. Beside `IInv` the proof uses `InStep`, the relation of what the
runtime has done of a literal or of a loop to what the abstract program will do in one
step. A literal puts its keys one by one, the abstract `PutAll` all at once: `PutAll` is a
recursive function over `0 .. n`, and its existence, uniqueness and last step
are proved by a least counterexample (`Smallest`, from the well-foundedness of `<`).

**Module loader.** `IInv` describes the recursion: the stack is a path of imports, each
activation working for the statement its caller executed last (`Callers`); a path occurs
on it once, but for a selection on top (`Activations`); an import that was executed has its
file loaded and its name found, unless its selection is under way (`Executed`).
`LoadedOnce`'s bound on the depth is the pigeonhole principle on the paths of the stack, and a file is recorded once for each
of its spellings because each path is (`RecordsOfFile`). Below, a file is what is parsed under one path.
`EmissionExact` needs an account while loading is under way (`Emission`): for each file, whether it is
being copied whole (`Origin`: decided by what reached it first), and that the copies of each symbol are those of the
definitions passed so far, if whole, and of the from imports served so far (`Balanced`). The
lemmas say how one step changes each of the cardinalities. `ImportsFirst` follows from `Order`:
a file no from import names is copied in the order it is written (`InTurn`), and an import that is
done left its file complete, unless it came back to a file on the stack; since the stack is a
path of imports, that file then imports the importing one (`Settled`), so what has been emitted
so far is in order (`Ordered`).

**Driver.** The invariant says, stage by stage, which file holds what (`TempKnown`,
`TestFiles`, `Untouched`) and which options lead to which stage. Two assumptions are
about names of files: `mkstemp` returns a name that is no file of the user, and no source file of the
tests lies in `/tmp/py4-tests` under the names the runner writes there. `SourcesKept` and
`VerdictsOwn` are false without them.

**Cleanup scopes.** No emitted code runs while it grows, so the invariant speaks of code that
is complete up to here. `Shape` says how the generator's suites, scopes, loops and jump targets fit
together. The rest says that the code can be annotated: with the set of locals that hold
a reference at each instruction (`Held`), and with the instructions that control
reaches (`Reached`). `Edge` and `Arrives` say how the annotations agree along each step from
one instruction to the next; `HeldInside` and `ReachedInside`, what they are where a suite is
still open: a suite that is closed leaves held what was held before it, and what follows a suite is
reached unless the generator has counted it as returned (`Dead`). A `break` or `continue` may
bring fewer locals than the label expects, which `Brings` allows for. Once the function runs, its program counter is a reached
instruction and its counts are those annotated there, but for locals released by a hidden name and for releases that
a jump passed the declaration of (`Counts`); `ReleasesSound`, `LeaksExplained` and `ResultOwned` follow from the
counts, `NoFallThrough` from the reached instructions alone.

**Layout.** `ReadsInv` is about the lexer: its stack of columns is strictly increasing, each
column on it is that of a line whose suite nothing has closed since, and the tokens that remain are what is left of the
last line's. Parsing lags behind the lines, so the invariant has a state for a parser
that has not yet met its error: `Doomed` says that the tokens in front of it force a
`ParseError`. While the brackets hang as the repository's do and the parser is not
doomed, `CoreInv` relates the two sides: the open suites are as many as the columns still to be closed
(`Levels + Dedents`), the header of each is the line that owns it by its column (`Owners`,
`Heads`), the tree built so far is the one columns prescribe (`TreeOK`), and a clause continues the
suite closed last (`LastOK`, `NewestOK`). `AcceptedFaithful` is `CoreInv` at the end of the file. For
`RejectedJustified` each error needs a fault in the program (`DoomInv`: a well-formed program
never dooms the parser); that a rejection for depth has as many nested columns as it says is the
pigeonhole principle on the open columns, and an indentation that fits no open column has
no place in a well-formed program.

**Records.** Each pass is a walk over a graph, and the reference says what is reachable there by
at least one step: `Reached` adds one layer after another, as many as there are
nodes. `ReachedIs` shows by the pigeonhole principle that this many suffice, so that `Reached` is the least set
that holds the successors and is closed under them; all later proofs use it that way. `IInv` has a part for each table.
`FieldsLaid`: a class that is done is not above itself, and its fields are those declared above it, by a bijection
(`Lists`), in which the ones of its base lead. `MethodLists`: an entry of a class is its own or a wrapper of
one of its base, and a class that is done has all of both. `Written` and `Answered`: the structs are in order, and
each class that has been asked about has its answer. `Nested` relates the calls that have not returned: each is about a part,
at some depth, of those below it on the stack, each child that a frame has passed is dealt with or is the call
above, and where the code marks what it visits no call is on the stack twice. A cycle is therefore refused only where the
reference has one, and a call returns only when everything beyond it is dealt with. `Verdict` needs the other direction:
in a finished pass no cycle was missed, because a struct is written after all it holds. `Dispatch` is an
induction on the classes above one (`NoneLeft`: a property that passes from each class to its base, which no class
without a base has, has no class at all): the chain of wrappers from a class ends at the nearest declaration. The json checks keep no marks; that their
answer is right when they return does not need that they return, which the finding shows they may not.

**Names.** `GlobalScope` and `Walked` relate the two views of the globals: what the global scope binds is emitted
and declared in C, and what the walk over the root has passed is declared unless a homonym took its
name. `GlobalMeaning` follows because a name that is bound under another module makes a homonym; that
an import of a variable keeps its name is an assumption on the programs, since the loader
refuses the alias of a value. `Suites` says which suites may be open at once, so that `Current` is
the nested function defined last or none; then whatever is captured is a variable of the enclosing suite
(`Captured`), and a recorded call has seen all of them (`Calls`: also those that a nested function whose suite is still
open can come to capture after it has called itself). `CallMeaning` is about one step. `Considered` says
what the loop knows after `n` functions (nothing fits, or the first of the
cheapest and whether it is alone) and is proved for every `n` by a least counterexample, the
existence of the recursive function included; `CandidateIsScope` shows that the tests in the loop choose the set
`Scope`, and `DuplicateFunction` that a tie is between two functions and not one seen twice.

*Only model-checked.* Liveness (`StatementsFinish`, `LoadingEnds` and the termination in `Records`): out of
the prover's reach. `Expressions`: its emission is a recursive operator, as the code
is, and no theorem can reach one. `TypeTables`: not proved. The number of a union is a fold over the bits
of its members, with powers of two, and that a C name can be read in one way only is an induction over its words: both are
induction over data, which the installed provers cannot do.

## Findings

* **A shadowed local is released twice** (`cleanup_shadowing`). `register_ref_local`
  refuses a name registered twice in one cleanup scope, but a nested suite may
  declare it again; the releases before a return name both locals, and in C both
  names mean the inner one. In the run the inner one is the target of a `with` whose suite
  returns.
* **The json support check does not end on a recursive class**
  (`json_support_check`). `class A` with a field `kids: list[A]` is legal, but
  `json_from_string_type_supported` and its siblings keep no marks and call
  themselves for ever as soon as json is imported; the compiler ends with a
  segmentation fault.

Divergences the models contain as they are, without a run of their own (those marked \*
were confirmed with the built compiler):

*Containers and suites.* An owned value passed inline as an argument leaks (`lost`);
lists in a cycle are never freed (`GarbageIsExplained`); break, continue and
`return <plain value>` skip releases (`LeaksExplained`); a key read by a for loop is freed
by `pop` in its body (`LoopFaithful`).

*Modules and names.*
* `py4 main.p4` with a module that imports `main` loads the entry twice: `dirname_of` gives `.`
  for a bare name, so the import resolves to `./main.p4`, which `has_visited` does not know. The
  definitions of the entry are copied twice and the compiler refuses the program as
  "duplicate overload"\*; `py4 ./main.p4` compiles it\* (`LoadedOnce` counts a file once for
  each spelling).
* `from m import Color` for an enum that `m` defines ends with "has no export 'Color'"\*:
  `top_level_symbol_name` does not list enums (`Exports`, `Resolved`).
* `import b` after `from b import g`: the from import marks the file visited, so the
  plain import copies nothing, and `b.f` is an unknown function, although
  `tests/cases/ok/module_qualified_calls_main.p4` calls every function of a plainly
  imported module through its name (`EmissionExact` says what is copied).
* All modules are checked in one global scope, which is searched before the import rules
  are\*: after `import v`, a bare `_seed` reads the private global of `v`, which
  `tests/cases/fail/module_private_value_access.err` calls "private to module"; an assignment
  overwrites it, and a global of the importing module with the same name and type is
  taken for it (`GlobalMeaning` speaks of the other names).
* A call of a nested function passes the variable of a block that has the name of a
  capture\* (`CapturesPassed`); a nested function calls the top-level function of a sibling's
  name, and an alias makes two functions candidates of one call\* (`Misnamed`).
* Unbalanced brackets shift the suite of what follows (`AcceptedFaithful`).

*Types.*
* `json.Value | int` is given the number of another type: the check that refuses natives in
  unions (`semantic_types.c:1735`) asks whether the result is a union, and it is not\*.
* Names of classes and enums are found in all modules before they are tested for
  visibility: a class `Value` of the program takes the place of `json.Value`, and `m.D` is accepted
  for a `D` of main\*.
* A class may take the name of a native type: it is never compared with them.
* A tuple in a tuple, a name with an underscore, a class named `optional`, or a tuple parameter before
  another can give two types or overloads one C name\*. So can a union: `f(x: int | float, y: bool)`
  and `f(x: int | float | bool)` are one C function\*.
* A tuple whose name, as written in messages, does not fit 128 bytes is refused ("tuple type name is
  too long"), and so is a native type other than `io.File` and `json.Value`.

*Expressions.*
* Temporaries come before the statement: `False and len(mk(7)) == 1` calls `mk`, a comparison
  chain evaluates all its operands, `while n(xs.copy()) < 3` evaluates its condition once,
  and `range(a(), len(mk()))` calls `mk` before `a`\*; an `elif` whose condition has a prelude
  does not compile in C\*. Other operands share one C expression and run in any order;
  `s()[1:]` calls `s` twice\*.
* `B(mk())` with `__init__`, `print(mk())`, `mkb().xs`, `[mk()]`, `a, b = mk()`,
  `json.from_string` and an index of a dict leave one reference over (`Forgets`)\*.
* A global read directly beside a call that replaces it can be used after it was freed
  (`ReadBesideReset`).
* A tuple with a managed part as an argument ends the compiler with
  "unsupported refcounted type"\* (`Translated`).

*Driver.*
* `py4 prog`, with an input without `.p4` in the working directory, overwrites the source
  with its binary\* (`SourcesKept`).
* A generator that gives up leaves `/tmp/py4-build-*` unannounced\* (`NoStray`);
  `py4 --emit-c > /dev/full` ends with 0\*, while `-o /dev/full` ends with 1 (`ExitTells`).
* `py4 test <no such directory>` runs no test and ends with 0\*.

## What is not modelled

* The text of the generated C and of error messages; character-level lexing.
* Capacity growth of lists and dicts, and malloc failing (the program exits).
* The type inferred for an expression, narrowing, and the exhaustiveness of match.
  Known from the built compiler: `7 / 2` is typed `float` and prints 3, `x == None` on an
  optional is accepted and does not compile in C, `list_append(xs, 3)` on a
  `list[int | None]` neither.
* How a path is put together (`resolve_import_path` goes up the directories and then to `stdlib/`); a
  file that cannot be read. Which spellings open one file is a constant.
* Limits of names elsewhere: the lexer's tokens, the parser's buffers for composed annotations, and
  `MAX_NAME_LEN` of the generator, which gives up on a longer C name of a tuple.
* Wrapping a value into an optional or a union, and the helpers written for each struct:
  they follow the fields one by one.
* C names of methods: a class `A` with a method `m` and a class `A_m` clash in C. `Dispatch` and `NamesApart`
  speak of declarations and of types.
* The counter of a range loop near `INT_MAX` (undefined in C): the models use unbounded integers.
* The ring of sixteen name buffers: every caller uses a name in the statement that asked
  for it, and a build with an address sanitizer shows no use of a recycled one over all
  tests and over deeply nested types.
* Strings: they are never freed, so they have no lifecycle to check.
* Native modules: fixed C text without state between calls.
* cJSON (vendored), the `.p4` standard library, tests, benchmarks, examples and
  the experiments directory.

## Plan

1. `ListRuntime`, `ManagedLists`, proofs. Done.
2. `CleanupScopes`. Done.
3. `ModuleLoader`. Done.
4. `DictRuntime`, `OrderedMaps`. Done.
5. `Layout`. Done.
6. `Records`. Done; composing retain and release of fields with the counts of
   `ListRuntime` remains.
7. `Names`. Done, for variables and functions.
8. `Driver`, `TypeTables`, `Expressions`. Done.
9. Proofs about `CleanupScopes`, `Layout`, `Names` and `Records`. Done. Of `TypeTables`, the part without
   unions and names (a place in a table stands for one meaning) could be proved.
10. `Matching`: narrowing and the exhaustiveness of match over enums, unions and
   optionals, against sets of values; then the types of expressions.
