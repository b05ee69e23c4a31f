# scheme14 in TLA+

A verification project for `src/scheme14`: a Scheme system of one C++ program
(`scheme14.cpp`) and a startup library written in Scheme (`lib14.scm`), with two
data libraries (`src/rbtree_lib_improved.scm`, `src/hashtable_lib.scm`). Source is
read, expanded, compiled to instructions of an SECD machine and run by it.
Continuations, `dynamic-wind`, exceptions, tail calls, nested `load` and `eval` all meet in
that machine and in a page of library; around it are the tables of global names, the
prompt, the ports, the numbers and the data structures.

## 1. Inventory

| component | where | state | operations |
|---|---|---|---|
| virtual machine | scheme14.cpp section 10, 2520-2968 | stack, base, env, code and pc, dump, scratch closure of each VM; `g_winds`, `g_wind_next_id` for all | 21 instructions, `do_call`, `make_frame`, `winds_match`, `build_rewind_code`, `abandon_to_raise` |
| compiler, expanders | sections 6-9, 1269-2518 | growing code blocks and templates, `comp_` context, gensym counter, macro table | `comp`, `compile_lambda`, `scan_out_defines`, one `expand_` per derived form, `qq_transfer` |
| control library | lib14.scm 400-594 | the box `g_handler`, wind frames (through primitives) | `dynamic-wind`, `with-exception-handler`, `raise`, `raise-continuable`, `guard`, `exit`, output redirection, `call-with-values` |
| primitives on machine state | section 11, 2971-4734 | `g_handler`, `g_winds`, ports, descriptors, cells | winds, handlers, ports, values, `eval`, `load`, `%exit` |
| session | section 12, 4736-6347 | the input, what is left of it, exit status | `run_repl`, `read_multiline_input`, `load_from_path`, `main` |
| environments | 2011-2116, 4707-4734 | interaction, report and null tables, `g_compile_table` | `CompileTableGuard`, `freeze_environments`, `eval` in each, `define-macro` |
| library loader | 4819-4945 | names bound so far, candidates | search path, skipping definitions already there, warning |
| reader, `is_balanced` | section 5, 4028-4075 and 6185-6218 | position in the text | tokens, data, `read_all`, `read` from a port; when the prompt takes an input for complete |
| writer, `equal?`, `list?` | section 4, 3467, 3545 | tables of what has been met | display and write of shared and circular data, comparison |
| numbers | 3046-3410, lib14.scm 139-227 | none | fixnum, big integer and flonum arithmetic and the border between them |
| data libraries | `src/rbtree_lib_improved.scm`, `src/hashtable_lib.scm` | trees, tables | insert, delete, lookup, iteration |
| diagnostics | 4946-6218 | switches | self test, help, trace, profile, `--expand`, `system` |
| scheme12, scheme13 | `src/scheme12_*.cpp`, `src/scheme13` | | the earlier versions of the same system |
| collector | `src/gc-8.2.12` | | third-party (bdwgc) |

**How they interact.** The session gives the compiler one form, and a VM of its own the code.
Library procedures call primitives to change what the machine compares when a
continuation is called (`g_winds`) and where errors go (`g_handler`); the machine in turn calls
library procedures: the thunks in wind frames, and `raise`, looked up by name, when an
instruction fails. `load` starts a machine inside a primitive, `eval` compiles inside an
instruction and jumps, a macro transformer starts a machine inside the compiler. A continuation
holds a copy of one VM and of the winds, but not of the handlers, the ports or the variables.
The prompt decides from brackets and quotes when to call the reader, and shares the console's
FILE with the port programs read from. Hash tables keep their buckets in a red-black tree.

**What is hard.** The program is one thread, so the hazards are sequences: jumps between extents
in any order, errors between two steps of library code, thunks that escape or exit in the
middle of a jump, machines inside machines unwound by an exception of C++, copies that go
stale, a stack cut without a check, a table switched while something else compiles, an iteration over
entries its callback deletes, a repair on the way up that forgets one colour. `hazards` in
PROJECT.json lists each at its line.

**What makes each part correct.** The machine: no operand, frame or dump entry is ever
missing on compiled code; returns cut the stack where the call put the floor; tail calls need no room. `dynamic-wind`:
entered and left in nested order, whatever jumps. Exceptions: a handler runs under the outer
ones, an error never resumes what failed. Session: forms in order, one answer each, nothing
of one form left behind for the next unless it failed. Compiler: scope and tail position; it is in the table
it was started with. Loader, environments: the first definition wins, frozen tables stay. Reader: an input is complete
exactly when the reader can read it. Trees and tables: they are the maps they promise to be. Numbers: the
true result, in its one representation.

## 2. Modules

| module | models | how |
|---|---|---|
| `SECD` | VM, primitives on its state, session | one action per instruction and per primitive that changes state |
| `Compiler` | expanders and compiler | operators from an expression and the code so far to more code, one per function |
| `Lib14` | lib14.scm 400-568, startup | the library as expressions; `StartupWith` compiles them one after the other as the loader does |
| `Extents` | what `dynamic-wind` promises | abstract state machine over what a program writes |
| `Environments` | the tables, macros, `eval`, `load`, the loader and its candidates | a stack of what is being compiled, run and loaded, down to the C++ frames an error leaves |
| `Reader` | tokens, data, `is_balanced`, `read` from a port | `Reader` is a function from places and functions of the reader to what each reads there; `is_balanced` and `read` from a port are functions from places to the counters of their loops |
| `Repl` | `read_multiline_input`, `run_repl` and the console's port, over characters | actions; the forms of the text on a port that is shared |
| `Quasiquote` | `qq_transfer` and its helpers | the expansion of a form is one action, `qq_transfer` a recursive function from templates and depths to expressions; what an expression evaluates to is another |
| `Ports` | input ports, lookahead, `read-line`, descriptors, finalizers | actions |
| `Arithmetic` | `+ - *` on all paths, divisions, `gcd`, `lcm`, `expt`, `%isqrt` | the loop over the arguments as actions, the rest as operators and recursive functions |
| `Structures` | the mark of the writer, `equal?`, `list?` | a heap changed by `set-car!` and the like, recursive functions that walk it |
| `RBTree`, `OrderedMap` | the red-black tree; the map it promises | a tree is a value, an operation on nodes a recursive function on trees, one on a handle an action; abstract map |
| `HashTable`, `Dictionary` | the hash table and its iteration; the map it promises | actions; abstract map with what an iteration may see |
| `Maps` | | functions as finite maps |
| `MCWind`, `MCRaise`, `MCSession`, `MCCompile`, `MCDocs` | programs | constants and the properties that speak of one program |
| `MCData` | | `Arithmetic`, `RBTree`, `HashTable`, `Structures`, `Quasiquote`, `Ports` |
| `MCText` | | `Environments` and `Repl` with `Reader` |
| `Discipline` | what the machine takes for granted of compiled code | operators on a block, on blocks that refer to one another, on the results of the compiler |
| `CodeCheck` | | TLC evaluates the discipline on the code of `compile` and `session` |
| `MachineProof`, `ArithmeticProof`, `EnvironmentsProof`, `StructuresProof`, `RBTreeProof`, `PortsProof`, `ReaderProof` | | theorems about the module of the name; `MachineProof` is about `SECD`, in its second part with `Discipline`; `StructuresProof` is about `Structures`, `Quasiquote` and `HashTable`, `ReaderProof` about `Reader` and `Repl` |
| `Recursion` | | lemmas on recursive functions, for `ArithmeticProof`, `StructuresProof`, `RBTreeProof` and `ReaderProof` |

**State of `SECD`.** `stack`, `base`, `env`, `c`/`pc`, `dump`, `scratch` are the members of
the same names of `VM`; `outer` holds the VMs waiting in C++ frames of
`load_from_path`. The heap is by address: `frames` (Env), `lists` (chains of Pair),
`conts` (Continuation), `code` and `templates`. `env` is the chain of frames as the sequence of
their addresses, `winds`, `nextWind`, `handler`, `stdout` are the globals `g_winds`,
`g_wind_next_id`, `g_handler`, `g_stdout_port`.

**Steps.** `Step` is one turn of the loop of `run`: `ErrorOf` is what the instruction would throw
(its checks come before its effects); without an error the action of the instruction
happens, with one the catch clause (`Fail`): delivered to the handlers by the outermost machine
(`Abandon`) or ending the form (`Die`). `DoCall` has a disjunct for each kind of callee, and
`CallPrimitive` one for each primitive or group of primitives of the same effect.
`StartForm`, `NextInput`, `EndOfSession` are the loops of `run_repl` and of `--load`.

**The real library runs.** The procedures of lib14.scm are not actions in `SECD`: their
text is compiled by the modelled compiler and run by the modelled machine, so that a continuation
can be captured, or an error raised, between any two instructions of `dynamic-wind` or `raise`. This is why a state
is an instruction and not a procedure call.

**State of `Environments`.** `tables` holds the three symbol tables (name to cell), `compileTable` is
`g_compile_table`, and `stack` is the C++ stack seen from above: a compilation with the table its guard
keeps (`Compiling`), code that runs and the table its cells are in (`Running`), a file being
loaded, a machine, a handler. `Throw` is an exception of C++: it leaves everything down to the outermost machine and goes on there
behind the innermost handler, with the table the outermost guard it passes puts back. A transformer, a load or an
eval is a frame above the one that waits for it. A value is known by who gave it (which candidate of which library, or
the user), so that a property can ask whose definition a name has.

**The other parts.** `Repl` keeps the text not yet read by the process (`pos`), the character the
console's port has peeked at, the lines gathered for one input and the forms the session has
got. `Ports` has the same port from the side of `read-line` and `read-char`, with files that must be closed before
another can be opened. `Arithmetic` is at an argument (`i`) on one of the paths of the code (`fixnum`, `big`,
`real`) with the sum so far and, as a ghost, the true one. `HashTable` names an entry
by its key and a number that tells it from one deleted before and still held by an iteration.

**Abstractions.**
- In `SECD` symbols, strings and numbers are names; it does no arithmetic. `(random 2)` is the only source of choice in a
  program; it answers freely `RandomFuel` times and then 1. A list is a cell of elements with what ends it.
- An output port is named by its file, so opening a file again reopens the same port.
- `guard` is expanded by an operator (`expand_guard`), not by running the macro of lib14.scm 573-594
  in a nested machine. Its variables are chosen as the macro chooses them.
- The gensym counter starts anew for each form; no program uses a name it makes.
- Error messages are one per check; positions, traces, and the text shown are left out. Error objects are
  compared by message.
- Code, templates, frames and lists are never freed (the collector frees what nothing reaches).
- `Environments` has one operation per form (define, set!, use, ...) and no expressions inside: what `SECD`
  and `Compiler` add is in those modules.
- `Reader` reads characters that stand for those read the same way (a letter for whatever may be in a token, `'` for each abbreviation); the grammar of numbers, of
  characters and of datum labels is left out.
- `Quasiquote` has data of up to `MaxLevels` levels, a vector being known by the list of its elements; a variable stands for
  every expression that can be unquoted.
- `Arithmetic` has words of `Half` instead of 2^63 and fixnums up to `FixMax`; a flonum is just that.
- In `HashTable` the tree is a map from hashes to buckets: that `RBTree` implements a map is proved by `TreesAreMaps`.

## 3. Runs

| run | what runs | shows |
|---|---|---|
| `wind` | nested extents left by return, by `k1` (one level), by `out` (two), by an error, by `exit`; entered again by `k1`, `k2` from a sibling extent and from a later input; `exit` from an after thunk | the machine implements `Extents`; wind stacks form one tree; jumps are shortest; no internal error; floors in order; `exit` leaves all; every input ends |
| `wind_load` | the same, as one file under `--load` | an unhandled error ends the process |
| `raise` | each way to raise, against guards that match, do not match, handlers that return, pass on, raise, jump | which handlers are installed where; the answers; a failed expression is not resumed; the scratch closure is not kept |
| `session` | redirected output, nested loads that fail or jump, unreadable files, `eval` of data | output goes where it should; answers; a load stops at its error; no extent, handler, redirection or waiting load survives an input (`LeavesNothing`, up to the first error) |
| `compile` | a loop through all tail positions; expressions on scope, assignment, expanders, `case`, `do` | constant room; values |
| `data` | every sequence of operations on a small tree, table, heap, port; every short call of `+ - *`; every small template | trees and tables implement their maps and stay valid; sums and divisions are right; marks, `equal?`, `list?` agree with their definitions; templates are filled; ports lose nothing and open when they can |
| `text` | every short text at the prompt; startup over every choice of library candidates and then a session of definitions, macros, loads and evals inside one another | prompt, reader, port and `--load` agree; the compiler's table is put back; the copies stay frozen; the first definition wins and none is lost without a warning; the prompt comes and ends |
| `doc_*` | see section 6 | five statements of the documentation that do not hold |

`compile` and `session` also evaluate the assumptions of `CodeCheck` before they start: the startup library, every form of
the instance and a set of values given to `eval` compile to code that keeps the discipline the proofs assume.

`MCData` and `MCText` hold parts that share no state: `part` chooses one at the start and the others
keep their initial values, so that one run explores their union, not their product.

**Bounds.** A program of the `SECD` runs is fixed, its choices are not: `RandomFuel` bounds how many are
free (6 in `wind`, 5 in `wind_load`, 8 in `raise`, 4 in `session`, 7 in `compile`). Each program
has been written so that the cases that matter fit: a second entry after a jump, an exit after
an error, a third turn of the loop. Depth is not bounded: a behaviour runs to the end of the
session, up to a thousand instructions.

In `data`: trees over four numeric keys and one that the comparator refuses, under each of the comparators, so that
every left-leaning shape of up to four entries and every deletion from it occurs (`MaxNodes` is 6 and never reached); two hash keys that collide and one that has no hash, which
makes buckets of one and two entries and an entry deleted and set again while an iteration holds the old one; three
pairs and a vector with four changes, which ties every ring, lasso and shared tail of up to three cells; words of
-8..7 and fixnums of -4..3, arguments up to three, from both sides of each border; templates of three levels of forms, lists and vectors over
atoms, holes and the symbol `unquote` outside a form (as pairs these have up to `MaxLevels`, 6, levels); two descriptors and a text with CR, CR LF and CR at the end.
In `text`: all texts of up to four characters over ten, of five over six, and longer ones that begin with calls that use the port or fail; two candidates for
the first library and one for the second, each missing, broken off, redefining or with a macro, and then forms in which transformers, loads and evals
reach four levels deep.

**Fairness.** One thread that nothing blocks: as long as the process is running it takes its next
step. `SECD`'s `Fairness` says so without ENABLED: either the session ends or steps happen again and
again; it is weak fairness of `Next`. `Terminates` then says that the jumps and
unwindings of the program reach an end; with the random answers used up it has no other way to go on forever.
`Repl` and `Environments` assume `WF_vars(Next)`, `MCText` that of its parts: the program runs, and reading the console returns with a line or
the end of the input (the texts end). `PromptEnds`: the session takes the whole text and ends, so that no text makes the
prompt read the same input again or wait beyond the end. `PromptComes`: whatever forms the candidates hold and whichever fail, startup comes to the prompt
(no form of `Environments` loops: a library with an endless loop does hang the program).

**Mutants.** For each property PROJECT.json names a mutated definition (defined before the one it replaces, in the same
module, with a comment that says what it does wrong): frames with the same id, rewinding the shared frames too, the earlier handlers not put back, unwinding
from the outside, a handler that runs under itself, an error that is caught by the wrong machine,
a tail call that saves its registers, a variable looked up one frame too far, a guard that does not put its table
back, a candidate that broke off taken for read, a colour flip too few, the head of a bucket removed instead of the entry. The property fails with it.

## 4. Proofs

Each theorem holds for every value of the constants, from the assumptions named.

| theorem | says | of | assumes |
|---|---|---|---|
| `TypeCorrect` | `TypeOK` | `MachineProof` | `PortsAssumption` (the console is a port), `FuelAssumption`, `ModeAssumption` |
| `OneWindTree` | `WindTree` | | |
| `ShortestJumps` | `JumpsAreShortest` | | |
| `LoadEndsAtFirstError` | `FirstErrorEnds` | | |
| `NeverBroken` | `NoInternalError` | | `CompilerIsSound`, `StartupIsSound` (of `Discipline`), `ProgramAssumption` (inputs and files are sequences of forms), and those above |
| `ScratchIsNotKept` | `ScratchIsTransient` | | |
| `FloorsRise` | `FloorsInOrder` | | |
| `SumsAreExact` | `ComputesRight` | `ArithmeticProof` | `WidthAssumption` (fixnums fit a word), `ArgumentsAssumption` (arguments are Scheme values) |
| `DivisionsAreRight` | `IntegersDivide` | | the same |
| `GuardsPutTheTableBack` | `TableRestored` | `EnvironmentsProof` | `NamesAssumption`, `FormAssumption` (forms are well formed) |
| `CopiesStayFrozen` | `ReportFrozen` | | |
| `FirstDefinitionWins` | `FirstBindingWins` | | |
| `NoLibraryIsLost` | `NoSilentLoss` | | |
| `TreesStayValid` | `TreeStaysValid` | `RBTreeProof` | `HandlesAssumption` (the numbers of keys and of nodes are numbers, the comparators those of the library and a caller's) |
| `TreesAreMaps` | `ImplementsOrderedMap`, a refinement | | |
| `TextIsInOrder` | `TextInOrder` | `PortsProof` | `TextsAreTexts` (files hold characters, neither of the two marks among them), `LimitIsNumber` |
| `OneCollectionIsEnough` | `OpensIfItCan` | | |
| `MarksAreCycles` | `MarksJustCycles` | `StructuresProof` | `ObjectsAssumption` (finitely many objects, told apart by their tags) |
| `EqualValuesAreSame` | `EqualIsSame` | | |
| `ListsAreFinite` | `ListIsFinite` | | |
| `TemplatesAreFilled` | `TemplateIsFilled` | | `TemplatesAssumption` (templates and what is bound have at most `MaxLevels` levels, any number) |
| `EveryKeyIsFiledOnce` | `WellFiled` | | none |
| `SizeIsExact` | `SizeExact` | | |
| `TableIsDictionary` | `ImplementsDictionary`, a refinement | | |
| `AgreesWithReader` | `PromptAgreesWithReader` | `ReaderProof` | `TextsAssumption` (texts are of characters, `CharAt`'s mark for the end not among them) |
| `TakesOneDatum` | `ReadTakesOneDatum` | | |
| `IsLikeLoad` | `PromptIsLikeLoad` | | |

**`MachineProof`, dynamic-wind and the session.** The inductive invariant is `Inv == TypeOK /\ WindTree /\ FirstErrorEnds`. `WindTree` alone is not
inductive: that a frame pushed now differs from every frame in a continuation needs
`TypeOK`'s bound on the ids in all of them. `NextStep`: whatever a step is, on the winds it is one of four things (`WindStep`: nothing, a frame with
the next id added, the innermost removed, the stack of a continuation taken over), on the continuations one of two
(`ContStep`), on the session `SessionStep`; one lemma per group of
actions shows it. `WindsKept`: such steps keep one tree. `ShortestJumps`: that `Common`, a CHOOSE, finds the common outer part needs that there is a
least place where two stacks part (`LeastNatural`, from the well-foundedness of `<`). Since `CompileTop`, `CompileEval` and `Startup` are constants of the theorems, they hold of any code at all,
also of code the compiler would never produce; these four theorems cite nothing of `Discipline`.

**`MachineProof`, the discipline.** `run` checks little of the code it runs, and that these checks never fail, or are not needed,
rests on how blocks are laid out. `Discipline` says how: each block has a count of operands for every place in it, ends in RTN, JOIN or STOP (or is
code `build_rewind_code` makes), leaves by what it ends in, and reads slots of frames its scope has. `CompilerIsSound`
and `StartupIsSound` are hypotheses of the theorems and not proved, as the compiler is a recursive definition;
`CodeCheck` has TLC evaluate them on the code of two instances.
What is proved is the machine's half: the code the machine makes itself keeps the discipline too, and whatever jumps,
errors, loads and evals come between, each block goes on where its count says.

- The invariant is `Soundness`. The blocks the machine is in form levels, one for each dump entry and one on top; each has the height of the stack at which
  it was entered, is at a depth its block's count gives (`Placed`), and leaves enough for the level it goes back to (`Links`, `Rests`). A continuation and a machine
  that waits in a load are such levels, stored; lists, frames, cells and constants hold values whose references exist
  and whose code may run in the environment they have (`ValueOK`, `ClosureOK`). `NoInternalError` and `ScratchIsTransient` follow from it at once.
- `Soundness` is stated of a world: code, templates, frames, lists and continuations. A step
  only adds to it (`Grows`), or assigns a slot, and what was right stays right; so what a step must show is what it adds, one lemma for each
  instruction and each kind of callee (`...Keeps`).
- Below a level that goes back nowhere (STOP, rewind code) nothing is known of the dump: `abandon_to_raise` leaves it as it was
  while it empties the stack. `FloorsInOrder` speaks of the whole dump and is therefore not a consequence of `Soundness`; it
  has an invariant of its own, `FloorsOK`, that a step moves floors in one of few ways (`Moves`), and that
  code made by `abandon_to_raise` is never forgotten, which ends the claim.

**`ArithmeticProof`.** `Inv` adds to `ComputesRight` what is known on each path: up to argument `i` the accumulator is the true sum, on the fixnum path
it is a word that has not wrapped round, and no flonum has been passed on the exact paths. `ComputesRight` alone is about answers only.

**Recursive functions** (`Recursion`, and then `ArithmeticProof`, `StructuresProof`, `RBTreeProof` and `ReaderProof`). `f[x \in D] == e` names any function that satisfies
its equation, and nothing is known of it until one is shown to exist. Either a solution is exhibited, stated without
recursion (the set of greatest common divisors, an iterate of the Newton step, the least set or relation closed under a walk), or the calls go
down a rank and the lemma `RecursionExists` gives one. What the function computes is then shown at the least rank where it would be wrong
(`LeastNumber`), which also says that the recursion ends; the induction theorems of the library are not needed.

- `DivisionsAreRight`: Euclid's step keeps the common divisors; squaring the base and halving the exponent keeps the accumulator times the
  power; Newton's guess stays at or above the root, as half a sum is no less than the root of a product, and falls until it is the root.
- `MarksAreCycles`: what a value leads to is the least closed set (`Leads`), whatever the order in which `Grow` finds it. The writer inside of `path` marks
  `v` just when `v` leads to a circle or to something in `path` (`Marked`); the objects outside `path` get fewer with each call.
- `EqualValuesAreSame`: `Same` is the largest relation that respects slots. When `equal?` answers true, what it compared and what it took
  for equal together respect slots (`Excused`), so that nothing was assumed that is not so; when the values are the same and the first has no
  circle, nothing it leads to is ever met again (`Fresh`).
- `ListsAreFinite`: the spine of a value that never ends repeats among finitely many pairs, and then a multiple of its period beyond its tail is
  where the pointers meet (`Halves`, `InfiniteList`); a spine that ends visits no pair twice, so they cannot meet before.
- `TemplatesAreFilled`: data and expressions are terms of so many levels (`TermsAre`), and the expander, the evaluation and the filling go down
  levels. An expansion has no more levels than its template (`TransferLevel`), so that it is one of those that are evaluated. `FormValue` is the case of a form;
  the rest is at the template of least level, at any depth, where expansion and filling would differ (`ExpansionsAreFilled`).

**`EnvironmentsProof`.** `Inv` says of the stack that every guard holds the table of the compilation around it (`CompilesIn`),
that only a machine of its own runs while a form is compiled, and that code that writes was compiled in the interaction
environment (`SoundAt`, for each frame). Every step but an error takes the innermost frame off, puts some on, or both: `Pop` and `Push` keep
the stack sound. `ThrowKeeps` is the hard case: what survives an error is a prefix and the part of the stack behind the innermost handler, and the
table the outermost guard holds is the right one for it. From `Inv`, `TableRestored` is the case of the innermost compilation, and
`ReportFrozen` follows as no code that writes has cells of a copy. `FirstBindingWins` needs a second
invariant, `StartupInv`: while libraries that only define are read, the stack is a library, its
machine and one form, that form was not defined when it was taken (`Fresh`) and nothing has been defined since;
and a name with a value and no macro got it from a `define` or is a builtin (`Given`).

**`NoLibraryIsLost`**, in the same module, is about libraries that hold any forms at all, not definitions only. While a candidate is read, each of its definitions
is bound, is still to be read, or is the very form being compiled or run, alone on the library (`Underway`); what else
stands on the library may come and go. A name that is bound is never unbound (`HasCell`, kept by every step); an error that ends a
candidate drops what `Underway` promised, and then the library is read from its next candidate or was warned about.

**`StructuresProof`, the tables.** `TableInv` says of each bucket that it is not empty, in its hash's place and has a key once, of the iteration that
it holds one entry for a key, and of `size` and `value` that they fit the entries. `Contents` and `Remaining` are the refinement mapping; there is one lemma per
operation (`SetStep`, `AddStep`, `DeleteStep`, ..., `VisitStep`), which shows `TableInv` and the step of `Dictionary` at once. Nothing is assumed of the
hash: it may send all keys to one bucket.

**`RBTreeProof`.** The inductive invariant is `IInv`: the root is a tree whose root is black, whose keys are in order and
which is sound (`Good`), unless a comparator has failed inside a deletion. `Sound(t, h)`: left-leaning, no two reds in a row, black height `h`. The argument
has four parts.

- *Shape.* The trees are built level by level, so that induction and recursion over trees are those over levels and numbers of nodes
  (`ShapeInduction`, `ShapeRecursion`, `TreeInduction`, `TreeRecursion`).
- *Entries.* A rotation and a flip keep the walk (`RotateSame`, `FlipSame`, `FixSame`); what a deletion moves about is therefore known by the set of
  entries `E(t)` and the order of the walk (`OrderOf`). That an operation adds no more than one node, which keeps trees within the bound, comes with it.
- *Insertion.* `InsertBalance`: below a red node two reds may follow one another, and the `fix_up` one level higher repairs that
  (`Grown`, `FixMakes`, `FixChain`).
- *Deletion.* The descent keeps a red link at hand (`Fed`): after `move_red_left` it has one (`WentLeft`). After `move_red_right` with a red nephew it has
  not: the cursor stands above a node that leans to the right (`LeansRight`), which `fix_up` would repair but a descent to its left would not
  survive. It never goes there: that node holds the key the cursor came from, and the deletion goes to a key that is not less (`CanDelete`,
  `WentRight`). This is where the balance of the tree depends on the order of its keys, and the only place. What comes back replaces what was there: the same
  height and no more red (`Replaces`), so `fix_up` is enough on the way up.

For `TreesAreMaps`, `Content` is the map of `E(root)` (`MapIs`), and there is one lemma per operation. A deletion that breaks off leaves at each link the node
`Shown` says; its entries are some of those that were there (`Lost`), which is all `Lose` promises.

**`PortsProof`.** `PortOK` says of a port that what was taken from it is its file up to `Front`, and that a character read ahead is the
next one of the file; so what is taken next, character by character or by `read-line`, is what comes next in the text. `read-line` is stated by where
the line ends (`LineEnds`, `LineLength`) and not by its loop, which is what makes it possible to reason about. For the
descriptors, `Collected` says that a collection leaves exactly what is reachable, unchanged, and a new port gets the
least id that is free (`LeastNumber`).

**`ReaderProof`.** The reader, `is_balanced` and `read_one_from_port` are three recursions over one text. That the reader's exists, and that what it reads
at a place ends behind it, comes first (`ReaderExists`, `ReaderIs`, by the distance from the end). What relates the three is the *situation* behind each
character: the depth of brackets, in a string, in a comment, counted without giving up.

- `AgreesWithReader`: what the reader does at a place says how deep the text is where it has stopped and that it was never less deep before
  (`Walked`, `WalkAll`); a reader that runs out of text has left a bracket or a string open. `is_balanced` knows the situation as long as no bracket is closed
  too many, and then it gives up for good, as the reader does. `acc` is never balanced (`PromptInv`), which is the inductive part.
- `TakesOneDatum`: the scan of the port stops where the situation is first that of the beginning again, which is where a list or a string ends. The reader then
  reads the piece and not the text: a piece that a datum ends in is read as it is within the text (`Window`, `WindowAll`).
- `IsLikeLoad`: `LoadInv` says that what was evaluated, what is to be, and what the reader would read from where the unfinished input begins are together what it reads
  from the whole text (`Unread`). A line that makes the input balanced cuts the text between two data (`LineCut`, from `CutAll` over the forms), and an input that is unfinished at the end would
  have been balanced (`LastCut`): nothing is left when the prompt says good-bye.

**Only model-checked.** What depends on the code the compiler produces and on what the library does
(`ImplementsExtents`, handlers, the scope of the current ports, tail space); that the compiler keeps the discipline, on the instances of
`compile` and `session` (`comp` is a recursive function over every expression, and nothing is proved of what it computes); that the session ends and the prompt comes, and all other liveness (`Terminates`, `PromptEnds`, `PromptComes`), which is out of the prover's reach.

## 5. Not modelled, and why

- The values of flonums, `/`, comparison across exact and inexact, the text of numbers: `Arithmetic` knows of a flonum only that it is one.
- String, character and list procedures: pure, and covered by the self tests.
- The grammar of numbers and characters, datum labels, positions in the reader; the text of atoms in the writer.
- Folding, listing, printing and conversion in the data libraries: they only read.
- Traces, profile, help, self test, `--read`, `--expand`, `system`: output only.
- `Environments` and `SECD` are separate: `SECD` has one table, `Environments` no instructions.
- scheme12, scheme13: earlier versions; scheme14 contains their machine.
- The collector: third-party. `Ports` assumes of it what scheme14 does: it runs the finalizers of what is unreachable.

## 6. Where the code and its documentation differ

| run | statement | what happens |
|---|---|---|
| `doc_handler_box` | lib14.scm 528: `dynamic-wind` switches the box, a continuation need not hold it | `raise` sets the box too. A handler that calls a continuation of the body it handles errors of resumes it with the outer handlers |
| `doc_escaping_before` | lib14.scm 427: `after` is not called when `before` itself escapes | during a jump it is: the winds are set to the target's before any `before` has run |
| `doc_exit_in_after` | scheme14解説.md 542: `exit` runs the `after` thunks of the extents it leaves | in the middle of a jump out of two extents, `exit` in the inner `after` ends the process without the outer one: the winds are the target's already |
| `doc_closed_output` | scheme14.cpp 4094: closed ports are turned away | a port closed while it is current is written to, through a null pointer |
| `doc_peeked_char` | scheme14.cpp 510-511: input always goes through `get_char`, or the lookahead is lost | the prompt reads its lines with `fgetc`: a character seen with `peek-char` is missing from the next line and comes after it |

The second and third have one cause: `build_rewind_code` sets `g_winds` once, before the thunks. Setting it
frame by frame, between the thunks, would answer both.

Met while modelling, each modelled as the code has it:

- The manual (5.1) says a syntax error in what `eval` is given does not reach a handler; it does, and tests/exception_test.scm 55 expects it
  (`EvalSyntax` and `SyntaxErrorsAreNotCaught` in `MCDocs`).
- `qq_transfer` quotes a vector that is an element as it is, commas included (scheme14.cpp 1773-1786, against dev_memo.md 701-706);
  `TemplateIsFilled` leaves such templates out (`VectorsOutside`). Expansions of quasiquote and `case` name `cons`, `append`, `memv`
  globally: a program that redefines them changes what they do.
- The comment at scheme14.cpp 4817 says a library never overwrites a definition. A `define-macro` in a library over a name that has a value
  overwrites the value; `DEF` keeps a macro of the name. `FirstBindingWins` is for libraries that give no name both ways. A second definition
  inside one library is skipped like any other.
- scheme14解説.md 134 says that a missing library ends the program; the code warns and goes on.
- A stray `)` leaves the prompt deaf until the end of the input; an input not finished by then is dropped. `is_balanced`
  looks one character back for a backslash, so that a string that ends in an escaped one (`"\\"`) does not end for it; the reader ends it. `read` from a port takes one character for an atom.
- Reading from a default input port that has been closed uses a null FILE, as writing does (`read_closed` in `Ports`).
- The header of the tree library says that comparing a key with itself is enough to reject it; a comparator of the caller may fail on the second key only, in the middle of
  a deletion, and entries are lost (`Lose` in `OrderedMap`). A NaN key is never found again; a hash table refuses flonum keys.
- `equal?` is not symmetric on circular data; `append`, `memq` and `assq` do not end on it.

## 7. What is left

1. An abstract `Handlers` (a stack of handlers with the meaning of `raise` and `guard`), implemented where no handler
   jumps into its own body.
2. `SECD` with the three tables of `Environments`, so that transformers and continuations meet.
3. Flonums as an abstract order, for `=`, `<` and `exact->inexact`.
