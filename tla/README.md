# Verification of the ECE 566 compiler projects

TLA+ models of the compiler projects in `src/`: the optimisation passes of
project 3 (`simple/p3`) and its dominance, loop and CFG queries, dead code
elimination of tutorial 5 (`tutorial/5`), the symbol table, its hash and the
driver of the C-- compiler of project 2 (`simple/p2`), the compiler of project 1
(`simple/p1`), and the generated scanner and parser of tutorial 3 (`tutorial/3`). TLC checks them on small instances;
TLAPS proves the central results for every module, every function and block
structure, every CFG, every scanner table, every command line and every bound.

Contents: 1 the system, 2 the modules, 3 what the models leave out,
4 runs and bounds, 5 fairness, 6 proofs, 7 findings, 8 not modelled and plan.

## 1. The system

The repository holds course compilers built on LLVM 9. They are sequential
programs without persistence: no threads, no messages, no restarts. What is
hard in them is of other kinds:

* *iterating over what is being changed*: passes walk instruction lists, use
  lists and pointer-ordered sets while they erase and rewrite instructions;
* *freed memory*: `eraseFromParent` frees, and pointers to instructions live on
  in worklists;
* *order that no test controls*: a `std::set` of pointers is drained in the
  order of the addresses, which differ from one run to the next;
* *state that outlives its scope*: a worklist declared outside the loops,
  global counters, a global scope list, static caches and offsets, a scanner's
  buffer that is refilled in the middle of a token;
* *what is decided once and becomes wrong later*: whether an instruction is
  dead, whether two instructions are equal, while uses move around.

### Components

| component | state | operations | interacts with | correct if |
|---|---|---|---|---|
| `CSE.cpp`: pipeline (508-526) | global counters 34-39 | calls dce, simplify, cse, load_cse, store_cse, prints the counters | each pass gets the module as the one before left it | the program's effects survive; what a pass needs the one before has provided |
| dce (116-167), isDead (41-114) | scan cursor, worklist | scan, pop, erase, queue operands | use lists | nothing needed goes, nothing dead stays, no freed pointer is read, any pointer order gives the same result |
| simplify (170-189) | cursor | visit, replace uses | LLVM's `SimplifyInstruction` | one visit each is enough |
| cse (249-321) | two cursors | compare, replace uses | use lists | equal values are computed once per block; no equal-looking but different values |
| load_cse (323-376) | two cursors, worklist | compare, replace uses, queue, drain per block | memory operations between two loads | what is erased is unused; loads return what they would have |
| store_cse (434-506), has_sideeffect (378-432) | two cursors, worklist | forward, queue store, stop, drain per block | volatile accesses, calls | as for load_cse, and every erased store is overwritten unseen |
| `dce.cpp` (p3 and tutorial 5) | as dce | as dce, plus reading and writing bitcode | — | as dce |
| `tutorial/5/C/dce.c` | one worklist for the module | scan all, drain all | `worklist.cpp` | removes what function-wise removal removes |
| `worklist.cpp`, `valmap.cpp` | a set or map behind an opaque handle | create, insert, pop, top, empty, destroy | C passes | pop returns what was inserted, once |
| `dominance.cpp`, `loop.cpp` | trees of the function asked about last; a table of the loops found so far | recompute, and add loops, if another function is asked about; queries | callers that change the CFG | answers are about the current CFG |
| `cfg.cpp` | none | first/next successor or predecessor | multi-edges of switches | the iteration ends and visits each |
| `summary.cpp` | none between calls | count a module's features | — | counts |
| p3 `main.cpp`, `transform.cpp` | options | parse, verify, mem2reg, CSE, write | all of the above | what is written is a valid module |
| p2 `symbol.cpp` | list of scopes under `head` | push, pop, insert, find | productions of `cmm.y` | lexical scoping |
| p2 `uthash.h` | items linked in order and in bucket chains | add, delete, find, clear, double the buckets | a scope of `symbol.cpp` is one | an item is found while it is in the hash |
| p2 `cmm.y` | `Fun`, `Builder`, counters, input file index | one action per production, `yywrap` | symbol table, scanner | scopes opened are closed; the inputs are read one after another |
| p2 `list.cpp` | stack of loop targets under one global | push, pop, look | (break and continue, not called yet) | innermost loop |
| p2 `cmdline.lex`, `main.cpp` | argument pointer and offset, `infile[]`, options | `myinput`, options, output | generated scanner, parser | what is written translates all files named |
| tutorial 3 `expr.lex`, `expr.lex.cpp` | buffer, marks, held character, automaton | match, act, refill, end of file | the parser calls `yylex` | longest match of the first rule, nothing lost |
| tutorial 3 `expr.y`, `expr.y.cpp` | stacks of states and values, lookahead | shift, reduce, error, grow | scanner, LLVM builder | takes the programs of the grammar, with their precedence |
| p1 `p1.y`, `main.cpp` | the builder's block, `idLookup`, an address with each value | one action per production | LLVM builder, scanner | what is written computes what the program says |
| tutorials 1, 2 and 4 | LLVM builder, register counter | one action per production | LLVM | the value of the expression |
| C versions of p1-p3, `projects/` | — | the same programs against LLVM's C interface, or unfinished templates | | |
| `wolfbench/` | — | third-party benchmarks and their reference outputs | the compiled passes | `compare` passes |

`uthash.h` is vendored, the `expr.*.cpp` files of tutorial 3 are generated (from
an earlier `expr.y` than the one beside them).

### How they interact

`main.cpp` of p3 verifies a module, may run mem2reg, and calls
`LLVMCommonSubexpressionElimination_Cpp`, which calls the five passes in turn;
they communicate through the module and the counters only. The module written
afterwards is *not* verified again, so what the verifier guarantees — every
operand is attached, every definition comes before its uses — must be an
invariant of the passes. The C version of dce reaches its worklist through
`worklist.cpp`. In p2, bison actions drive the symbol table through one global
list: a push belongs to a production's mid-rule action, the pop to a different
one, and between them the parser may process anything the grammar admits. The
scanners run under the parsers: a scanner that meets the end of an input calls
`yywrap`, which opens the next one, in the middle of whatever is being parsed.

The hazards of the code, each at its line with the properties about it, are
listed in `PROJECT.json`.

## 2. The modules

### The view of LLVM: `IR`, `IRLemmas`, `Semantics`

A module under optimisation is a function `code` from the *positions* of the
instructions that are still attached to records (opcode class, volatile flag,
type, attribute, function, block, operands). Positions are layout order, so
`std::next` is the next larger attached position of the block (`IsNext`,
`IsLast`). Erasing restricts the function (`Erase`); `replaceAllUsesWith`
rewrites operands (`ReplaceAllUsesWith`); use lists are computed (`Users`). An
erased position never comes back, so reaching it stands for reading freed
memory. `Leaf` stands for everything `isa<Instruction>` rejects: arguments,
constants, globals.

Opcodes are the classes that the three switch tables of `CSE.cpp` (`isDead`,
`cse_candidate`, `has_sideeffect`) tell apart; `add` stands for all arithmetic,
casts, GEPs, selects and vector operations. `attr` is what an instruction has
besides opcode, type and operands: the predicate of a comparison, the order in
which a phi lists its predecessors.

`SDom` is strict dominance between blocks; `DefsBeforeUses` is the verifier's
SSA rule. `LayoutFollows(SDom)` says that dominators are laid out first. The
verifier does not demand it, clang and the compilers here emit nothing else.
The "one pass is enough" properties need it, for the passes walk blocks in
layout order, and are stated under it; the safety properties are not.

`Semantics` is a reference interpreter: one-bit values which are also
addresses, a two-cell memory, events for calls, branches and volatile accesses.
It runs a module along a path, as control takes it through blocks: into a block
at its first instruction, through it, and from its last one into any block
(`Control`). A step of a path says whether it enters its block and from which of
two predecessors; all phis of a block read what their operands were on entry, so
they act in parallel, as LLVM's do. Two modules mean the same on a path if for
every value of the leaves and every initial memory they show the same events and
leave the same memory, which is what the `compare` target of
`wolfbench/Makefile.benchmark` asks of a reference output. `SameOnAllPaths(c, d)`
is that for every path there is, also through the places of what is no longer
attached, so the relation goes through several passes; it is what the theorems about
dce, cse and load_cse are about.

Where a value takes the place of one computed elsewhere, that is too much: a path that
came to a use without passing its definition would tell the two apart. `Possible` are the
paths of a program that the verifier accepts: control is in a block only after the blocks
that dominate it (`ThroughDominators`), what a phi takes is of the block control comes
from or of one that dominates it (`PhisComputed`), and a path ends at the end of a block.
`SameOnPossiblePaths(SDom, leaves, c, d)` says that every path possible in `d` is possible in
`c` and the same is seen on it, if the leaves have values among `leaves`. `Shaped` modules have
as many operands as the interpreter reads.

`SameMeaning` is the same on the paths straight through the module, and is what the
property `MeaningKept` of `LoadCSE`, `StoreCSE` and `Pipeline` says; the run `cse` adds paths around a
loop. The MC modules assume, and so TLC checks, that the modules are `Shaped` and that
these paths are possible, so that the conditions are met.

### The passes

| module | models | state in the model ↔ in the code |
|---|---|---|
| `DCE` | `dce` of `CSE.cpp`; `dce.cpp` is the same statement by statement | `fn` the outer loop, `pc`/`pos` the scan, `worklist` the set, `CSEDead` |
| `DeadCode` | what dead code removal promises: instructions outside `Survivors` go, in any order, until only survivors are left | implemented by `DCE` and by `ModuleDCE` |
| `ModuleDCE` | `RunDeadCodeElimination` of `tutorial/5/C/dce.c` over `worklist.cpp` | one `worklist` for all functions |
| `Simplify` | `simplify` | `bb`, `i` the loops, `CSESimplify` |
| `BasicCSE` | `cse` | `i`, `j` the pair compared, `CSEElim` |
| `LoadCSE` | `load_cse` | `i` is `L`, `j` is `subsequent_inst`, `worklist`, `CSELdElim` |
| `StoreCSE` | `store_cse` | `i` is `S`, `j` is `subsequent_inst`, `worklist`, both counters |
| `Pipeline` | the five calls on one module | instantiates the five modules over shared `code`, locals and counters; `Call` starts the next pass with fresh locals, `Report` is the printing at the end |

One action is one iteration of a loop, with everything it does: the comparison
of a pair with the replacement, the queueing, the counting and the move of the
cursor. `begin()` of a set of pointers is any member (`\E w \in worklist`).
`source` is the module a pass was given; no action assigns it.

Operators named `X_Something` next to `X` are *slips*: `X` with a plausible
mistake (a dropped test, a missed `break`, swapped arguments). Nothing uses
them; `PROJECT.json` lists which property each of them would break, which shows
that the property depends on that line of the code.

### The symbol table

`SymbolTable` models `symbol.cpp` with the productions of `cmm.y` that drive
it: `FunctionHeader` (the mid-rule action with `BuildFunction`), `LBrace`,
`LocalDeclaration`, `RBrace`, `FunctionEnd`, `InitializedGlobal`, the end of the
input and a syntax error. `scopes` is the list under `head`, with the head last;
a scope is a function from names to allocas, since `HASH_ADD` puts a second
entry of a name in front of the first. `open` holds, for each open compound
statement, whether declarations may still follow. `find` is `symbol_find`.

`Scoping` is lexical scoping without tables: one meaning of all names for each
open construct. Opening a construct may redefine any set of names, a declaration
redefines one, closing restores what was meant before. `SymbolTable` implements
it under `meaning[k+1][n] = find(scopes, n, k)`.

`symbol_find` has no caller in the template `cmm.y`; the properties are about
what it would return at every moment of a parse.

`HashTable` models the macros of `uthash.h` on which a scope rests: `Add`,
`Delete`, `Find` and `Clear`, with the doubling of the buckets (`Expand`) inside
`Add`. An item has two pairs of links, `next`/`prev` in the order of addition and
`hh_next`/`hh_prev` in the chain of its bucket. It implements `Dictionary`: the
items in the order they were added. Its invariant `Fsck` is the consistency
check that `uthash.h` has under `HASH_DEBUG` and nothing compiles in.

### The driver of C--

`P2Driver` follows one invocation: `Argument`, `Piece` and `CmdEnd` are the
scanner of the command line with `myinput` under it (`Word` is its rules, `start`
its start condition); `Main` is `main` up to `yyparse`; `Item` and `EndOfInput` are
the parse, with `yywrap`; `Finish` writes the output, or removes it. `files` is what is
in the files: `Main` empties the output, for `main` opens it before the first input
(`main.cpp:64`). That it can be opened is assumed. A file is a sequence
of declarations, which may hold `//END`, a syntax error or an illegal character.
What is written behind the array of input files is unknown, so the model ends
there (`stage = "fault"`).

### The scanner and the parser of tutorial 3

`Scanner` is flex's `yylex`: the buffer with its end marks, the held character,
the match loop one character at a time, and the action for the end of the buffer
in its four cases (`RealNUL`, `ContinueScan`, `LastMatch`, `EndOfFile`). The tables
are constants; `ExprScannerTables` holds the generated ones. It implements
`ExprTokens`, which reads a file by the rules of `expr.lex` alone.

`ExprParser` is Bison's `yyparse` with the generated tables: `ReadToken`, `Shift`,
`Reduce`, `SyntaxError`, and `Enter`, which makes room in the stacks. Of the values
on the stack only the operator at the top of an expression is kept, for
precedence. `yylex` returns any token. It implements `ExprLanguage`: a reader of
programs with a stack of what is open, a note of what is expected and the token it looks
at (`ahead`), under a mapping that reads the first two off the stack of states (`Nest`,
`At`) and the third off `yychar`. `Take` and `Reject` are of that very token.

### The compiler of p1

`P1Compiler` has one action for each rule of `p1.y`. `forms` is the parser's stack:
an action closes the innermost form and makes its value an argument of the form
around it. An argument is an `expr_wrapper`: the LLVM value and, if it may be
assigned to, the address it was loaded from; `code` is the block that `Builder` appends
to; `idLookup` is the map of variables. `Execute` says what an LLVM instruction
does. `ProgramEnds` is where the parser returns: behind a form which is in no other, at
whatever is not `(`, for `program: exprlist` is reduced there without a look at what
follows, and its action ends the parse. `Lisp` has no compiler: it evaluates each form where it closes, on an
environment and arrays. The refinement calls the code built so far, and maps what
it has computed to what `Lisp` has. After an undefined operation (an index outside
its array, a division by zero) nothing is said.

### The queries

`Analyses` models `dominance.cpp`, `cfg.cpp` and `loop.cpp`. `Current`, `DT`, `PDT`
and `LI` are the cache; a query is one action that brings the cache up to date as
the code does and leaves its answer in `answer`. The trees are made anew for another
function, the loop table is not: LLVM's `analyze` adds to it. So `LI` keeps the depths of every
function as its first analysis left them, and `analysed` counts; after a second analysis
the old loops lie inside the new ones, and the depth is any that is not smaller (`Nested`,
by at most `MaxDeeper`). A walk is a `First` and then
`NextStep`s: it keeps the block it gave last, and each step searches the line of
neighbours for it. LLVM's analyses are external and defined on graphs (`Dom`,
`Tree`, `Loop`). Callers may ask in any order, and `Edit` changes a function
between two questions.

## 3. What the models leave out

*Outside `src/`* (marked external in the map): LLVM's use lists, erasure,
replacement, the instructions that `p1.y` builds, and `SimplifyInstruction`. The
last is modelled by four of its rules: `x + 0`, `0 + x`, strict comparison of a value
with itself, and phi of one value. No dominator tree is handed to it, and then LLVM
replaces a phi by an instruction only if that instruction is in the entry block; the
model asks that its block strictly dominates the phi's, which the entry block does.
In `P2Driver` flex's request for input is external (`Offered`), as the
scanner made of `cmdline.lex` is not in the repository.

*Left out:* the formatting of output and reports, bitcode I/O; flags such as nsw
(the interpreter has no poison); exceptions and `invoke`; more than two
predecessors of a phi; read errors and exhausted memory; in the scanner, a
`yyin` that is a terminal gives one line at a time, in the order of the file.
Characters stand for all of their class in the scanner's tables. Blocks have no
successors in the model: the passes look at no branches, so control flow matters to
them only through dominance, which is a parameter, and `Control` lets a block follow
any other, more paths than a function has. Components marked `not_modelled` or `partly` have their reason in
section 8 and `PROJECT.json`.

## 4. Runs and bounds

Each MC module enumerates the modules a pass may be given: all that the
verifier accepts over a menu of instructions which the pass can tell apart.

| run | question | bounds | states |
|---|---|---|---|
| `dce` | any pointer order, one worklist per function (`DCE`) or per module (`ModuleDCE`): no freed pointer read, nothing dead left, same result, both implement `DeadCode` (with its liveness) | one function of 4 instructions or two of 2; 1 leaf | 176,040 |
| `cse` | `simplify` and `cse`: one pass is enough, SSA rule and meaning kept, also around a loop | 5 instructions in 1 or 2 blocks, the second may be a loop; 0 and one leaf; two predicates in the loops; meaning where `MatchesTell` | 522,648 |
| `load_cse` | queue unused, SSA rule, no redundant load left, meaning kept without calls | 5 instructions in 1 or 2 blocks, 2 leaves, stores and calls | 287,413 |
| `store_cse` | the same, exact counters, calls and volatile loads included | 5 in 1 block, 4 in 2, no volatile stores | 145,820 |
| `pipeline` | five passes in turn: SSA rule, effects, meaning, order of the calls, termination | 4 to 6 instructions in 1 or 2 blocks | 456,493 |
| `symbol_table` | pushes and pops balance, no foreign alloca, lexical scoping; in a hash the two linkings agree and an item is found while it is there | 2 functions, 3 allocas each, 3 blocks deep, 2 names; 5 items, 2 with one key; 1 to 8 buckets, doubled when a chain has 2 | 12,215 |
| `p1_compiler` | the compiled function does what the program says; where a program ends | a declaration, an assignment and an expression of up to 3 arguments; 10 broken or with text behind their end; 2 inputs; words of 3 bits | 471,492 |
| `p2_driver` | what is written is whole, also if the output is an input; every invocation ends | up to 4 of 8 words; 3 files; a buffer of 8, reads of 4 | 42,751 |
| `scanner` | pointers stay in the buffer, nothing is lost, the tokens are the grammar's | files up to 4 of 5 characters and 6 longer ones; a buffer of 2, reads of 2 | 46,394 |
| `parser` | stacks have room, reductions are right, the language is the grammar's | all tokens, stacks of 4 that grow to 10 | 249,593 |
| `analyses` | when cached answers are right, when walks are complete and end | 2 functions of 4 blocks, 2 graphs, 1 change; `MaxDeeper` 1 | 57,112 |
| `store_cse_volatile` | a finding, section 7 | 4 instructions | — |

Why these bounds show the interesting cases. In `dce` a chain of three, a
phi cycle (dead but never unused), an operand queued twice and a volatile load
fit into four instructions, and two functions make a stale worklist visible. In
`load_cse` three equal loads through an address which is itself a load, with
another load queued in between, need four instructions and one that uses the
result; in `store_cse` two stores with forwarded loads between and a call need
the same. A second block shows what is left over from the first. The pipeline's
menus hold what one pass enables for another: `x + 0` addresses, equal
additions, loads of them. Two names and three allocas give shadowing, a
redeclaration in one scope and two equal parameters. Five items make the buckets
double twice, with a chain that stays too long. In p1 an argument may assign to the
variable or element that its neighbours read, places reach `setf` through `/`, `min`
and `setf` itself, and with three bits subtraction wraps and an index is negative. Four arguments hold two files
around an `-o` and its name. A buffer of two is moved, refilled and doubled twice
within `while`, and every token of four characters begins and ends at every
place of it. Stacks of four grow to eight and to ten and are exhausted, and ten
hold every pair of nested constructs, so each state is entered from each of its
predecessors. The two graphs have a join, two loops, a double edge, and a
block that is not reached; three questions analyse a function twice. The mutants in `PROJECT.json` confirm it: under the
same bounds TLC finds each slip.

Three runs hold two models each: `dce` and `cse` one after the other on the same
modules (`DCE`, then `ModuleDCE` on a copy; `BasicCSE`, then `Simplify` on a copy),
`symbol_table` one or the other (`SymbolTable`, or a hash of it, `HashTable`).

The pipeline's menu has no calls, volatile stores, comparisons or phis, where
section 7 has something to say. In `cse`, `MeaningKept` is about modules whose matching
instructions agree in what the pass does not compare (`MatchesTell`: predicates and
phi orders); without that condition TLC finds the violation. `MeaningKept` of
`load_cse` is for modules without calls (`NoCalls`), `store_cse` has no volatile stores.

Deadlock checking is off where the program stops: a pass that has returned, a
parse, a scan or an invocation that has ended. That they do not stop earlier is
`Terminates` of `pipeline`, `Ends` of `p2_driver`, and the liveness parts of
`ImplementsDeadCode` and `ImplementsTokens`.

Properties worth a remark:

* `DeadIsPending` (DCE): at every step each dead instruction is ahead of the
  scan or queued. The code's comment that an operand must not be tested before
  the erase is about this.
* `OrderIndependent`: `Survivors` is the union of all *supported* sets, in which
  each removable member has a user in the set; dead phi cycles survive, as in
  the code.
* `QueuedUnused` (LoadCSE, StoreCSE): the drain erases without a test. A queued
  load can become `L` and have uses moved *to* it; they leave it again before
  the drain, since everything it can gain is repeated by the earlier load that
  had it queued.
* `ObservableKept` (Pipeline): what dce spares does not become removable for
  later passes, and each store that goes is counted.
* `NothingLost` (Scanner): between two tokens and in the middle of one, what has
  been read and not handed out is in the buffer in order, with the one byte that
  is overwritten accounted for.
* `ImplementsLanguage` (ExprParser): default reductions are made before the next
  token is looked at, yet the token read is shifted exactly if a program goes on with it,
  and refused otherwise; the state entered is one of its symbol (`EntersAs`);
  and the parser comes back for another token or returns (`[]<>Waiting`).
* `ReducesHandle` (ExprParser): precedence has been compiled into the tables; the
  property finds it again in every reduction.
* `AnswersRight` (Analyses): states what the cache does promise. The exceptions
  in it, a function changed while its trees are the cached ones and the loop depth
  in a function analysed twice, are what the code does not handle.
* `WalkComplete` (Analyses): that every neighbour is met, not that it is met once; a
  predecessor by two edges is met again.
* `WalkEnds` (Analyses): a walk keeps no position, so that it ends is a property
  of the graph: without two edges between the same blocks it does.
* `ImplementsLisp` (P1Compiler): names are loaded when they are read, not when the
  form that uses them closes, so arguments see exactly the assignments to their
  left; and a place is what the last `aref` was, through any form that hands its
  one argument on.
* `NothingLeftToForward` (StoreCSE) excepts loads and stores with a volatile store between
  them in the source: it ends the search of the stores before it, and may then be erased
  itself.
* `EqualAddressesLoadedOnce` (Pipeline): load_cse compares addresses as values,
  so `cse` must have made equal addresses one value first.

## 5. Fairness

`WF_vars(Next)`, for the passes, the scanner, the parser and the driver (there
`WF_drivervars(DriverNext)`): the
programs are sequential, have no early exit from a pass, and wait for nothing but
`read` and `yylex`, which return; so they take steps as long as they can. Which
member of a set, which token or which length of a read comes next stays free. In
`analyses` the fairness is `WF_queryvars(NextStep)` only: a caller that walks asks for
the next block again and again; nothing obliges it to ask anything else. The runs
`dce`, `pipeline`, `p2_driver`, `scanner`, `parser` and `analyses` use it; all other
properties are safety.

## 6. Proofs

All proofs hold for any `Inst`, `Leaf`, `Programs`, `SDom`, numbers of functions
and blocks, and any bounds of the symbol table, from the named assumptions:
positions are natural numbers apart from leaves; a given module is well formed,
obeys the SSA rule, and its loads and stores have their operands; dominance is
a strict order; the pipeline's `Zero` is a leaf; the scanner's buffer has room for two characters, its input for
one, and its tables meet `TablesAssumption`; the blocks of a CFG are numbered from 1, its
successors are blocks, and neither null nor the fault is one of them; the arguments of a
command line have lengths, files hold items, and the room for reading is at least two
characters and smaller than the buffer. TLC evaluates them in every run.

`IRLemmas`: erasing something unused and replacing uses keep a module well
formed; replacing uses of `r` by `v` keeps the SSA rule if `v` comes before every
place where `r` may be used (`ReplaceKeepsSSA`).

It also has the lemmas about runs from which the meaning of a pass follows.
`ErasedRuns`: of two modules, one of which lacks an instruction that nothing uses
and that does nothing visible, the runs along a path agree in everything but the value of
that instruction. `ReplacedRuns`: let the uses of `b` be moved to `a`, both in one block,
and let `b`, whenever control comes to it from `a`, yield what `a` has yielded (they do
the same with the same operands, and what they read has not changed). Between the two
steps `b` is *awaited*: its value is still the one of the block's last run, but it is going
to be `a`'s. Nothing that uses `b` is reached there, since uses come after `b`, phis read what
was true on entry, and everywhere else the two values are equal. No property of
dominance on paths is needed for that, and the path may go round any loop.

For a value from elsewhere it is. `Recent`: `r` has been executed, and `v` not since. On a
possible path that is so whenever control comes to a use of `r` (`RecentAtUse`, and
`RecentAtPhi` for what a phi read on entry): `v` dominates `r` and `r` the use, and to come to
`v` again means to pass `r` again before the use. So if `r` *yields* what `v` has, given
that it did so before (`Yields`), the two agree at every use, and `ForwardedMeaning` lets the
uses of `r` move to `v`. `Yields` is shown for `x + 0` (`SumYields`), a comparison of a value with
itself (`SameYields`), a phi of one value, itself apart (`PhiYields`), and a load after a store to
its address (`StoredMeaning`). A store that goes is the other case. From it to the one that
overwrites it, two runs have different memories and may read different values into the queued
loads, which nothing uses; `ErasedStoreRuns` follows the two until the second store makes
them equal, with the queued loads left out (`Remnant`). `MeaningOnward` puts changes
together.

`DCEProofs`. `IInv` joins the type invariant with `WorklistLive`, `NoDangling`,
`DeadIsPending`, the survivors being attached and the count. `WorklistLive` is
not inductive alone: an erased instruction's operands are queued, and they are
attached only because nothing dangles, which in turn needs that what is erased
is unused. Inductive `DeadIsPending` gives the fixpoint at the end, and with
the survivors' lower bound, that the result *is* the set of survivors. The
refinement maps each erase to `Sweep` with one member, the last `NextFunction` to
`Finish`. `SoundSoFar` relates a module to the one it was made from by erasing: it is
kept by erasing a dead instruction (`EraseStaysSound`), whatever worklist named it, and
implies `SameOnAllPaths`. The same module proves what one worklist for all functions
does: `ModuleInv` is the invariant of `ModuleDCE`, `ModuleResult` says that it leaves the same
survivors, `ModuleRefinement` that it implements `DeadCode`, `ModuleKeepsMeaning` that nobody
sees a difference.

`BasicCSEProofs`. `ComparedInv`: of each pair the pass has compared and that
matches *now*, the later one is unused. It is inductive because moving uses from
`j` to `i` changes only instructions after `j` — dominators laid out first — and
a compared pair that comes to match later would have to use `j`. `KeepsMeaning` applies
`ReplacedRuns` to each replacement. It needs `MatchesTell`: the pass compares opcodes, types and
operands, so it is right only about modules in which these tell comparisons and phis apart.

`LoadCSEProofs`. `QueueClosed` is the strengthening behind `QueuedUnused`: if `w`
is queued, each later load that repeats `w` without a store between is queued
too, or still to be compared with the load that had `w` queued. So when `w`
itself becomes `L`, whatever it would take uses from has none. `ResultInv` adds
the compared pairs for `NoRedundantLoad` and the counter's lower bound. `KeepsMeaning` has
`NoCalls` as its condition: the search stops at stores and goes on past calls. Between a
load and the one it replaces no step of a path then changes memory, and the drain is an
erasure of unused loads.

`StoreCSEProofs`. `CursorInv` (no store between `S` and the cursor) and
`QueueBehind` (what is queued is behind the cursors, or no store before it is
left to visit) make a value forwarded later never one that is queued; the
exact count follows, since nothing is queued twice. `ResultInv` is for
`NothingLeftToForward`: what is left between a store and a load when the block is
drained was passed by the cursor, or queued, or put an end to the search (`PassedInv`,
`Searched`); forwarding changes operands behind the cursor only, and what comes to match through it would
have had to match before.
`CoveredInv` is what erasing a store rests on: each store in the queue has a store after it to the
same address (`Covers`), and only queued loads and instructions without effects between the two; the drain may
take a covering store before the one it covers, and then what covers it covers both.
`KeepsMeaning` follows from it for modules with `NoVolatileStores`, and `MeaningIsKept` is what the run compares.

`PipelineProofs`. The proof modules of dce, cse, load_cse and store_cse are instantiated with
`given`, the module as the pass at hand got it, and with the modules `Accepted` by LLVM's
verifier for `Programs`: their assumption becomes the contract between passes. What a
pass leaves is accepted, so the invariant of the next holds when it is called, and every step
of the pipeline is a step of an instance or leaves its variables alone (`Invariance`).
`DominanceKept` follows. Other properties need what passes leave *each other*:
`Origin` (no opcode ever changes, instructions only go) and `ObservableInv` give
`ObservableKept`; for `EqualAddressesLoadedOnce`, `TwinsInv` follows two loads whose addresses the source
computes alike through all passes: their addresses match until `cse` has
made them one value, `load_cse` has made the loads one, or the later is volatile. `simplify` visits one
address before the other, so for a while only what the two simplify to agrees
(`HalfSimplified`). `SimplifiedInv` gives `SimplifiesOnce`, for the whole of `simplify`: what it has
visited and would still simplify is unused.

`KeepsMeaning` says of the five passes together, and so of `simplify`, that no step of
any of them changes what is seen on a possible path, for every module that is `Shaped` and
`Faithful`: candidates that match agree in what is not compared, there are no calls and no volatile
stores. Each of the three conditions is a behaviour of the code that section 7 lists, and
they are asked of the source only. The argument goes change by change: a step of a pass is one erasure
or one replacement (`DceStep`, `SimplifyStep`, ... `StoreStep` say of what), `Frame` carries what the
conditions say of the source to the module at hand, and the lemmas of `IRLemmas` do the rest.

`LookupProofs` is about the two parts that answer from what they have stored. Of the symbol
table: `Balanced` relates the length of the list to the open
blocks and the parser's position; `OwnScopes` says that all scopes of the list
hold allocas of the function being built; `MadeSoFar` that earlier allocas have
smaller numbers. With them: the parser pops only what it pushed (`TypeCorrect`),
no name finds a foreign alloca (`FindsOwn`), and every production is a step of
`Scoping` or none (`Refinement`). `find` is characterised by the innermost scope
that has the name, which exists by the well-ordering of the naturals
(`Least`, `Greatest`); `FindPushed`, `MeaningPopped` and `MeaningBound` say what a
push, a pop and a declaration do to every name.

Of the queries: LLVM's analyses are defined on graphs, and the answers come out of trees,
so first the two have to be the same for every CFG. `Reach` takes as many steps as there
are blocks; `ReachLeast` shows, by counting, that it gets to the least closed set.
All that is needed of dominance follows from least closed sets, without paths:
it is transitive, and of two dominators of a block one dominates the other
(`DominatorsInLine`), so the set has a deepest member, the tree exists, and going up
in it is dominance (`AboveIsDominance`, by the uniqueness of the function `Above` chooses). The
invariant `QueryInv` has three parts. `CacheRight`: the trees are those of the current function,
and the loops those of each function analysed once, unless it is in `edited`. `WalkRight`: a walk over a function that nobody changed has
seen whatever stands before its place in the line of neighbours (`Passed`), though each step looks the place up
again, in a tree that may have been made anew. A block that is in the line twice, as the
predecessor by two edges, is found at its first place each time: such a walk goes round, but
it passes over nothing. `AnswersRight` itself is the third. `WalkComplete` follows with `LineIs`:
what `SetToSeq` and `FlattenSeq` put in a line is the set of the neighbours.

`InputProofs` is about the two parts that read an input piece by piece. Of the
scanner: the automaton is any that meets `TablesAssumption`: all states but
the start and the jam accept something, nothing leads back to the start or jams at
once, the end mark leads to the state that accepts it and nothing else does. `IInv`
adds to `TypeOK` and `NothingLost` that two NULs stand behind the text, counting the
held character in its place (`Marks`); that in the middle of a match the state is the
start exactly at the token's first character, and that a state which accepts nothing
anywhere else has behind it a valid last match of this token (`InMatch`, `InFind`);
and that only a match of the end mark ends at the buffer's end (`ValidAt`). The
difficult steps are those that run the automaton again: `Accepted` shows that a text
on which it jams has a prefix it accepts, so that `yy_get_previous_state` replaces
what it remembered by positions of the moved buffer; and `Refill` that what is moved
and what is read are together the file's next characters.

Of the driver of p2: `DriverInv` follows the input through three stages. While the command line is read
(`ArgumentsRead`) the files named are what `Asked` has computed of as many arguments, and
`FNAME` is on exactly if an `-o` still waits for its name. Behind it
the files are those asked for, and the output is empty (`OutputIsEmpty`). While they are parsed (`DoneAndLeft`), the declarations
made, as items, and what is left of the current file are together the items
of the files opened so far, in their order; the steps that matter are `yywrap`'s, which puts the
next file's items behind, and the end of the parse, where nothing is left or `//END` is
next, so that what was made is the program (`ProgramOf`). `WhatIsKeptIsWhole` follows. `Asked`
and `FlattenSeq` are recursive functions; that they exist is `PrefixRecursion`.

*Only model-checked*: the hash table, the parser (its theorem would be about one
table of numbers) and `P1Compiler`, which builds lists of
instructions by folds; that the scanner implements `ExprTokens`, where the longest
match is recursive; what `cse` states in its run about one pass (`NoSimplifiableUse`,
`MeaningKept`), which is proved of the pipeline; and everything about what must
happen in the end, that a walk ends and that an invocation does among it.

## 7. Findings

| run | what the code does |
|---|---|
| `store_cse_volatile` | the volatile test is on the overwriting store, so a volatile store is erased (`CSE.cpp:481`, against its comment at 444) |

The property of the run is violated by the code; `PROJECT.json` quotes the line
that says otherwise.

Seen while modelling, without a run of their own:

* `load_cse` passes over calls: a load after a call that writes the address takes
  the value from before it (`CSE.cpp:358`); a load that repeats two earlier ones is
  counted twice and erased once (355, where the comment at 330 has one count for
  one erasure).
* `cse` takes comparisons of the same operands with different predicates for one
  (269), and phis that list the same values for other predecessors. It counts
  eliminations and erases nothing, and dce has run already, so what it replaces
  stays in the output.
* `main.cpp` of p2 opens the output before it reads anything (64): with `-o b a b` the
  declarations of `b` are lost, and the output is kept without them. It
  returns success always: nothing adds to `num_errors` (94). If the
  first input cannot be opened, standard input is read for it; if a later one
  cannot, the files behind it are ignored and the output is kept (`cmm.y:463-489`).
  With `-use-stdin` an input without `//END` or an error is never over. An
  argument of 8192 characters or more reaches the scanner as another word, and
  the arguments behind it are dropped (`cmdline.lex:65`). The number of input files
  is not tested (39).
* An initialised global before the first function uses a null `Builder`
  (`cmm.y:395`, the step `InitializedGlobal`, in a production marked as unfinished).
* `uthash.h` lets a key be added twice; which item is found then changes when the
  buckets double, for that reverses chains.
* p1 never reads what follows a complete form unless it is `(`: `program: exprlist` is reduced
  by default and its action returns (`p1.y:70-78`), so `(setq a 1) )` is compiled.
* p1 compares and divides as unsigned (`p1.y:125`, 170, 191), while the functions it
  makes are called as `int` (`tests/main.c:5`): `(min (- 1) 2)` is 2. `Lisp` is unsigned
  too. Of one argument, `/`, `min` and `max` hand the address on, and `setf` and
  `make-array` that of their last, so `setf` may be given them for a place.
* The walk over successors does not end on a block with two edges to the same
  successor (`cfg.cpp:53-64`). The loop table is never emptied: when a
  function is analysed again its loops are put inside the new ones, so its depths grow, and
  the depth in a function not analysed so far is 0 once another was (`dominance.cpp:45-52`,
  136-142); trees of a function that was changed are not made anew (35).
* The checked-in `expr.y.cpp` is of an older grammar than `expr.y`: a variable in
  an expression, a product and `!` have no action there. Its rule 2 accepts at the
  final brace, so text behind it is never read.

## 8. Not modelled, and plan

*Not modelled*, with the reason: `summary.cpp` counts and prints; `main.cpp` and
`transform.cpp` of p3 parse options, move files and call LLVM, straight through;
`list.cpp`'s loop stack and `valmap.cpp` have no callers; the grammar actions of the
tutorials call the LLVM builder and keep one map of variables; tutorials 1 and 2 run the same engines as tutorial 3 with smaller grammars; the
C versions and the trees under `projects/` are copies or unfinished templates;
the unused functions of the generated scanner and of `uthash.h` (several buffers,
strings, sorting, selecting). `wolfbench/` is third-party code.

What would come next:

1. *Proofs*: `Fsck` of the hash; that the scanner implements `ExprTokens`.
2. *Abstract specifications*: load and store elimination as a refinement of
   "replace a load by any earlier value of the same address", in which the volatile
   and the call case are failures of the refinement.
3. *Semantic actions*: the map of variables of tutorial 3 on the value stack of
   `ExprParser`, as `P1Compiler` has it.
