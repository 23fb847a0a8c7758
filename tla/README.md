# A verification of the stacky compiler

stacky compiles a small stack language to x86-64 assembly, which it hands to
`nasm` and `ld`. This directory holds TLA+ models of the parts of the compiler
where control is intricate, configurations that check them with TLC, and proofs
that TLAPS checks. Paths below are relative to the repository; `src/src/...` is
the compiler itself.

## The system and its parts

| Part | Source | Module | State |
| --- | --- | --- | --- |
| lexer, integer literals | `lexer.cc`, `utilities.cc` | `Lexer`, `IntegerLiterals` | modelled |
| inclusion of files | `stacky.cc`, `parser.cc` | `Includes` | modelled |
| strings, characters, UTF-8 | `parser.cc`, `unicode.cc` | `Strings` | modelled |
| definitions, operations | `parser.cc` | `Definitions` | modelled, without sizes and values; proved |
| linking of blocks by jumps | `parser.cc` (`crossreference`) | `Operations`, `Crossreference` | modelled, proved |
| types and effects | `types.cc`, `stacky.hh` | `Types` | modelled, without their formatting |
| typechecker | `types.cc`, `stacky.cc` | `Typecheck` | modelled, proved sound |
| optimizer | `optimizer.cc` | `Conditions`, `Folding`, `UnusedWords`, `Optimizer` | modelled; `UnusedWords` proved |
| generated instructions | `linux-x86_64.cc` | `Execution`, `Machine` | modelled, by kinds (proved) and by words |
| generated calls | `linux-x86_64.cc` | `Calls`, `CallStack` | modelled, proved |
| running `nasm` and `ld` | `os-exec/os-exec.hh` | `OsExec` | modelled, without `run_echo`; proved |
| phases, errors, files | `stacky.cc`, `errors.hh` | `Driver` | modelled, each phase by how it ends; proved |
| control flow graph | `debug.cc` | `ControlFlow`, `Backend` | modelled |
| command line, `ipstream.hh` | `arguments.cc` | | out of scope, see the end |

`main` (`stacky.cc`) lexes the source files, splices included files into the
token vector, makes words and bodies of the tokens, links every body, and then
typechecks (with `--check`), optimizes and generates. `Driver` follows these
phases and calls `OsExec` for the two tools. `Execution` puts the typechecker and
the generated code together: it extends `Typecheck`, and runs what that accepts.
A body is the same sequence of operations in `Crossreference`, `Typecheck` and
`Execution`, with the jumps that `Crossreference` is shown to compute; `Execution`
runs it as it is before `optimizer::optimize`, which `main` always calls, and what
that changes is the subject of `Optimizer`. `Execution`
takes calls and returns for granted; `CallStack` shows, on its own, how the
generated code keeps return addresses. `Definitions` makes the bodies that
`Crossreference` links, and shows what `Crossreference.AssertNeverFires` assumes: an
`end` is emitted only for a block begun in the same body (but see the known deviations).
`Machine` is the yardstick for the optimizer and for the control flow graph: a body means
what its instructions do. `Optimizer` composes the passes as `INSTANCE`s, and `Backend` puts `ControlFlow` behind
it: what is drawn is what the optimizer has left. `Lexer` calls `IntegerLiterals` step by step.

## The modules

**Operations.** The kinds of operations; and, as a reference, when a body is well
formed and which jump each of its operations calls for (`Block_Jump`), stated by
counting openers and `end`s rather than by a pass with a stack.

**Crossreference.** One action per case of the `switch`, the two `ensure`s, the
`assert`, and the two error reports. `status` tells these endings apart.

**Types, Typecheck.** `frames` is the stack of calls of `typecheck`; a frame holds
the vector `states` and `visited_do_ops`. Each `case` is an action; the endings
are `rejected` (`exit(1)` with a message), `assert`, `crashed` (memory outside a
vector is read: `join` on a mismatch with several effects, and a dynamically
typed function without operations) and `exhausted` (the host stack, of
`Max_Frames` calls). The order in which `unordered_map` yields the words is
left open.

**Execution.** `data` is the data stack with a value's kind for the value. What an
intrinsic reads and leaves (`Emitted`) is transcribed from its instructions,
independently of the effects in `Types`; a condition may turn out either way.
Each frame of `calls` also keeps, as history, the data stack found on entry. `top`
pushes the address of the data stack, and arithmetic and casts make an address of
anything, so a store, and the kernel in a `syscall`, may write any value to any slot
below their operands (`Writable`); `written` remembers which slots. Writes to other memory
(arrays, strings, code, the call stack) are not in the model, nor are the values that a load finds there
beyond their kind.

**Calls, CallStack.** `Calls` is what a program expects of a call. `CallStack` has
the array, the pointer `_stacky_callptr` that lies right behind it, and the
prologue and epilogue as actions. A code address, once the pointer has been
overwritten by it, is taken for an index outside of mapped memory, so that its use
is a fault. This is an assumption (`CallStackAssumption`) on the linked program: its
code lies at some 4 MB, and eight times that is past `.bss` unless the program's
arrays take up tens of megabytes.

**Includes.** One action per outcome of a round of the loop in `main`. Files are
constants: `Canonical` stands for `fs::canonical` (one file may have two paths),
`Broken` for files that cannot be read. A token's `dangling` says that the
`string_view` of its file name refers to freed memory: `Grows` gives the sizes at
which the vector of libstdc++ reallocates, `Short` the names that a `std::string`
keeps inside itself. One source file is given on the command line.

**OsExec, Driver.** Parent and child of `os_exec::run` interleave freely; `mmap`,
`fork`, `exec` and `waitpid` may fail, and the child may be killed at any point.
`Driver` adds the phases and what becomes of the assembly, object and executable
files, which an earlier build may have left. `Compilation_Failed` is `static` in a
header while the functions that set it are `inline`: which unit's flag an error
sets is undefined, so the model leaves it open. Two phases need not end, and may go to
`endless`: splicing in files that include themselves, and drawing the graph of an empty loop.

**Lexer, IntegerLiterals.** `Lexer` has one action per branch of the loop in `lex`; `line`
and `column` are kept by hand as in the code. A text that is no keyword is given to
`parse_int` in the base of its prefix and, if that refuses, in base ten:
what is stripped, where the table of powers is entered, one action per digit. A read
beyond the terminating NUL, or outside the table, is an outcome of its own. `Width`
replaces 64, and `Max_Digits` the table of `max_digits64`.

**Strings.** `parse_stringlike` as actions on bytes, one per kind of escape, with the
`exit(1)` of a malformed one, `encode_rune`, and the two accumulators: the texts of
`extract_strings`, which enters them into the table of strings, and the number of a
character token, with the sign of `char` and the masked count of a shift of `int`.

**Definitions.** `register_definitions` goes forwards with `i`; the translation goes
backwards with `frames`, the activations of `function_into_operations` with main's at
the bottom. A token is its kind and text, an operation its kind and the place
of its token. The outcomes tell apart `exit(1)`, an exception, an unreachable
statement, a failed assertion and a token read outside the span.

**Machine.** Words are `Width` bits wide. `Step` is one emitted operation; a call of
another word is opaque and recorded with the stack it finds; `random32` takes the next
word of a given sequence. `Same_Meaning` compares two bodies by their calls, their
final stack and how they end, for every sequence of a set.

**Conditions, Folding, UnusedWords, Optimizer.** The passes at the granularity of
their loops. Each `remap` and `erase` is kept in its place, jumps are unsigned and
wrap, and an access outside the vector is an outcome of its own. `misread` remembers, as
history, that a block was rewritten of the kinds that `Conditions` gets wrong (`Misread`). `Folding` computes
signed, as the pass does, while `Machine` computes unsigned. `UnusedWords` is the
depth-first walk with its stack; the search by id may find any word with that id, for
the table is an `unordered_map`. `Optimizer` calls the passes in turn, over main and then
over the words in any order, and replaces `UnusedWords` by its effect.

**ControlFlow, Backend.** `Draw_Node` per operation, then one step per turn of the loop in
`link_next`. `Backend` asks for main or for a function once the optimizer is done. A file that
cannot be created, a word that is not known, or no longer, and one that is not a function end the
compiler.

## The runs

| Run | Configuration | Question | Bounds |
| --- | --- | --- | --- |
| `crossreference` | `MCCrossreference.cfg` | Are exactly the well formed bodies linked, with the right jumps? | all bodies of up to 6 operations over the 6 kinds the pass tells apart |
| `execution` | `MCExecution.cfg` | Is what the typechecker accepts safe in the generated code, and does the checker come to a verdict? | all well formed bodies of up to 6 operations over two constants and `drop`, loops in loops and branches in loop conditions; every intrinsic on up to 4 operands of 3 kinds; functions of up to 3 operations and longer ones, called in five ways, and by another word in one; 4 nested calls |
| `callstack` | `MCCallStack.cfg` | Do prologue and epilogue implement calls? | 2 words, 4 nested calls: beyond the overwritten pointer and the fault |
| `includes` | `MCIncludes.cfg` | Is splicing the same as expanding each file in place, and do imports end? | 6 files, 2 directories, a link; up to 6 files read |
| `included_names` | `MCIncludes_names.cfg` | Does a file name stay readable? (It does not.) | the same, with two short names |
| `driver` | `MCDriver.cfg` | Are success, exit codes, children and files right under every failure? | 2 errnos, 3 exit codes, 1 signal |
| `lexer` | `MCLexer.cfg` | Are locations, ends of literals and integers right? | all files of up to 6 characters of layout, quotes and words; all texts of up to 5 characters in every base, with every type; words of 4 bits, so that more digits are written than fit |
| `strings` | `MCStrings.cfg` | Are texts decoded as written, ids given by text, runes UTF-8, characters their bytes? | pairs of texts of up to 5 bytes; both sides of every change of a rune's length, and runes of up to 31 bits; characters of up to 10 bytes |
| `definitions` | `MCDefinitions.cfg` | What can any sequence of tokens do to the parser, and does each body get its own operations, in order? | all of up to 5 tokens over two sets; all signatures of up to 4 tokens; functions, lambdas and blocks nested three deep |
| `unused_words` | `MCUnusedWords.cfg` | Is exactly what main reaches kept? | 2 functions, an array, an intrinsic, a string; up to 2 references per body |
| `backend` | `MCBackend.cfg` | Do the optimizer's passes, one by one and together, keep the meaning of a program, settle, and leave what the graph then shows? | words of 4 bits; 3 bodies; conditions known, decided by folding or by the run; a known `if` with, without and with an empty `else`, and a known loop, with blocks before, in, around and after them; every folded intrinsic after up to 2 integers or unknown words; stretches in and around blocks; blocks nested two deep; 5 sequences of random words |
| `known_conditions` | `MCBackend_without_else.cfg` | Is the branch of an `if` that is always taken kept when there is no `else`? (It is not.) | 64 bodies |

All passing runs set `CHECK_DEADLOCK FALSE`: each models a program that comes to
an end, or reaches a bound (`Max_Calls`, `Max_Depth`, `Max_Splices`) on the number
of steps that are followed. Six operations hold two branches one in the other, with their
conditions, or a loop with a body; the nestings of and in loops, which take more,
are added one by one. `Execution` checks what holds of accepted programs;
programs that say `any`, with which types compare equal to all others, are exempt
from the two properties on types, and only from those.

### What they show

- `LinksFollowBlocks`, `AcceptsWellFormed`: the stack of open blocks never mixes
  up two blocks; a pass without an error means a well formed body.
- `NoUnderflow`, `EffectsHonoured`, `OperandsAsTyped`, `CallersDataKept`: the
  typechecker is sound for the code of the bodies it has seen, before the optimizer
  changes them, through loops, early returns, recursion and dynamic functions. Depths and
  what is read and popped are right whatever a program does with addresses; kinds, and the
  slots of callers, only as far as no store or `syscall` has written to them through an
  address: `top 8 + 99 store64` is accepted, and changes the caller's value.
- `CheckerTerminates`: the walk ends because a second arrival at a `do` ends its
  path.
- `ImplementsCalls`: a refinement; up to the size of the call stack calls behave,
  and beyond it they fault, but never return to a wrong place (given that code
  addresses are no indices, see above).
- `ExpandsInPlace`, `ImportsTerminate`: see the table.
- `SuccessMeansRan`, `ExitCodeIsPrograms`, `NoChildLeft`, `FreshExecutable`,
  `BuildEnds`: the shared word and the exit code together suffice to tell a
  failed `exec` from a failed tool; no build that reports no error ends with the
  executable of an earlier one, and every build ends but for the two loops above.
- `PassesKeepMeaning`, `PassesSurvive`: the arithmetic of the remapping is right, and only a
  warning reads outside, for every known condition that is not `Misread`; jumps follow a
  folded stretch that shrinks, grows or vanishes. `Misread` lists, case by case, the blocks that
  are rewritten wrongly (see the known deviations); the run contains them, and from the first of them on
  nothing is claimed of that program's meaning. The first property also exempts bodies in which a word with the top
  bit meets an intrinsic that the pass computes signed and the code unsigned (`Sign_Matters`),
  and the second the division by zero in a body with jumps, which ends the compiler though it may never run.
- `NothingUsedErased`, `OnlyReachableKept`, `WordFound`, `CallsEnd`: the walk keeps what
  is reachable and no more, provided no function has the id of another word.
- `CallsResolved`, `Settled`, `OptimizeEnds`: the rounds end with nothing left to do, and no
  body ever calls a function that is gone.
- `FunctionNameFound` answers the comment `TODO is this safe? dunno` of `parser.cc:557`;
  `EndsCloseBlocks` is the precondition of `crossreference`, which holds but for two
  kinds of program that it names; `OpsInSourceOrder` says that
  the backward, interrupted translation comes out forwards.
- `LocationsRight`, `LiteralsEndUnlessBackslashEscaped`, `NumbersAsWritten`,
  `DecodesUnlessBackslashEscaped`, `IdsFollowTexts`, `CharsAreTheirBytesOrReported`: the text processing agrees with
  definitions that do not share its algorithm, on all short inputs. A literal with too
  many digits reads outside the table of powers (outcome `undefined`), as
  `NumbersAsWritten` says. `LocationsRight` exempts what follows a literal with a newline in it.
- `GraphFollowsRuns`, `GraphEnds`: every step of a run of the optimized program between
  operations that are drawn is a link, unless a block was misread, and the drawing ends, unless
  there is an empty loop.

### Findings

`included_names` violates `NamesStayReadable`. The comment at
`src/src/stacky.cc:184` says that the included paths live as long as the program
"to have ability to print filename path in any moment", but they are strings in a
vector that grows, and a short string keeps its text inside the object that
moves. The second file read leaves the tokens of the first with a dangling name,
which error messages print and which the next `include` resolves its path
against. `includes` therefore assumes long names (`Short = {}`).

`known_conditions` violates `KnownConditionsKeepMeaning`. The comment at
`src/src/optimizer.cc:133` says of an `if` whose condition holds: "Do `if` has else
branch? If yes, remove it. Otherwise remove unnesesary end operation". Without an
else-branch the `if` jumps to its `end`, so the operation before that target, the
last one of the branch, is erased in place of the `end`.

### Known deviations

The passing runs state what holds outside the following cases, which the models
contain and the properties or the enumerated programs leave out.

| Where | What the code does | Left out by |
| --- | --- | --- |
| `optimizer.cc:130` | an `if` without `else` jumps to its `end`, not past it, and the operation before is taken for the `end`: taken, its last operation is erased (the finding above); not taken, the `end` stays with a jump moved by 3. An empty `else` is taken for none: `1 if a else end` becomes `a` and an `end` that jumps to a label that does not exist | `end = else_op` in `Misread_If` |
| `optimizer.cc:136`, `:152` | jumps of blocks behind, around or, if the else-branch is kept, in a known `if` are moved by another number than that of the operations erased | `Jumped_To` in `Misread_If` |
| `optimizer.cc:106` | behind an infinite loop the whole rest of the function is erased, the other branch of a block around it too | `Misread_Do` |
| `optimizer.cc:108` | only the jumps behind the condition of an infinite loop are moved, not those of a block in it | `Misread_Do` |
| `optimizer.cc:112`, `:123` | jumps to a loop that is erased, or to right behind it, are moved by another number than that of the operations erased; of two `while`s in reach the nearest is removed | `Misread_Do` |
| `optimizer.cc:256` | comparisons, `min`, `max`, `div` and `mod` are folded signed. Integers are unsigned in `linux-x86_64.cc:220`, in the docs (`src/README.md:109`: "puts unsigned integer", `:112`) and in `src/examples/nyancat.stacky:847` ("Stacky needs support for signed integers") | `Sign_Matters` in `PassesKeepMeaning` |
| `optimizer.cc:265` | a division by a constant zero ends the compiler, also where it is never reached | bodies with jumps in `PassesSurvive` |
| `linux-x86_64.cc:258` | a store through an address that `top` gives changes a slot of the data stack, whatever its type and whoever's it is | `written` in `Execution` |
| `optimizer.cc:41` | the first word defined has the id 0 of all intrinsics, and its body may not be walked | `Functions_Alone` in `NothingUsedErased` and `WordFound`; `Array_First` |
| `parser.cc:562` | a word defined twice has the operations of both definitions | `OpsInSourceOrder`, `Redefined` in `EndsCloseBlocks` |
| `parser.cc:594` | an array is skipped with the two tokens before it, also when the second is an `if` or `while` that registration has reported: the `end` of that block is still translated | `Opener_As_Size` in `EndsCloseBlocks` |
| `parser.cc:407` | a `&fun` without `end` ends in a statement marked unreachable | an outcome of `Translate_Unhandled` |
| `lexer.cc:155`, `parser.cc:14` | an escaped backslash is not decoded, and a literal that ends in one does not end | `LiteralsEndUnlessBackslashEscaped`, `Doubled` in `Strings` |
| `lexer.cc:129` | a comment on a last line without newline is followed by a read outside the file | outcome `undefined` of `Skip_Comment` |
| `unicode.cc:27` | U+007F, U+07FF and U+FFFF get one byte too many, which is not UTF-8 | `Last_Of_Length` in `DecodesUnlessBackslashEscaped` |
| `unicode.cc:38`, `parser.cc:34` | `\U` takes any 32 bits; runes of more than 21 give bytes that begin no sequence of UTF-8 (`F8 80 80 80` for 200000) | `Encodable` in `DecodesUnlessBackslashEscaped` |
| `lexer.cc:206` | a literal over several lines counts no line | `LocationsRight` |
| `parser.cc:317` | bytes from 128 on, and the fifth and later ones, are put into wrong places | `CharsAreTheirBytesOrReported` |
| `debug.cc:31` | drawing does not end on a loop without operations, as `while 1 do end` becomes | `Empty_Loop` in `GraphEnds` |

## Fairness

`CheckerTerminates` assumes weak fairness of the typechecker's steps, and
`ImportsTerminate` of the loop in `main`: each is a single thread that nothing
blocks. The same holds for `ParserEnds`, `CallsEnd`, `OptimizeEnds` and
`GraphEnds`, with weak fairness of the next-state relation: a function that is called
is carried on with until it returns. `BuildEnds` assumes weak fairness of `main`, of the parent in `run`, and of
the child together with the tool it becomes: the system schedules both
processes, and `nasm` and `ld` come to an end. Nothing is assumed about which way
a choice goes.

## Proofs

`CrossreferenceProofs` proves `TypeOK`, `OpenBlocks`, and all four properties of
`Crossreference` for every set of bodies, of any length below `Empty_Jump`.
`JumpsAreWritten` speaks of the end of the pass, and is not inductive: the
strengthening is `OpenBlocks`, which says of the part
already passed that each block is either still on the stack, in the order of the
body, or has its jumps, and that an open `do` remembers an earlier `while`. For
`AssertNeverFires` the invariant counts: the stack is as long as the number of
openers passed exceeds that of `end`s. `LinksFollowBlocks` and `AcceptsWellFormed`
compare the pass with definitions that count, so the invariant `Blocks` relates the
two. `Depth` is the number of blocks open at a place, and a block ends where `Depth` first
falls back to where it began (`Stays_In`). `Blocks` says that the depth has never
been negative and that entry n of the stack is the latest operation of the nth
open block (`Deep`, `Marks`), that what has been passed has its place in a block
of the right kind and no rival for it (`Paired`), and that what is no longer on
the stack has the jump the definition gives (`Linked`). `Stopped` says of every way
to stop what the pass has met there, from which the clause of `Well_Formed` follows that
the body breaks.

`CallStackProofs` proves `TypeOK`, `ReturnsToCaller` and `ImplementsCalls` of
`CallStack` for any size of the array, any sites, functions and values, and any
bounds on depth and data. The invariant `IInv` says that, as long as `callptr` has
not been overwritten, it counts the calls in progress, but for the one in transit
on the data stack, and the array holds their return addresses; and that an
overwritten `callptr` is too large for any index, and more calls are in progress
than the array has room for. Without it nothing relates the address an epilogue
loads to the call it belongs to. The
refinement maps each prologue and epilogue to a stutter, `Ret` to `Return` and the
two faults to `Fault`.

`UnusedWordsProofs` proves `NothingUsedErased`, `WordFound` and `OnlyReachableKept` of
`UnusedWords` for every program. `NothingUsedErased` says nothing of a walk under way,
so `IInv` adds its progress: every body the ids met so far call for is covered or being
walked (`WalkedOrActive`), the references before the position of a frame have been
met (`ActiveCovered`), and whatever has been met is in every closed set (`MetIsReachable`). When
the walk ends all frames are gone, and what was met is closed.

`DriverProofs` proves the safety properties of `Driver` with `OsExec` for every set of
error numbers, exit codes and signals. `Run_Inv` says what parent and child know of each other at
each place they can be: the shared word is written before the child exits, unless a
signal comes first. `Fresh_Inv` follows what this build has written through the phases.

`DefinitionsProofs` proves `IdsDiffer`, `FunctionNameFound` and `EndsCloseBlocks` of
`Definitions` for token sequences of any length and nesting. `Table_Inv` says that ids are below the counter
and that every `fun` that registration has passed has its name before it and in the
table; `Activations_Inv` that each activation's span lies inside its caller's, begins
right behind a `fun`, and is left at a place inside it. A `fun` found by the backward
scan is then not the first token of its span, unless registration has refused it. That the scan
finds the last opener is `BlockStart`; it rests on `Largest`, a maximum of a bounded
set from well-foundedness, since induction with an operator cannot be instantiated.

`EndsCloseBlocks` needs that the scan, which counts `end`s from where it stands,
finds the opener that a count from the start of the tokens gives (`Level`, `Opens`,
`BlockStartOpens`), whatever functions and blocks lie between. The invariant
`Blocks_Inv` says of each activation that its operations come from the tokens behind
its place, in the order of the translation, and that for each `end` among them the opener is
still to come or has been emitted (`Emitted`); that what the activations have
still to meet does not overlap and each has a body of its own; and that a body once begun
belongs to a definition that is not met again (`Entered`). The last part is false when a
function is defined twice. A constant or an array is skipped with the two tokens before it:
registration makes sure that these are a name and, for a constant, an integer (`Sized`), and
only the size of an array may be an opener. At the end of an activation nothing is still to
come, so every `end` of its body has its opener before it.

`WalkLemmas` and `ExecutionProofs` prove that the typechecker is sound: `NoUnderflow`,
`OperandsAsTyped`, `EffectsHonoured` and `CallersDataKept` of `Execution` hold for
every set of programs, with any number of words of any length, and any
`Max_Frames` and `Max_Calls`. The argument goes through a certificate, which neither
the checker nor the machine has. A walk of a word is an input, an output and a set
of points, each a place in the body with a typestack; it is sound if every
operation accepts the typestack of its points, and the points that it leads to are
in the set (`Passes`, `Sound`). A set of walks is `Closed` if the calls of dynamic
words, too, have a walk in the set for the stack they find, and a `Certificate` if every word with an
effect, and main, has a walk with that effect.

- The checker makes a certificate. `Progress` gives each frame of `typecheck` the
  points met so far: those not in `states` are sound, and those that a `do`
  has been remembered for are covered. Each action keeps this (`...Keeps`); a path given up at a `do`
  met before with the same typestack is what closes the set.
- The machine follows it. `Runs` gives each call in progress a walk and the part of the
  data stack under it: the rest of the data stack is that of a point of the walk,
  callers wait at points that expect what their callee declares or was found to leave, and nobody touches
  what is under them. A write through an address changes a kind but no length: `Runs` speaks of
  stacks without these writes, which shadow the machine's (`Shadows`) slot by slot, with the same lengths,
  and are the machine's own until the first write; what a caller has is as found or written
  (`Found_Or_Written`). Each instruction keeps this (`ExecuteKeeps`). That it does
  rests on a case by case proof that the effects of every intrinsic in `types.cc` agree with
  what `emit_intrinsic` pops and pushes (`EffectsAgree`).

The invariant `Typed` joins the two: `Progress` while checking, a certificate once
accepted, `Runs` while running. It quantifies over sets of walks, so that TLC cannot
evaluate it; the four properties it implies are what the run checks. In a program that mentions
`any` only the lengths of typestacks are certain, and stacks are compared by them (`Like`).

Type invariants (`TypeOK`) are proved in `CrossreferenceProofs`, `CallStackProofs`,
`UnusedWordsProofs` and `DriverProofs`, for every value of the constants; the runs do not
repeat them.

`StackLemmas` has the facts about `Top`, `Pop` and `Append` that several use. The larger
modules say `USE Zenon`: their steps are first-order unless they cite `SMT`. The
assumptions are those of the modules: `EmptyJumpAssumption`, `BodiesAssumption`,
`CallStackAssumption`, which says that code addresses are larger than the size of the
array, `MainAssumption`, `SourcesAssumption`, `NamesAssumption`, which says
that there is a name for every `&fun`, `OsExecAssumption`, `MaxFramesAssumption`,
`MaxCallsAssumption`, and the `ProgramsAssumption`s. That of `Typecheck` says that jumps lead into the
body or just past it, which is what `LinksFollowBlocks` establishes, that
what is called is a word of the program, which the parser looks up, and that
effects consist of types.

Only model-checked:

- liveness, which is out of the prover's reach;
- `OpsInSourceOrder`: it speaks of every token of the program, and would take, beyond
  `Blocks_Inv`, an invariant on which tokens each definition and each effect has
  accounted for. This has not been carried out;
- `Includes.ExpandsInPlace`, whose reference is a recursive expansion of files;
- `Strings` and its bytes (bitwise operators), and the lexer with `NumbersAsWritten`, whose
  references compute values digit by digit;
- `Optimizer`, `Folding`, `Conditions` and the control flow graph, whose yardstick is a run of `Machine`,
  a recursive definition over words of `Width` bits.

## Not modelled

- The command line: Boost.Program_options fills in one structure, once.
- `ipstream.hh` is not used by the compiler. `run_echo` prints a command and calls `run`.
- Layout, colours and wording of messages, names of types, and the text of the assembly.
- The order of the list of keywords that `lex` searches; the list is a constant.
- The size of arrays (cut to 32 bits) and the values of constants: no control depends
  on them. The types inside a signature are left to `Types`.
- Memory other than the data stack in `Execution`; all memory, `syscall`, `call` of an address and 64-bit widths in `Machine`: the optimizer
  does not fold them, and takes them as the end of a stretch.
- A file that includes itself, the exit code of `run` when `execv` fails, and a
  typechecker that crashes on a program it was about to reject are contained in the
  models, but the repository promises nothing about them; the hazards in
  `PROJECT.json` without a property are these and the parts above.
