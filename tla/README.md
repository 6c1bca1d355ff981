# A TLA+ model of the Whitee SysY compiler

`src/Whitee` is a compiler from SysY, a subset of C with `int`, arrays and
functions, to ARMv7 assembly. It is a sequential program: there are no threads,
no messages and nothing that survives a crash. What is hard in it is the order
in which one pass changes the graph another pass (or the same pass, one call
up) is still looking at, the state that is cached while code is generated, and
limits: registers, offsets, immediates, the reach of a load. The modules here
model the passes from the characters of the source to the registers and memory of
the target, as state machines whose actions are the steps of the pass and whose
inputs are the programs compiled.

`PROJECT.json` lists components, runs, mutants, the map from each definition to
the lines it stands for, the hazards and the findings.

## The system

`main.cpp` runs the phases in order; every arrow hands over one data structure.

    lexicalAnalyze -> syntaxAnalyze -> buildIrModule -> removePhiUserBlocksAndMultiCmp -> irCheck
       -> (O1) optimizeIr: 2 rounds of 9 passes, each followed by dead_code_delete;
               endOptimize: phi_elimination, calculateVariableWeight, registerAlloc,
               getFunctionRequiredStackSize, mergeAliveValuesToInstruction
       -> (O0) fixRightValue, phi_elimination, getFunctionRequiredStackSize
       -> buildMachineModule -> toARM

| Component | State it keeps | Operations | What makes it correct | Modules |
|---|---|---|---|---|
| Lexer (`front/lexer`) | the character read last, the token so far, the token list | skip comments and blanks, read one token, fold the minus before 2147483648 | the tokens are those the text says; the analysis ends if comments and strings do | Lexer |
| Symbol table (`front/syntax/symbol_table.cpp`) | blocks by layer and number, the block analysis is in | insert, find, open and close a block | a name means its innermost declaration; usage names are unique | SymbolTable, Scopes, SymbolTableProofs |
| Syntax analysis and tree (`front/syntax`) | position in the token list; the tree | one function per grammar rule; constants of declarations and dimensions | the tree is the one the tokens were written from, with constants and initializers in place | Syntax, SysY |
| IR construction (`ir/ir_build.cpp`) | current block and function, loop and break targets, values and addresses of names | `stmtToIr`, `conditionToIr`, `expToIr`, initializers, subscripts | the IR does what the source says, and `irCheck` accepts it | IrConstruction, SsaConstruction |
| SSA construction (`ir/ir_ssa.cpp`) | per block: `localVarSsaMap`, `incompletePhis`, `phis`; users of values | `write_variable`, `read_variable`, `add_phi_operands`, `remove_trivial_phi`, `seal_basic_block` | a read gets the value the source program would read; a phi that is left has an operand for each predecessor, is not trivial and is listed; a removal leaves nothing behind (it does: see the findings) | SsaConstruction, SsaExecution, SsaConstructionProofs, SsaFormProofs |
| IR structures (`ir/ir.h`, `ir/ir.cpp`) | operands, users | `replaceUse`, `abandonUse`, `equals` | users are the inverse of operands | Ir; users of phis in SsaConstruction |
| IR check (`ir/ir_check.cpp`) | `globalIrCorrect` | one check per structure | its conditions hold after every round | Ir (`IrCheck`) |
| Pass manager (`optimize/ir/ir_optimize.cpp`, `end_optimize.cpp`, `main.cpp`) | flags | the order of passes | every pass gets IR its assumptions hold of, the program keeps its behaviour | Optimizer |
| Dead code removal (`ir/ir_utils.cpp`, `dead_code_delete.cpp`) | the IR | `unused_instruction_delete`, `unused_block_delete`, `fixRightValue` | removes nothing that is needed; leaves no dangling user | DeadCode |
| Constant folding, branch conversion, block combination | the IR | fold operations, loads, branches; join blocks | the folded value is the one computed; no phi is lost | Folding |
| Common subexpressions | first operation per hash code, per block | replace a repeated operation | the two operations have one value | Folding |
| Loop-invariant code motion | loops and new blocks found so far | find loops, move invariant instructions out | a moved instruction has its operands, and computes the same | LoopMotion |
| Globals and local arrays | known elements, stores nobody has needed yet | read-only globals, array folding, dead arrays, constant arrays | no store that is read is lost | MemoryPasses |
| Phi elimination, conflict graph (`register_alloc.cpp`, `ir_utils.cpp`) | alive sets of blocks and instructions, conflict edges | `phi_elimination`, `buildConflictGraph`, `mergeAliveValuesToInstruction` | two values that are alive together conflict; calls save what is alive after them | ConflictGraph, PhiEliminationProofs, ConflictGraphProofs |
| Register allocation (`register_alloc.cpp`) | two graphs that share their neighbour sets, stack, colours | build, simplify, spill, select, time out | conflicting values get different registers; a register is always left | RegisterAlloc, Allocation, RegisterAllocProofs |
| Code generation (`machine_ir_build.cpp`) | temporary registers, registers of right values, stack slots, `true_cmp`, `cmp_op` | one `gen` function per kind of instruction, prologue, return, call | every value is in its place whenever it is read; branches test the right condition | CodeGeneration, CodeGenerationProofs |
| Literal pools (`machine_ir_build.cpp`) | `ins_count`, `pre_ins_count`, `const_pool_id` | count, place a pool | every load of an address reaches its word | LiteralPool, LiteralPoolProofs |
| Machine IR, IR output, runtime library | text | printing | not modelled: text and I/O | |

The components interact by shared, mutable graphs: SSA construction changes
operands and users that IR construction holds pointers to; phi elimination puts
one `phi_mov` object into several blocks, and the conflict graph marks aliveness
on that object; the allocator reads a graph through two maps whose values are
the same sets; the code generator reads the alive sets at each call to know
what to save, and passes the flags from a comparison to a later branch.

## The modules

**Lexer** is `parseSym`, one action for each turn of a loop that reads a
character, with `fgetc`, `ungetc` and the character `c` that is left over. A text
is put together from lexemes, of each of which it is known which token it is, so
what the token list should be (`Meant`) does not depend on how the lexer finds it.

**SymbolTable** is `symbol_table.cpp` as `syntax_analyze.cpp` drives it: the
program (declarations, functions, blocks, uses, in any legal order) is chosen while
it is read. `callers` are the locals `fatherLayId` of the calls of `analyzeBlock`
that are open, and the loop of `findSymbol` is taken block by block.
**Scopes** is what the language promises, however names are found: a stack of
functions from names to objects. `ImplementsScopes` maps the open blocks of the
table to that stack, and usage names to objects.

**SysY** has the programs as trees, how a tree is written as tokens, and an
interpreter: what a program reads, puts out and returns. **Syntax** is the parser,
an operator for each `analyze` and `getConst` function, from the tokens to the
tree, and **IrConstruction** is `buildIrModule` and what follows it before
`irCheck`. `SameMeaning` compares the interpreter on the program chosen with the IR
machine of Ir on what was built from its tokens, so a wrong precedence, a branch
to the wrong side, an offset in the wrong unit or an initializer in the wrong place
shows. IrConstruction and SsaConstruction share the work: IrConstruction has whole
programs, whose scalars are assigned outside branches and loops; SsaConstruction
has one function with the assignments anywhere, and no expressions.

**RegisterAlloc** is `allocRegister`. `tempGraph = conflictGraph` copies the map
of the graph but not the neighbour sets its values point to, so the model has
two sets of keys and one `adjacent`. Actions: `BuildConflictGraph` (any graph),
`BuildTimeout`, `Simplify`, `Spill`, `StartSelect`, `Select`, `Finish`. The time limit
is looked at only before the first edge is entered, so `BuildTimeout` leaves a graph
without conflicts behind, whatever the conflicts of the function are; that it is
never coloured is part of `NoConflictShared` and of the refinement. Iteration over an
unordered container is a choice. **Allocation** is what it promises: a value is decided once, either in
memory or with a register none of its conflicts has. The property
`ImplementsAllocation` is the refinement, with `variableRegs` mapped to what is
decided.

**SsaConstruction** is `ir_ssa.cpp` driven by the statements of one function.
The recursion is an explicit stack of frames, one per C++ call, with the locals
the call still needs, so the states in which a phi is half built are states of
the model. The control flow is that of `stmtToIr` and `conditionToIr`: `if`,
`while`, `break`, `continue`, `return`, and the short circuits, each with the
blocks and the sealing of the code. The program is chosen while it is
translated. No property looks at what a phi has been given as an operand between
two calls that are still open: `RemovalComplete` says what a removal does at the
moment it is done, `OperandPerPredecessor`, `NoTrivialPhi` and `PhiListed` what is
left between statements. **SsaExecution** then runs the finished function along any path and
compares each read with the variable (`ReadsRight`).

**Optimizer** takes a function of a set of functions and applies the passes of
`optimizeIr` to it, one action per pass, dead code removal after each, `irCheck`
after each round. The function is one record (**Ir**: blocks, edges, operands,
users, result types, validity) and a pass an operator on it. **DeadCode** has the
removal of dead code, **Folding** the passes that compute or join (constants,
branches, repeated expressions, blocks), **MemoryPasses** those on the global and
on local arrays, **LoopMotion** loop-invariant code motion. The users of a value
are kept apart from operands, as in the code, so a pass that forgets one leaves a
trace. Sets of pointers are walked upwards or downwards (`up`). The specification
the passes have to meet is not a list of rewrites but a machine that runs the
function: `SameBehaviour` compares what it puts out and returns, before and after.
`RightValuesReadOnce` is what CodeGeneration assumes of its input: a right value
has no place of its own, and its register is free after the one read.

**ConflictGraph** starts from any function of a set of functions in SSA form
and runs phi elimination, the marking of alive values definition by definition
and user by user, the edges, and the merge. Its properties compare the marks
with liveness as a textbook defines it, on the code after phi elimination: the
least sets of blocks that contain every block a use is reached from, and of
points within them. What is asked of a function is stated once and assumed of
all of them (`FunctionsAssumption`): blocks and edges belong together and each
block is reached (`FunctionOK`), a block is laid out with its phis first and its
branch last (`LaidOut`), every use is below its definition in the dominator tree,
an operand of a phi below it in the predecessor it comes from, and every value
but a parameter has a user (`SsaForm`). This is the state `irCheck` accepts and
`dead_code_delete` leaves: `irUserCheck` refuses an instruction without users.

**CodeGeneration** generates the code of one IR instruction at a time, as the
`gen` functions do, and runs each machine instruction as it is put out (`Emit`) on a
symbolic machine whose registers and memory hold the names of IR values. The state
of the generator within one instruction is a record that is handed from call to
call (`Gen`). The module is therefore a compiler together with its check:
`ValuesKept` says every IR value that is defined is where the generator believes it
is, after every instruction. A function begins with one step for each parameter,
the fifth and those after it first (`Arrive`), and one for its frame (`EnterFrame`).
Sequences of instructions have no bound: the state is finite because a value's
place is defined anew when another value takes it.

**LiteralPool** is the walk that places the words for the addresses of globals.
No load changes where pools go, so one load, any load, is watched.

## Runs

| Run | Shows | Bounds, and why they do |
|---|---|---|
| `lexer` | `TokensRight`, `Terminates` | every text of up to three of 26 pieces: words with digits in them, numbers of every base, the largest int and, in every base, the one after it, operators that begin another or a comment, comments that hold what ends or begins one, a string that looks like a comment, blanks, and as the last piece also comments and a string that are not closed. `Terminates` says that the analysis ends when all are closed, wherever the file ends, and that otherwise it hands on no tokens: `skipComment` and `dealWithStr` do not look for the end of the file. `MaxToken` stands for the memory an open string fills; no other token comes near it. The lexer keeps one character over between tokens, so three pieces show what the end of one does to the beginning of the next, with the minus two tokens back |
| `symbol_table` | declarations are kept, searches go outwards, the scopes of the language are implemented | up to 6 blocks in 3 layers: two blocks of one layer, one inside another, functions before and after; one name of variables that is also the name of a function. The theorems remove the bound |
| `ir_construction` | `SameMeaning`, `IrAccepted` | 3972 states, four for each of 993 programs: pairs of operators in both groupings, signs before operands, 108 mixtures of `&&` and `\|\|` over operands that show when they are evaluated, comparisons of comparisons, statements nested two deep with every way out of a loop, every aligned initializer of up to three items for arrays of one, two and three dimensions (local, global, constant), constants of constants, pointers to rows as arguments. Three inputs with two arguments each |
| `register_alloc` | all safety properties, refinement and termination of the allocator | every graph on 5 values, 2 registers: K5, the 5-cycle (simplification gets stuck), graphs a spill unlocks. The theorems remove the bound |
| `ssa_construction` | users are complete, a removal reaches every place that holds the phi, operands match predecessors, no trivial phi stays, phis are listed; `ReadReturns`: every read returns | one variable, 7 blocks: a loop in a loop, a loop with an `if`-`else` and `break`, a loop after a loop; two short circuits in functions of up to 5 blocks. Statements after the last read that no loop leads back from are left out: they touch no phi. The theorems remove the bound for all but `ReadReturns` |
| `ssa_removed_phi` (violation) | a phi that has been removed becomes an operand | one variable, 9 blocks: one loop, whose statements stand side by side (a condition with `&&` and `continue`, one with `break`), read after the loop only. Nothing smaller shows it |
| `ssa_execution` | `ReadsRight` | two variables that may be copied to each other, so that one phi is the value of two names; 6 blocks, the sixth not made by a short circuit: a loop with an `if` and `break`, conditions with short circuits. The constraints of MCSsaExecution leave out functions whose runs show nothing more |
| `conflict_graph` | marks are exactly liveness, interference is covered, calls save | a parameter, a value and a phi over five graphs of 4 blocks: diamond, loop, nested loop, break, loop after loop; two phis in loops that swap or feed each other. The theorems remove the bound |
| `code_generation` | values, stores, calls, returns and branches are right, temporaries suffice | a parameter in a register and one on the stack, a left value in a register and one on the stack, an array, a global, valid and invalid immediates, near and far offsets, calls of 0 to 6 arguments; two right values waiting, the most for which registers always suffice. The theorems remove the other bounds |
| `optimizer` | all passes keep the behaviour, IR stays correct, right values are read once | 3052 functions: all pairs of operations on a number, a parameter, 0, 1 and -1; `if` and `if` in `if` with constant and other conditions and arms that return; loops in arms, loops in loops with invariants of either, `continue`, `break`; a local array of two elements with three accesses in a row, in an arm, in a loop; a global; each with temporaries as right values or as variables. 6 inputs each. Every rewriting case of every pass applies to some of them |
| `array_stores_lost` (violation) | array folding deletes stores that are read | one function |
| `literal_pools` | each load has its label once, in reach | window of 12, 3 globals, exactly fitting reach; the theorem removes the bound |

Fairness: `FairSpec` of RegisterAlloc and SsaConstruction has weak fairness of
the next step of the pass, and `Spec` of Lexer of the next character. The compiler is
one thread that always takes its next step, so nothing weaker would be faithful,
and nothing stronger is used: the choices among steps are not fair.

Runs with `CHECK_DEADLOCK FALSE` are those whose pass really ends.

## Proofs

`RegisterAllocProofs` proves, for every finite set of values, weights and
registers, all the safety properties of `register_alloc` and the refinement.
The assumptions are those of RegisterAlloc: values have distinct ids, the number
of registers is that of the set. The inductive invariant `IInv` has these
parts besides the properties themselves: the graph is symmetric (`GraphOK`), nothing
happens before it is built (`BuildOK`), `TempExact` (the neighbour set of a
value still in `tempGraph` holds exactly its neighbours there), `AdjacentSub`,
`StackLow` (a value on the stack had fewer neighbours than there are registers
when it was pushed, and its set is not written since) and `StackSees` (its set
still names every neighbour that is above it on the stack, in the graph, or
coloured). It is needed because `Select` reads sets that `Simplify` has erased
from: that is harmless only because what is erased from `adjacent[v]` are values
pushed before `v`, which are popped after it.

`SymbolTableProofs` proves, for any names and programs of any size and nesting,
that the table implements the scopes of the language (`TableImplementsScopes`),
with `TypeCorrect`, `SearchesInOrder` and `AllDeclarationsKept`. The inductive
invariant `IInv`: every symbol is filed under its own name in the block it names,
functions in the global block only (`TableOK`); the number a layer will give out
next is greater than that of any block of it (`NumbersOK`), which is why no block
is emptied; the chain of fathers from the block analysis is in is the sequence of
open blocks (`PathOK`, `LocationOK`), also between the parameters of a function and
its body, when `nowLayId` is the global block; and a search stands in an open block
(`SearchOK`, `SearchInOrder`). The step that takes work is a declaration: its usage
name differs from all there are, because the name, layer and number it is made
of are those of one symbol only. The only assumptions are that the names of the
runtime library are functions and `main` is another.

`LiteralPoolProofs` proves that loads reach their words if 4 * (Window +
Globals) <= Reach + 12, with the corollary that 26 globals fit with the numbers
of the code, and that every label is defined once. The invariant `PoolInv`: a
load that waits for its label was emitted fewer than `count` instructions ago
(the label of the block, or the pool before it, is counted as well), and the
count stays below the window while a load waits.

`CodeGenerationProofs` has three parts. All of it is for any values, any
registers given to them, any offsets out of reach, any argument lists, and any
sequence of instructions that irCheck accepts. The assumptions are that a value is of one
kind (a left value, a right value, a number, ...), and that a call has at
most eight arguments, because those on the stack are passed in groups of four and the
model has one group.

The first part is the pool: as long as a temporary register was there when one was
asked for, each is in the pool or holds exactly one right value
(`TemporariesPartitioned`). The invariant `IInv` is that statement; what takes work is
the inside of a step, where a third kind of owner exists: the `gen` function that has
read operands and will release them. `Sound(g, held, D)` says that the pool, the right
values and the set `held` partition the registers, and that only values of `D` wait;
there is a lemma for each operation (allocate, release, read, write, load, store)
that says what it does to `held`, and one for each `gen` function that nests them.

The second part is the machine: under the same condition every value is where the
generator will look for it (`EveryValueKept`), what is stored, passed and returned is
what the IR says (`EveryEffectRight`), and, without `Hoisting`, branches are decided
by the right comparison (`EveryBranchRight`). The inductive invariant is
`KeptInv`: `IInv`, and `CodeInv` as long as no register was asked for in vain.
`CodeInv` is `ValInv`, where the values are in each phase of a function, and `FlagInv`.
`ValInv` is stronger than `ValuesKept`: slots of different values are different, lie
within the frame and below `stackPointer` unless they are those of parameters
(`Slots`), the return address is in its word, the stack pointer of the machine is back
where it was, and at the beginning of a function the parameters that have not arrived
are still where the caller put them (`Entry`). `FlagInv` says when `cmp_op` is set:
`BranchRight` alone is not inductive, because a branch reads what a comparison has left
several instructions before. The argument for one step follows the `gen` function.
`Works(g, held, D, L)`: after what has been put out so far, the values of `L` are in
their places. `Holds` and `Is`: what has been read stays where it is until it is used,
because later code writes only free registers and held ones (`Touches`). `Ready`: the
last instruction has put the term of the IR into the place of the result. `SettleRight`:
what is forgotten between two instructions is not needed any more. The call is a
chapter of its own: pushed registers lie below the frame in ascending order
(`Ranks`, `PushFacts`), arguments from the fifth on are loaded with offsets that
compensate for them (`PassOnStackRight`), and popping restores each register
(`PoppedReturned`), the result waiting below the stack if R0 is one of them.

The third part removes the condition: in every function in which no more than two
right values wait at any time, `allocTempRegister` always finds a register
(`TwoMayWait`), so `ValuesKept` and `EffectRight` hold (`FewValuesRight`). It
repeats the walk through the `gen` functions with `Ample`, which is `Sound` and no
failure: a function asks for a register when it holds two at most, and two are in use.
Two is the best there is: with three right values TLC finds a remainder of two
values on the stack that runs out of registers (see the findings).

`SsaConstructionProofs` proves that users are complete whatever calls are active
(`SpecUsersKnown`) and that a removal reaches every place (`SpecRemovalComplete`),
for any variables, bounds and nesting of statements. The inductive invariant
`Sound` says what `ir_ssa.cpp` takes for granted whenever it follows a pointer:
blocks, edges, maps and operands name blocks and phis there are (`DataOK`), each
frame of the stack has a block, a variable and a phi that fit, with a frame of
sealing or of a statement at the bottom only (`StackOK`), and the open statements
know their blocks (`ASTOK`). Its part `UsersOK` is the one that carries
`SpecRemovalComplete`: `replaceUse` walks the users that were recorded and nothing
else, so what is replaced is everything exactly if every place that holds a
live phi has recorded itself. It is kept by a removal because the phi that takes
over is given all the users of the one removed.
That no call returns a removed phi is not claimed: it is false, see the findings.

`SsaFormProofs` goes on to what a phi is between statements: an operand for each
predecessor (`SpecOperandPerPredecessor`), not trivial (`SpecNoTrivialPhi`), in the
list of its block (`SpecPhiListed`). While calls are open none of this holds, so
the invariant `Form` says for each live phi what is still owed to it, and which
frame of the stack owes it. `PhisOK`: it is in `incomplete_phis` of an unsealed block
and no `seal_basic_block` has passed it, or a frame `add_phi_operands` is at work on it,
or its operands are those of its predecessors; its read will put it into `phis`,
or has; and if it is trivial, a frame is about to reconsider it. `CallsOK`: the
predecessors that frame has asked for and has left are all of them, and while a
block is sealed only variables are read that it has a value for. That one is needed because
`seal_basic_block` walks `incomplete_phis` of a block that is not yet marked sealed:
a read of another variable would put a phi there that the walk does not see.
`FormOK`: an incomplete phi belongs to the block that waits with it. `OpensOK`: the
blocks that an open statement has made and control has not reached have no phi and
lead nowhere, the blocks of two open statements are different, and the head of an
open loop is not sealed; without it an edge that is added later could reach a
block whose phis already have their operands. `Form` was also checked by TLC, with two
variables and 6 blocks, and with one variable and 7 blocks.

`PhiEliminationProofs` and `ConflictGraphProofs` are about any function in SSA form
(`FunctionsAssumption`). The first proves that each block holds at every moment of
phi elimination what it should in the order it should (`FormInv`): phis, values,
a store, phi_movs, a comparison, the jump. So no phi_mov stands between a comparison
and its branch (`SpecComparisonKept`), and the function `buildConflictGraph` starts
from is known to the last instruction. The second proves that marks are liveness in
both directions (`SpecMarkedOnlyWhereLive`; `SpecInterferenceCovered`, with the graph
symmetric, `SpecGraphProper`; `SpecSavedAcrossCalls`). The invariant `GraphInv` has
two parts. `Covered`: each use of a definition that has been visited is marked
from the definition to the use, but for the users still to come.
`Marking`: a mark is only where the value is live, and wherever a value is marked, the
way from its definition to there is marked as well. The second half is needed
because `SkipUser` looks at one mark and then skips the user: without it the marks
further up need not be there. That the blocks between definition and use are those
`generatePath` finds is the dominator argument (`BehindDominator`): a block from which
the use is reached without passing the definition lies behind the definition, or
the entry would reach the use around it.

Only model-checked: termination (`Terminates`, `ReadReturns`), because liveness
under fairness is out of the prover's reach; Lexer, Syntax, IrConstruction,
Optimizer and the passes, because they are recursive operators on characters,
trees and graphs, which the prover cannot unfold; `ReadsRight`, which compares two
runs of programs of any length, and is false for larger functions (see the
findings).

## Findings

Two runs end in a violation; both were reproduced with the compiler built from
this source.

* `SameBehaviour` (`array_stores_lost`): a store to an unknown element, and the
  stores before it are lost.
* `OperandsValid` (`ssa_removed_phi`): `remove_trivial_phi` returns a phi that the
  removals it has started have removed, and the caller makes it an operand.
  `irCheck` refuses such a phi, and with it this program:
  `int main(){int x=getint();int c=getint();while(c){if(c>1&&c<5){c=c-1;continue;}if(c==9)break;c=c-2;}return x;}`.
  `ReadsRight` would fail in functions of that size for the same reason.

Seen while modelling, each with the compiler built from this source, and without
a run of its own because no text of the repository says otherwise, or because the
inputs of the runs are bounded to keep one defect from hiding the others:

* `int f(int a, int b) { return a * a; }` returns `b * b`: an unused parameter has
  no conflicts and may share a register (functions of `conflict_graph` use theirs).
* A comparison that is moved out of a loop leaves its condition in `cmp_op`, and a
  later branch tests the wrong one (`Hoisting = TRUE` in MCCodeGeneration.cfg
  makes `BranchRight` fail).
* The 27th global is out of the reach of LDR (`Window = 1000`, `Globals = 27`,
  `Reach = 4095`; `TwentySixGlobalsFit` is the theorem).
* `0 - a` and `a * -1` of a parameter that is read twice become a right value read
  twice: the program is refused or reads a freed register.
* `const int t[2][2] = {{1}}; const int c = t[1][0] + 5;` makes `c` 0:
  `getConstVarExp` returns before the inner subscripts are read.
* `a - 2147483648` loses its binary minus, as the fold only looks at the token
  before the number; a `:` in the source ends the compiler with an exception; the
  comment `/***/` does not end, as the character after a star is only tested for a slash;
  `//` on a last line without a newline, and a comment or string that is not closed,
  are read for ever, or until the memory for the string is used up (`Terminates` of
  `lexer` has both kinds of text).
* A call of `main` crashes: its name in the table is `main` and that of a use `F*main`.
* Three waiting right values and two operands on the stack exhaust the temporary
  registers (the register `error`).
* `!` of a unary operation becomes an instruction no block contains; ten unused
  nested calls without side effects are refused; `if (0) return;` in a function
  without a value ends the compiler.

Harmless: the branch of `global_variable_to_constant` for numbers is never taken,
because it compares `value_type` with `VariableType::INT` (the global becomes a
constant array of one element, which folding reads); the value
`read_variable_recursively` puts into `block->phis` need not be a phi of that
block; a comment in `syntax_tree.h` describes usage names as `F*2_1$a` where the
code makes `F_2_1_a`; usage counts are kept and never read.

## What the models leave out

* Lexer: the names of tokens, line numbers, debug output; text that is not a
  program other than by a string or comment that does not end, and the
  minus before 2147483648 other than as a sign.
* SymbolTable: programs that use a name before it is declared or declare it twice,
  which the compiler does not diagnose (it crashes or takes the last).
* Syntax and IrConstruction: usage counts; several functions in one program (what is
  called has a meaning but no body); programs that are no programs of the language,
  for which the parser throws. Operands and arguments are evaluated from left to
  right, as the code does; the language leaves it open. Braces of an
  initializer that begin in the middle of a row are not generated.
* SsaConstruction: expressions, arrays and calls; a condition that mixes `&&`
  with `||` at one level. `read_variable_recursively` names `phi` at line 74
  before it is declared; the phi of line 71 is meant.
* ConflictGraph: the memo of paths between blocks, which returns what is computed
  here each time, and the time limit, which is `BuildTimeout` of RegisterAlloc.
* CodeGeneration: `judgeImmValid` is a parameter (`Small`, `Big`, `FarOffsets`);
  `regInUse` is only written and reported on; the argument of the timing
  functions. `Hoisting`, that a comparison may stand before another and its
  branch, is FALSE in the run, which keeps that defect from hiding others.
* Optimizer: one function at a time, so `function_is_side_effect` and the removal of
  functions, strings and constants nobody uses are left out (a call is "pure" or
  not); global arrays, pointers as parameters, void functions; wrapping to 32
  bits; hash collisions, which only cost a comparison. The run `optimizer` leaves out
  what is listed under findings: `!` of a unary operation, a store to an unknown
  element after stores to known ones in one block, and variables that stand for
  a negated parameter or for one of their own operands and are read twice.
* LiteralPool: `invalid_imm`, to which nothing is added because `loadImm2Reg`
  uses MOV and MOVT.

## Plan

What a continuation would take up, in this order:

1. **Folding** with numbers of w bits that wrap, compared with the target; the
   division of the smallest number by -1.
2. **Proofs about IR operators**: `ReplaceUse` and `Erase` keep operands and users
   inverse; for this the recursive operators of Ir move to a module of their own.
3. **Module level**: `function_is_side_effect` and the removal of unused functions
   over a call graph, with calls in both directions.
4. **CodeGeneration**: which expressions leave three right values waiting, that is,
   a bound on the nesting of expressions under which `TwoMayWait` applies; calls with
   more than one group of arguments on the stack.
