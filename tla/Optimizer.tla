------------------------------ MODULE Optimizer ------------------------------
(* optimizeIr for one function: the passes in their order, dead code removal *)
(* after each, irCheck after each round, and what they have to keep: the     *)
(* behaviour of the function.                                                *)
EXTENDS Folding, MemoryPasses, LoopMotion

CONSTANTS
  Sources,         \* functions of the IR, as they leave IR construction
  Inputs,          \* runs to compare: the argument, and the integers to read
  OPTIMIZE_TIMES   \* rounds

ASSUME RoundsAssumption == OPTIMIZE_TIMES \in Nat

VARIABLES
  ir,        \* the function
  round,     \* rounds done
  next,      \* the pass that is next; Check and Done when none is
  meaning    \* what the function did before it was optimised

vars == <<ir, round, next, meaning>>

Passes == <<"read only", "constants", "array folding", "dead arrays", "array lift",
            "loop motion", "subexpressions", "branches", "blocks", "check">>

-----------------------------------------------------------------------------
(* Running a function: a machine m is at an instruction of a block.  It    *)
(* stops when it returns or when there is no integer left to read.         *)

Poison == -1000
MaxBlocksRun == 40

ValueOf(m, v) ==
  IF IsNumber(v) THEN NumberOf(v) ELSE IF v \in DOMAIN m.env THEN m.env[v] ELSE Poison

Loaded(f, m, address, offset) ==
  CASE <<address, offset>> \in DOMAIN m.mem -> m.mem[<<address, offset>>]
    [] IsConstantArray(address) ->
         IF offset \in DOMAIN f.arrays[address] THEN f.arrays[address][offset] ELSE 0
    [] address = Global -> 0
    [] OTHER -> Poison

Invoke(m, op, v, args) ==
  CASE op = "putint" -> [m EXCEPT !.out = Append(@, ValueOf(m, args[1]))]
    [] op = "pure" -> [m EXCEPT !.env = (v :> 3 * ValueOf(m, args[1]) + 1) @@ @]
    [] m.ints = <<>> -> [m EXCEPT !.stopped = TRUE]
    [] OTHER -> [m EXCEPT !.env = (v :> Head(m.ints)) @@ @, !.ints = Tail(@)]

Execute(f, m, v) ==
  LET i == f.val[v]
      x(k) == ValueOf(m, i.args[k])
      makes(n) == [m EXCEPT !.env = (v :> n) @@ @]
      goes(b) == [m EXCEPT !.at = b, !.from = i.blk]
  IN  CASE m.stopped -> m
        [] i.kind \in {"binary", "cmp"} -> makes(Evaluate(i.op, x(1), x(2)))
        [] i.kind = "unary" -> makes(EvaluateUnary(i.op, x(1)))
        [] i.kind = "load" -> makes(Loaded(f, m, i.args[1], x(2)))
        [] i.kind = "store" -> [m EXCEPT !.mem = (<<i.args[2], x(3)>> :> x(1)) @@ @]
        [] i.kind = "invoke" -> Invoke(m, i.op, v, i.args)
        [] i.kind = "br" -> goes(i.to[IF x(1) # 0 THEN 1 ELSE 2])
        [] i.kind = "jmp" -> goes(i.to[1])
        [] i.kind = "ret" -> [m EXCEPT !.stopped = TRUE, !.out = Append(@, x(1))]
        [] OTHER -> m

Enter(f, m) ==
  LET operand(phi) == LET args == f.val[phi].args
                      IN  IF m.from \in DOMAIN args THEN ValueOf(m, args[m.from]) ELSE Poison
  IN  [m EXCEPT !.env = [phi \in Phis(f, m.at) |-> operand(phi)] @@ @]

RECURSIVE RunBlocks(_, _, _)
RunBlocks(f, m, n) ==
  IF m.stopped \/ n = 0 THEN m.out
  ELSE LET execute(k, v) == Execute(f, k, v)
       IN  RunBlocks(f, FoldLeft(execute, Enter(f, m), Ins(f, m.at)), n - 1)

(* What a run puts out, the returned value last.                           *)
Behaviour(f, input) ==
  RunBlocks(f, [at |-> f.order[1], from |-> 0, env |-> (Parameter :> input.argument),
                mem |-> <<>>, ints |-> input.ints, out |-> <<>>, stopped |-> FALSE],
            MaxBlocksRun)

-----------------------------------------------------------------------------
Init ==
  /\ ir \in Sources
  /\ round = 0
  /\ next = 1
  /\ meaning = [i \in Inputs |-> Behaviour(ir, i)]

(* Every pass is followed by dead_code_delete.                             *)
AfterPass(f) == DeadCodeDelete(f)

Pass(name, f) ==
  /\ Passes[next] = name
  /\ ir' = AfterPass(f)
  /\ next' = next + 1
  /\ UNCHANGED <<round, meaning>>

ReadOnlyPass == Pass("read only", ReadOnlyToConstant(ir))
ConstantsPass == Pass("constants", ConstantFolding(ir))
ArrayFoldingPass == Pass("array folding", ArrayFolding(ir))
DeadArraysPass == Pass("dead arrays", DeadArrayDelete(ir))
ArrayLiftPass == Pass("array lift", ArrayExternal(ir))
LoopMotionPass == Pass("loop motion", LoopInvariantMotion(ir))
SubexpressionsPass == Pass("subexpressions", CommonSubexpressions(ir))
BranchesPass == Pass("branches", ConstantBranchConversion(ir))
BlocksPass == Pass("blocks", BlockCombination(ir))

(* A round ends with irCheck; the compiler exits if it fails.              *)
NextRound ==
  /\ Passes[next] = "check"
  /\ round + 1 < OPTIMIZE_TIMES
  /\ IrCheck(ir)
  /\ round' = round + 1
  /\ next' = 1
  /\ UNCHANGED <<ir, meaning>>

(* After the last round dead code is removed OPTIMIZE_TIMES times more.    *)
Finish ==
  /\ Passes[next] = "check"
  /\ round + 1 = OPTIMIZE_TIMES
  /\ IrCheck(ir)
  /\ ir' = FoldLeft(LAMBDA f, i : DeadCodeDelete(f), ir, [i \in 1 .. OPTIMIZE_TIMES |-> i])
  /\ round' = OPTIMIZE_TIMES
  /\ UNCHANGED <<next, meaning>>

Next ==
  \/ ReadOnlyPass \/ ConstantsPass \/ ArrayFoldingPass \/ DeadArraysPass \/ ArrayLiftPass
  \/ LoopMotionPass \/ SubexpressionsPass \/ BranchesPass \/ BlocksPass
  \/ NextRound \/ Finish

Spec == Init /\ [][Next]_vars

-----------------------------------------------------------------------------
(* Properties.                                                             *)

(* Every pass keeps what the function does: what it puts out and returns,  *)
(* for every argument and whatever it reads.                               *)
SameBehaviour == \A i \in Inputs : Behaviour(ir, i) = meaning[i]

(* No legal function is refused: irCheck succeeds after every round, and   *)
(* after the last one nothing that is left is unused.                      *)
IrChecked ==
  Passes[next] = "check" =>
    IrCheck(ir) /\ (round = OPTIMIZE_TIMES => EverythingUsed(ir))

(* A value is computed on every way to its use: its instruction is in the  *)
(* function, and its block dominates that of the user, or the block from   *)
(* which a phi takes it.  irCheck does not look at this.                   *)
Dominates(b, c) ==
  b = c \/ c \notin ReachedFrom([ir EXCEPT !.edges = {e \in @ : e[2] # b}], {ir.order[1]} \ {b})

At(v) == CHOOSE i \in DOMAIN Ins(ir, Block(ir, v)) : Ins(ir, Block(ir, v))[i] = v

OperandsComputed ==
  \A b \in BlockSet(ir) :
    /\ \A phi \in Phis(ir, b) : \A p \in DOMAIN ir.val[phi].args :
         LET x == ir.val[phi].args[p]
         IN  IsInstruction(x) =>
               /\ x \in Range(Ins(ir, Block(ir, x))) \cup Phis(ir, Block(ir, x))
               /\ Dominates(Block(ir, x), p)
    /\ \A v \in Range(Ins(ir, b)) : \A x \in Operands(ir, v) : IsInstruction(x) =>
         IF Block(ir, x) # b THEN /\ x \in Range(Ins(ir, Block(ir, x))) \cup Phis(ir, Block(ir, x))
                                  /\ Dominates(Block(ir, x), b)
         ELSE x \in Phis(ir, b) \/ (x \in Range(Ins(ir, b)) /\ At(x) < At(v))

(* What code generation takes for granted of a value without a variable:   *)
(* it is read at most once, by an instruction of its block.  irCheck       *)
(* counts users, not the operands they have.                               *)
Reads(f, v) == {p \in UNION {{<<u, i>> : i \in DOMAIN f.val[u].args} : u \in Users(f, v)} :
                  f.val[p[1]].args[p[2]] = v}

RightValuesReadOnce ==
  \A b \in BlockSet(ir) : \A v \in Range(Ins(ir, b)) : ir.val[v].res = "R" =>
    /\ Cardinality(Reads(ir, v)) <= 1
    /\ \A u \in Users(ir, v) : Block(ir, u) = b /\ Kind(ir, u) # "phi"
=============================================================================
