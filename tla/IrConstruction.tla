---------------------------- MODULE IrConstruction ----------------------------
(***************************************************************************)
(* From the source to the IR: syntax analysis, buildIrModule (ir_build.cpp) *)
(* and what is done to the IR before irCheck.  What is built has to do     *)
(* what the source says.                                                   *)
(*                                                                         *)
(* The builder is a record s: the function f of Ir.tla, the block b that   *)
(* instructions go to, afterJump, the values of scalars, the addresses of  *)
(* arrays, and the contents of global variables.  The scalars of these     *)
(* programs are not assigned in a branch or a loop: that a variable has    *)
(* several values in a block, and phis, is SsaConstruction.tla.            *)
(***************************************************************************)
EXTENDS Syntax

CONSTANTS
  Sources,   \* programs, the trees of SysY.tla
  Inputs     \* runs to compare: what is read, and the arguments

VARIABLES source, root, ir, pc
vars == <<source, tokenInfoList, root, ir, pc>>

(* The functions that may be called, and their types. *)
IntFunctions == {"getint", "note", "row"}

-----------------------------------------------------------------------------
(* Blocks and instructions. *)
ParameterValue(i) == 510 + i
GlobalValue(i) == 530 + i

Numbered(s) == Cardinality(DOMAIN s.f.bb)

(* BasicBlock: n more blocks, not in the function's list yet. *)
NewBlocks(s, n) ==
  [s EXCEPT !.f.bb = [b \in Numbered(s) + 1 .. Numbered(s) + n |->
                        [ins |-> <<>>, phis |-> {}, valid |-> TRUE]] @@ @]

Begin(s, b) == [s EXCEPT !.b = b, !.afterJump = FALSE]
List(s, b) == [s EXCEPT !.f.order = Append(@, b)]
Enter(s, b) == List(Begin(s, b), b)
Branches(s, t, f) == [s EXCEPT !.f.edges = @ \cup {<<s.b, t>>, <<s.b, f>>}]

(* An instruction at the end of the block, and the value it makes. *)
Emit(s, kind, op, args, res, to) ==
  LET v == Cardinality(DOMAIN s.f.val) + 1
      record == [kind |-> kind, op |-> op, args |-> args, blk |-> s.b, res |-> res,
                 valid |-> TRUE, to |-> to]
  IN  [s |-> [s EXCEPT !.f.val = (v :> record) @@ @,
                       !.f.uses = @ \cup {<<x, v>> : x \in Range(args)},
                       !.f.bb[s.b].ins = Append(@, v)],
       v |-> v]

BinaryInstruction(s, op, l, r) ==
  Emit(s, IF op \in Orderings \cup {"==", "!="} THEN "cmp" ELSE "binary", op, <<l, r>>, "R", <<>>)
UnaryInstruction(s, op, x) == Emit(s, "unary", op, <<x>>, "R", <<>>)
LoadInstruction(s, address, offset) == Emit(s, "load", "", <<address, offset>>, "R", <<>>)
StoreInstruction(s, x, address, offset) ==
  Emit(s, "store", "", <<x, address, offset>>, "other", <<>>).s
InvokeInstruction(s, id, params) ==
  Emit(s, "invoke", id, params, IF id \in IntFunctions THEN "R" ELSE "other", <<>>)

(* A block that has not been left jumps to the next one. *)
JumpInstruction(s, to) ==
  IF s.afterJump THEN s
  ELSE [Emit(s, "jmp", "", <<>>, "other", <<to>>).s EXCEPT !.f.edges = @ \cup {<<s.b, to>>}]

(* resultType = L_VAL_RESULT. *)
LeftValue(s, v) == IF IsInstruction(v) THEN [s EXCEPT !.f.val[v].res = "L"] ELSE s
IsRight(s, v) == IsInstruction(v) /\ s.f.val[v].res = "R"

-----------------------------------------------------------------------------
(* Expressions: the builder after them and the value. *)
RECURSIVE ExpToIr(_, _)

(* pointerToIr: the address of the array and the offset in it, in words if *)
(* all subscripts are given and else in bytes.                             *)
Subscript(off, r, i, dims) ==
  LET mul == BinaryInstruction(off.s, "*", off.v, Number(r.size))
      sum == BinaryInstruction(mul.s, "+", r.offset, mul.v)
  IN  [s |-> IF i = 1 THEN mul.s ELSE sum.s,
       offset |-> IF i = 1 THEN mul.v ELSE sum.v,
       size |-> IF i < Len(dims) THEN r.size \div dims[i + 1] ELSE r.size]

Bytes(words) ==
  LET bytes == BinaryInstruction(words.s, "*", words.offset, Number(4))
  IN  [s |-> bytes.s, offset |-> bytes.v]

PointerToIr(s, lVal) ==
  LET dims == lVal.ident.dims
      words == FoldLeft(LAMBDA r, i : Subscript(ExpToIr(r.s, lVal.at[i]), r, i, dims),
                        [s |-> s, offset |-> Number(0), size |-> Product(Tail(dims))],
                        [i \in DOMAIN lVal.at |-> i])
  IN  CASE dims = <<>> -> [s |-> s, offset |-> Number(0)]
        [] dims # <<>> /\ Len(lVal.at) < Len(dims) -> Bytes(words)
        [] OTHER -> words

ElementToIr(p, address, complete) ==
  IF complete THEN LoadInstruction(p.s, address, p.offset)
  ELSE BinaryInstruction(p.s, "+", address, p.offset)

LValToIr(s, lVal) ==
  CASE lVal.ident.dims = <<>> /\ ~lVal.ident.global -> [s |-> s, v |-> s.vars[lVal.id]]
    [] lVal.ident.dims # <<>> /\ lVal.at = <<>> -> [s |-> s, v |-> s.address[lVal.id]]
    [] OTHER -> ElementToIr(PointerToIr(s, lVal), s.address[lVal.id],
                            Len(lVal.at) = Len(lVal.ident.dims))

(* One argument may stay without a variable, several may not. *)
ParamsToIr(s, exps) ==
  FoldLeft(LAMBDA r, exp :
             LET e == ExpToIr(r.s, exp)
             IN  [s |-> IF Len(exps) > 1 THEN LeftValue(e.s, e.v) ELSE e.s, params |-> Append(r.params, e.v)],
           [s |-> s, params |-> <<>>], exps)

(* Of two sides of a comparison that have no variable, the left gets one. *)
ComparedSides(s, op, lhs, rhs) ==
  IF op \in Orderings \cup {"==", "!="} /\ IsRight(s, lhs) /\ IsRight(s, rhs)
  THEN LeftValue(s, lhs) ELSE s

ExpToIr(s, e) ==
  LET x == ExpToIr(s, IF e.is = "unary" THEN e.arg ELSE e.l)
      y == ExpToIr(x.s, e.r)
      p == ParamsToIr(s, e.args)
  IN  CASE e.is = "num" -> [s |-> s, v |-> Number(e.n)]
        [] e.is = "lval" -> LValToIr(s, e)
        [] e.is = "call" -> InvokeInstruction(p.s, e.id, p.params)
        [] e.is = "unary" -> IF e.op = "+" THEN x ELSE UnaryInstruction(x.s, e.op, x.v)
        [] OTHER -> BinaryInstruction(ComparedSides(y.s, e.op, x.v, y.v), e.op, x.v, y.v)

(* Conditions: && and || are blocks, and the successors of the last one    *)
(* are for the caller to note.                                             *)
BranchOn(e, trueBlock, falseBlock) ==
  Emit(e.s, "br", "", <<e.v>>, "other", <<trueBlock, falseBlock>>).s

RECURSIVE ConditionToIr(_, _, _, _)
ConditionToIr(s, cond, trueBlock, falseBlock) ==
  LET next == Numbered(s) + 1
      whenTrue == IF cond.op = "||" THEN trueBlock ELSE next
      whenFalse == IF cond.op = "||" THEN next ELSE falseBlock
      left == ConditionToIr(NewBlocks(s, 1), cond.l, whenTrue, whenFalse)
  IN  IF cond.is = "binary" /\ cond.op \in {"&&", "||"}
      THEN ConditionToIr(Enter(Branches(left, whenTrue, whenFalse), next), cond.r, trueBlock, falseBlock)
      ELSE BranchOn(ExpToIr(s, cond), trueBlock, falseBlock)

-----------------------------------------------------------------------------
(* Definitions. *)
WriteVariable(e, id) == [LeftValue(e.s, e.v) EXCEPT !.vars = Set(@, id, e.v)]

(* Elements are stored in the order of their values, the gaps in between   *)
(* filled with zero.                                                       *)
StoreAt(e, alloc, i) == StoreInstruction(e.s, e.v, alloc, Number(i))

Zeros(s, alloc, from, to) ==
  FoldLeft(LAMBDA k, i : StoreAt([s |-> k, v |-> Number(0)], alloc, i), s,
           [i \in 1 .. to - from |-> from + i - 1])

ArrayInit(s, alloc, values, units) ==
  LET init(r, p) == [s |-> StoreAt(ExpToIr(Zeros(r.s, alloc, r.curIndex, p[1]), p[2]), alloc, p[1]),
                     curIndex |-> Max({r.curIndex, p[1]}) + 1]
      done == FoldLeft(init, [s |-> s, curIndex |-> 0], values)
  IN  Zeros(done.s, alloc, done.curIndex, units)

ArrayDefToIr(alloc, d) ==
  LET units == Product(d.ident.dims)
      declared == [alloc.s EXCEPT !.address = Set(@, d.id, alloc.v)]
  IN  IF d.init = <<>> THEN declared
      ELSE ArrayInit(declared, alloc.v, ToOneDimensionArray(d.init[1], 0, units), units)

VarDefToIr(s, d) ==
  CASE s.afterJump \/ (d.ident.dims = <<>> /\ d.init = <<>>) -> s
    [] ~s.afterJump /\ d.ident.dims = <<>> /\ d.init # <<>> -> WriteVariable(ExpToIr(s, d.init[1]), d.id)
    [] OTHER -> ArrayDefToIr(Emit(s, "alloc", "", <<>>, "other", <<>>), d)

(* initValues of a constant array or a global variable: what is not listed is zero. *)
Contents(d) ==
  LET values == IF d.init = <<>> THEN <<>>
                ELSE ToOneDimensionArray(d.init[1], 0, Product(d.ident.dims))
      known == [p \in {q[1] : q \in Range(values)} |->
                  (CHOOSE q \in Range(values) : q[1] = p)[2].n]
  IN  known @@ [p \in 0 .. Product(d.ident.dims) - 1 |-> 0]

(* ConstantValue and GlobalValue. A scalar constant is nothing but its number. *)
ConstDefToIr(s, d) ==
  LET v == ConstantArray(Cardinality(DOMAIN s.f.arrays))
  IN  IF d.ident.dims = <<>> THEN s
      ELSE [s EXCEPT !.f.arrays = Set(@, v, Contents(d)), !.address = Set(@, d.id, v)]

GlobalDefToIr(s, d) ==
  LET v == GlobalValue(Cardinality(DOMAIN s.globals))
  IN  [s EXCEPT !.globals = Set(@, v, Contents(d)), !.address = Set(@, d.id, v)]

DeclToIr(s, decl, global) ==
  FoldLeft(LAMBDA r, d : IF decl.const THEN ConstDefToIr(r, d)
                         ELSE IF global THEN GlobalDefToIr(r, d) ELSE VarDefToIr(r, d),
           s, decl.defs)

-----------------------------------------------------------------------------
(* Statements.  loop names the blocks that continue and break go to.       *)
Leaves(s) == [s EXCEPT !.afterJump = TRUE]

StoreTo(p, v, address) == StoreInstruction(p.s, v, address, p.offset)

Assigned(value, to) ==
  LET s == IF to.ident.dims = <<>> THEN value.s ELSE LeftValue(value.s, value.v)
  IN  IF to.ident.dims = <<>> /\ ~to.ident.global THEN WriteVariable(value, to.id)
      ELSE StoreTo(PointerToIr(s, to), value.v, s.address[to.id])

AssignToIr(s, stmt) == Assigned(ExpToIr(s, stmt.exp), stmt.to)

Returned(value) == Emit(value.s, "ret", "", <<value.v>>, "other", <<>>).s

ReturnToIr(s, stmt) ==
  Leaves(IF stmt.is = "return void" THEN Emit(s, "ret", "", <<>>, "other", <<>>).s
         ELSE Returned(ExpToIr(s, stmt.exp)))

RECURSIVE StmtToIr(_, _, _)

IfToIr(s, stmt, loop) ==
  LET endIf == Numbered(s) + 1
      ifStmt == endIf + 1
      cond == ConditionToIr(NewBlocks(s, 2), stmt.cond, ifStmt, endIf)
      then == StmtToIr(Enter(Branches(cond, ifStmt, endIf), ifStmt), stmt.then, loop)
  IN  Enter(JumpInstruction(then, endIf), endIf)

(* When both branches leave, nothing comes after them. *)
EndIfElse(thenLeaves, else, endIf) ==
  IF thenLeaves /\ else.afterJump THEN Leaves([else EXCEPT !.b = endIf])
  ELSE Enter(JumpInstruction(else, endIf), endIf)

ElseToIr(then, stmt, loop, endIf, elseStmt) ==
  EndIfElse(then.afterJump,
            StmtToIr(Enter(JumpInstruction(then, endIf), elseStmt), stmt.else[1], loop), endIf)

IfElseToIr(s, stmt, loop) ==
  LET endIf == Numbered(s) + 1
      ifStmt == endIf + 1
      elseStmt == endIf + 2
      cond == ConditionToIr(NewBlocks(s, 3), stmt.cond, ifStmt, elseStmt)
      then == StmtToIr(Enter(Branches(cond, ifStmt, elseStmt), ifStmt), stmt.then, loop)
  IN  ElseToIr(then, stmt, loop, endIf, elseStmt)

(* The condition is built twice: before the loop, and after its body if    *)
(* anything gets there.                                                    *)
EndWhile(body, stmt, whileBody, whileJudge, whileEnd) ==
  LET judge == ConditionToIr(Enter(body, whileJudge), stmt.cond, whileBody, whileEnd)
  IN  Enter(IF Pred(body.f, whileJudge) = {} THEN body ELSE Branches(judge, whileBody, whileEnd), whileEnd)

WhileToIr(s, stmt) ==
  LET whileBody == Numbered(s) + 1
      whileJudge == whileBody + 1
      whileEnd == whileBody + 2
      cond == ConditionToIr(NewBlocks(s, 3), stmt.cond, whileBody, whileEnd)
      body == JumpInstruction(
                StmtToIr(Enter(Branches(cond, whileBody, whileEnd), whileBody), stmt.body,
                         [judge |-> whileJudge, end |-> whileEnd]), whileJudge)
  IN  EndWhile(body, stmt, whileBody, whileJudge, whileEnd)

BlockToIr(s, items, loop) ==
  FoldLeft(LAMBDA r, item : IF item.is = "decl" THEN DeclToIr(r, item, FALSE)
                            ELSE StmtToIr(r, item, loop),
           s, items)

StmtToIr(s, stmt, loop) ==
  CASE s.afterJump \/ stmt.is = "empty" -> s
    [] stmt.is = "exp" -> ExpToIr(s, stmt.exp).s
    [] stmt.is = "block" -> BlockToIr(s, stmt.items, loop)
    [] stmt.is = "assign" -> AssignToIr(s, stmt)
    [] stmt.is \in {"return", "return void"} -> ReturnToIr(s, stmt)
    [] stmt.is = "if" -> IF stmt.else = <<>> THEN IfToIr(s, stmt, loop) ELSE IfElseToIr(s, stmt, loop)
    [] stmt.is = "while" -> WhileToIr(s, stmt)
    [] stmt.is = "break" -> Leaves(JumpInstruction(s, loop.end))
    [] OTHER -> Leaves(JumpInstruction(s, loop.judge))

-----------------------------------------------------------------------------
(* buildIrModule, for a unit with one function. *)
Builder ==
  [f |-> [order |-> <<>>, bb |-> <<>>, edges |-> {}, val |-> <<>>, uses |-> {}, arrays |-> <<>>, up |-> TRUE],
   b |-> 0, afterJump |-> FALSE, vars |-> <<>>, address |-> <<>>, globals |-> <<>>]

ParamToIr(s, params, i) ==
  IF params[i].ident.dims = <<>> THEN [s EXCEPT !.vars = Set(@, params[i].id, ParameterValue(i))]
  ELSE [s EXCEPT !.address = Set(@, params[i].id, ParameterValue(i))]

Module(s) == [f |-> s.f, globals |-> s.globals]

BuildIrModule(unit) ==
  LET func == unit.funcs[1]
      globals == FoldLeft(LAMBDA s, d : DeclToIr(s, d, TRUE), Builder, unit.decls)
      entered == Enter(NewBlocks(globals, 1), 1)
      params == FoldLeft(LAMBDA s, i : ParamToIr(s, func.params, i), entered,
                         [i \in DOMAIN func.params |-> i])
      noLoop == [judge |-> 0, end |-> 0]
  IN  Module(BlockToIr(params, func.block.items, noLoop))

(* Mutant: every comparison stays one. *)
LeaveMultiCmp(f) == f

(* A comparison that no branch follows is an operation. *)
RemoveMultiCmp(f) ==
  LET followed(b, i) == i < Len(Ins(f, b)) /\ Kind(f, Ins(f, b)[i + 1]) # "br"
      computed == UNION {{Ins(f, b)[i] : i \in {j \in DOMAIN Ins(f, b) : followed(b, j)}} : b \in BlockSet(f)}
  IN  [f EXCEPT !.val = [v \in DOMAIN @ |-> IF v \in computed /\ @[v].kind = "cmp"
                                            THEN [@[v] EXCEPT !.kind = "binary"] ELSE @[v]]]

-----------------------------------------------------------------------------
(* Running the IR, on the machine of SysY.tla, which is at a block; memory *)
(* is by address.                                                          *)
Poison == -1000
BlocksRun == 60

BaseOf(v) == 100000 + 1000 * v
IsObject(v) == IsConstantArray(v) \/ v \in 530 .. 560

ValueOf(m, v) ==
  CASE IsNumber(v) -> NumberOf(v)
    [] IsObject(v) -> BaseOf(v)
    [] OTHER -> IF v \in DOMAIN m.vars THEN m.vars[v] ELSE Poison

Execute(f, m, v) ==
  LET i == f.val[v]
      x(k) == ValueOf(m, i.args[k])
      makes(n) == [m EXCEPT !.vars = Set(@, v, n)]
      cell(k) == x(k) + 4 * x(k + 1)
      call == Called(m, i.op, [k \in DOMAIN i.args |-> x(k)])
      goes(b) == [m EXCEPT !.at = b]
  IN  CASE m.state # "runs" -> m
        [] i.kind \in {"binary", "cmp"} -> makes(Evaluate(i.op, x(1), x(2)))
        [] i.kind = "unary" -> makes(EvaluateUnary(i.op, x(1)))
        [] i.kind = "load" -> makes(IF cell(1) \in DOMAIN m.mem THEN m.mem[cell(1)] ELSE Poison)
        [] i.kind = "store" -> [m EXCEPT !.mem = Set(@, cell(2), x(1))]
        [] i.kind = "alloc" -> makes(BaseOf(v))
        [] i.kind = "invoke" -> [call.m EXCEPT !.vars = Set(@, v, call.n)]
        [] i.kind = "br" -> goes(i.to[IF x(1) # 0 THEN 1 ELSE 2])
        [] i.kind = "jmp" -> goes(i.to[1])
        [] OTHER -> Stops(IF i.args = <<>> THEN m ELSE Puts(m, x(1)))

RECURSIVE RunBlocks(_, _, _)
RunBlocks(f, m, n) ==
  IF m.state # "runs" \/ n = 0 THEN m.out
  ELSE RunBlocks(f, FoldLeft(LAMBDA k, v : Execute(f, k, v), m, Ins(f, m.at)), n - 1)

MemoryOf(objects) ==
  FoldLeft(LAMBDA mem, v : [a \in {BaseOf(v) + 4 * k : k \in DOMAIN objects[v]} |->
                              objects[v][(a - BaseOf(v)) \div 4]] @@ mem,
           <<>>, SetToSeq(DOMAIN objects))

Behaviour(module, input) ==
  LET mem == InputMemory(input) @@ MemoryOf(module.globals) @@ MemoryOf(module.f.arrays)
      args == [v \in {ParameterValue(i) : i \in DOMAIN input.args} |-> input.args[v - 510]]
  IN  RunBlocks(module.f, [at |-> module.f.order[1]] @@ [Machine(mem, input) EXCEPT !.vars = args], BlocksRun)

-----------------------------------------------------------------------------
Init ==
  /\ source \in Sources
  /\ tokenInfoList = WrittenProgram(source)
  /\ root = <<>>
  /\ ir = <<>>
  /\ pc = "syntaxAnalyze"

AnalyzeSyntax ==
  /\ pc = "syntaxAnalyze"
  /\ root' = SyntaxAnalyze
  /\ pc' = "buildIrModule"
  /\ UNCHANGED <<source, tokenInfoList, ir>>

BuildIr ==
  /\ pc = "buildIrModule"
  /\ ir' = BuildIrModule(root)
  /\ pc' = "removeMultiCmp"
  /\ UNCHANGED <<source, tokenInfoList, root>>

RemoveCmp ==
  /\ pc = "removeMultiCmp"
  /\ ir' = [ir EXCEPT !.f = RemoveMultiCmp(@)]
  /\ pc' = "irCheck"
  /\ UNCHANGED <<source, tokenInfoList, root>>

Next == AnalyzeSyntax \/ BuildIr \/ RemoveCmp

Spec == Init /\ [][Next]_vars

-----------------------------------------------------------------------------
(* The IR does what the source says: it reads, calls and puts out the same *)
(* in the same order, and returns the same, whatever it is given.  The     *)
(* precedence of operators, short circuits, dangling elses, the ways out   *)
(* of loops, the places of initializers and of elements and the constants  *)
(* computed by the front end all show in it.                               *)
SameMeaning == pc = "irCheck" => \A i \in Inputs : Behaviour(ir, i) = Does(source, i)

(* A legal program is not refused: irCheck succeeds on what is built, and  *)
(* a value without a variable is read once, by an instruction of its block.*)
Reads(f, v) == {p \in UNION {{<<u, i>> : i \in DOMAIN f.val[u].args} : u \in Users(f, v)} :
                  f.val[p[1]].args[p[2]] = v}

IrAccepted ==
  pc = "irCheck" =>
    /\ IrCheck(ir.f)
    /\ \A b \in BlockSet(ir.f) : \A v \in Range(Ins(ir.f, b)) : ir.f.val[v].res = "R" =>
         Cardinality(Reads(ir.f, v)) <= 1 /\ \A u \in Users(ir.f, v) : Block(ir.f, u) = b
=============================================================================
