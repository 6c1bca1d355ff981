-------------------------- MODULE SsaConstruction --------------------------
(***************************************************************************)
(* On-the-fly construction of SSA form: ir/ir_ssa.cpp, driven by the       *)
(* statements of one function as stmtToIr and conditionToIr of             *)
(* ir/ir_build.cpp walk them.                                              *)
(*                                                                         *)
(* The recursion of read_variable, add_phi_operands and remove_trivial_phi *)
(* is kept as an explicit stack of frames, one per active C++ call, whose  *)
(* fields are the locals the call still needs.  So every state in which a  *)
(* phi has only some of its operands, or in which a local may have gone    *)
(* stale, is a state of this module.                                       *)
(*                                                                         *)
(* Statements come one by one, in any order the grammar allows: the        *)
(* program is chosen while it is translated.  Predecessors, users and      *)
(* incomplete_phis are unordered containers: their iteration order is any. *)
(*                                                                         *)
(* A value is a number: Undefined, the definition of the i-th instruction  *)
(* (i > 0), or the p-th phi, -p.  Instructions that are not assignments    *)
(* of a local variable are left out.                                       *)
(*                                                                         *)
(* read_variable_recursively names "phi" at line 74, two lines before its  *)
(* declaration.  It is read here as the phi made at line 71; lines 76-77   *)
(* are read as they stand: what enters block->phis is the value returned.  *)
(***************************************************************************)
EXTENDS Integers, Sequences, FiniteSets

CONSTANTS
  Vars,        \* local variables of the function
  MaxBlocks,   \* bound: basic blocks of the function
  MaxDefs,     \* bound: assignments of a new value
  MaxReads,    \* bound: expressions that read a variable
  Copies       \* bound: the pairs <<name, to>> of which to = name; may occur

ASSUME BoundsAssumption ==
  /\ Vars # {}
  /\ MaxBlocks \in Nat \ {0}
  /\ MaxDefs \in Nat
  /\ MaxReads \in Nat
  /\ Copies \subseteq Vars \X Vars

VARIABLES
  block,    \* the basic blocks, in the order they are made; 1 is entryBlock
  phi,      \* the phis, in the order they are made
  bb,       \* the block statements are appended to
  afterJump,\* this block has ended with a jump or a return
  open,     \* the statements stmtToIr is inside of, innermost first
  stack,    \* the active calls of ir_ssa.cpp, innermost first
  ret,      \* the value the call that has just returned returned, or Nothing
  defs,     \* assignments so far
  reads     \* reads so far

vars == <<block, phi, bb, afterJump, open, stack, ret, defs, reads>>

Undefined == 0
Nothing == MaxDefs + 1
IsPhi(v) == v < 0
PhiAt(v) == phi[-v]

Blocks == DOMAIN block
Phis == {-p : p \in DOMAIN phi}
Live == {p \in Phis : PhiAt(p).valid}

NewBlock(sealed) ==
  [predecessors |-> {}, successors |-> {}, sealed |-> sealed, ssa_map |-> <<>>,
   incomplete_phis |-> <<>>, phis |-> {}, instructions |-> <<>>]

NewPhi(name, b) ==
  [block |-> b, localVarName |-> name, operands |-> <<>>, users |-> {}, valid |-> TRUE]

(***************************************************************************)
(* The two-way edges a jump or a branch at the end of b adds.              *)
(***************************************************************************)
Edges(blk, b, targets) ==
  [c \in DOMAIN blk |->
     [blk[c] EXCEPT !.successors = IF c = b THEN @ \cup targets ELSE @,
                    !.predecessors = IF c \in targets THEN @ \cup {b} ELSE @]]

(***************************************************************************)
(* write_variable: the map of the block, and the block as a user of a phi. *)
(* Users are blocks, phis and instructions.                                *)
(***************************************************************************)
BlockUser(b) == <<"block", b, 0>>
PhiUser(p) == <<"phi", p, 0>>
InsUser(b, i) == <<"ins", b, i>>

With(f, k, v) == [x \in {k} \cup DOMAIN f |-> IF x = k THEN v ELSE f[x]]

Mapped(blk, b, name, v) == [blk EXCEPT ![b].ssa_map = With(@, name, v)]

Used(ph, v, user) == IF IsPhi(v) THEN [ph EXCEPT ![-v].users = @ \cup {user}] ELSE ph

Top == Head(stack)
Returned(fn) == stack # <<>> /\ Top.fn = fn /\ ret # Nothing
Calling(fn) == stack # <<>> /\ Top.fn = fn /\ ret = Nothing
Return(v) == stack' = Tail(stack) /\ ret' = v
Replace(frames) == stack' = frames \o Tail(stack)
(* The calls: a read and what waits for its value, the operands of a phi,  *)
(* a removal and its second half, a block being sealed.                    *)
ReadFrame(fn, b, name) == [fn |-> fn, block |-> b, name |-> name]
OperandsFrame(p, name, preds, pred) ==
  [fn |-> "operands", phi |-> p, name |-> name, rest |-> preds, pred |-> pred]
RemoveFrame(p) == [fn |-> "remove", phi |-> p]
CascadeFrame(same, users, use) == [fn |-> "cascade", same |-> same, rest |-> users, use |-> use]
SealFrame(b, names) == [fn |-> "seal", block |-> b, rest |-> names]

AST == <<bb, afterJump, open, defs, reads>>

-----------------------------------------------------------------------------
(* read_variable and read_variable_recursively.                            *)

ReadHit ==
  /\ Calling("read")
  /\ Top.name \in DOMAIN block[Top.block].ssa_map
  /\ Return(block[Top.block].ssa_map[Top.name])
  /\ UNCHANGED <<block, phi, AST>>

ReadIncomplete ==
  /\ Calling("read")
  /\ LET b == Top.block
         p == -(Len(phi) + 1) IN
       /\ Top.name \notin DOMAIN block[b].ssa_map
       /\ ~block[b].sealed
       /\ block' = [Mapped(block, b, Top.name, p) EXCEPT
                      ![b].incomplete_phis = With(@, Top.name, p)]
       /\ phi' = Used(Append(phi, NewPhi(Top.name, b)), p, BlockUser(b))
       /\ Return(p)
  /\ UNCHANGED AST

ReadSingle ==
  /\ Calling("read")
  /\ Top.name \notin DOMAIN block[Top.block].ssa_map
  /\ block[Top.block].sealed
  /\ Cardinality(block[Top.block].predecessors) = 1
  /\ \E pre \in block[Top.block].predecessors :
       Replace(<<ReadFrame("read", pre, Top.name), ReadFrame("single", Top.block, Top.name)>>)
  /\ UNCHANGED <<block, phi, ret, AST>>

ReadSingleReturn ==
  /\ Returned("single")
  /\ block' = Mapped(block, Top.block, Top.name, ret)
  /\ phi' = Used(phi, ret, BlockUser(Top.block))
  /\ Return(ret)
  /\ UNCHANGED AST

(***************************************************************************)
(* Several predecessors, or none: an empty phi is written first, so that   *)
(* a read that comes round a loop finds it.                                *)
(***************************************************************************)
ReadJoin ==
  /\ Calling("read")
  /\ LET b == Top.block
         p == -(Len(phi) + 1) IN
       /\ Top.name \notin DOMAIN block[b].ssa_map
       /\ block[b].sealed
       /\ Cardinality(block[b].predecessors) # 1
       /\ block' = Mapped(block, b, Top.name, p)
       /\ phi' = Used(Append(phi, NewPhi(Top.name, b)), p, BlockUser(b))
       /\ Replace(<<OperandsFrame(p, Top.name, block[b].predecessors, 0),
                    ReadFrame("join", b, Top.name)>>)
  /\ UNCHANGED <<ret, AST>>

ReadJoinReturn ==
  /\ Returned("join")
  /\ block' = [Mapped(block, Top.block, Top.name, ret) EXCEPT
                 ![Top.block].phis = @ \cup {ret}]
  /\ phi' = Used(phi, ret, BlockUser(Top.block))
  /\ Return(ret)
  /\ UNCHANGED AST

-----------------------------------------------------------------------------
(* add_phi_operands.                                                       *)

NextOperand ==
  /\ Calling("operands")
  /\ \E pred \in Top.rest :
       Replace(<<ReadFrame("read", pred, Top.name),
                 OperandsFrame(Top.phi, Top.name, Top.rest \ {pred}, pred)>>)
  /\ UNCHANGED <<block, phi, ret, AST>>

(* Mutant: a phi does not become a user of its operand.                    *)
GotOperandUnused ==
  /\ Returned("operands")
  /\ phi' = [phi EXCEPT ![-Top.phi].operands =
                IF Top.pred \in DOMAIN @ THEN @ ELSE With(@, Top.pred, ret)]
  /\ ret' = Nothing
  /\ UNCHANGED <<block, stack, AST>>

(* insert() leaves the operand of a block that already has one.            *)
GotOperand ==
  /\ Returned("operands")
  /\ phi' = Used([phi EXCEPT ![-Top.phi].operands =
                    IF Top.pred \in DOMAIN @ THEN @ ELSE With(@, Top.pred, ret)],
                 ret, PhiUser(Top.phi))
  /\ ret' = Nothing
  /\ UNCHANGED <<block, stack, AST>>

(* Mutant: the last predecessor is not asked.                              *)
OperandsAlmostComplete ==
  /\ Calling("operands")
  /\ Cardinality(Top.rest) <= 1
  /\ Replace(<<RemoveFrame(Top.phi)>>)
  /\ UNCHANGED <<block, phi, ret, AST>>

OperandsComplete ==
  /\ Calling("operands")
  /\ Top.rest = {}
  /\ Replace(<<RemoveFrame(Top.phi)>>)
  /\ UNCHANGED <<block, phi, ret, AST>>

-----------------------------------------------------------------------------
(* remove_trivial_phi.                                                     *)

Others(p) == {PhiAt(p).operands[b] : b \in DOMAIN PhiAt(p).operands} \ {p}

KeepPhi ==
  /\ Calling("remove")
  /\ Cardinality(Others(Top.phi)) > 1
  /\ Return(Top.phi)
  /\ UNCHANGED <<block, phi, AST>>

(* What a trivial phi stands for: the operand that is not the phi itself,  *)
(* or an UndefinedValue when there is none.                                *)
Same(p) == IF Others(p) = {} THEN Undefined ELSE CHOOSE v \in Others(p) : TRUE

Subst(f, p, same) == [k \in DOMAIN f |-> IF f[k] = p THEN same ELSE f[k]]

(***************************************************************************)
(* BasicBlock::replaceUse and the replaceUse of an instruction: what the   *)
(* users that are blocks, or instructions in a block, hold.                *)
(***************************************************************************)
BlocksWith(users, p, same) ==
  [b \in Blocks |->
     [block[b] EXCEPT
        !.ssa_map = IF BlockUser(b) \in users THEN Subst(@, p, same) ELSE @,
        !.instructions = [i \in DOMAIN @ |->
           IF InsUser(b, i) \in users /\ @[i].value = p
           THEN [@[i] EXCEPT !.value = same] ELSE @[i]],
        !.phis = IF b = PhiAt(p).block THEN @ \ {p} ELSE @]]

(* Mutant: BasicBlock::replaceUse does not make the block a user of same.  *)
TouchedNoBlocks(users, p) ==
  {u \in users :
     \/ u[1] = "ins" /\ block[u[2]].instructions[u[3]].value = p
     \/ u[1] = "phi" /\ \E b \in DOMAIN PhiAt(u[2]).operands : PhiAt(u[2]).operands[b] = p}

(* The users in which something was replaced: they leave p and join same.  *)
Touched(users, p) ==
  {u \in users :
     \/ u[1] = "block" /\ \E name \in DOMAIN block[u[2]].ssa_map : block[u[2]].ssa_map[name] = p
     \/ u[1] = "ins" /\ block[u[2]].instructions[u[3]].value = p
     \/ u[1] = "phi" /\ \E b \in DOMAIN PhiAt(u[2]).operands : PhiAt(u[2]).operands[b] = p}

(***************************************************************************)
(* PhiInstruction::replaceUse, the user sets, and the end of phi p: its    *)
(* operands forget it (_isBuildingIr) and it is not valid any more.        *)
(***************************************************************************)
PhisWith(users, p, same) ==
  [k \in DOMAIN phi |->
     LET q == -k IN
     [phi[k] EXCEPT
        !.operands = IF PhiUser(q) \in users THEN Subst(@, p, same) ELSE @,
        !.users = ((IF q = p THEN users \ Touched(users, p) ELSE @)
                   \cup (IF q = same THEN Touched(users, p) ELSE {}))
                  \ (IF \E b \in DOMAIN PhiAt(p).operands : PhiAt(p).operands[b] = q
                     THEN {PhiUser(p)} ELSE {}),
        !.valid = @ /\ q # p]]

RemovePhi ==
  /\ Calling("remove")
  /\ Cardinality(Others(Top.phi)) <= 1
  /\ LET p == Top.phi
         same == Same(p)
         users == PhiAt(p).users \ {PhiUser(p)} IN
       /\ block' = BlocksWith(users, p, same)
       /\ phi' = PhisWith(users, p, same)
       /\ Replace(<<CascadeFrame(same, {q \in Phis : PhiUser(q) \in users}, Nothing)>>)
  /\ UNCHANGED <<ret, AST>>

(* Mutant: the users are walked in the live set, not in a copy of it.      *)
NextUserAgain ==
  /\ Calling("cascade")
  /\ \E use \in Top.rest :
       Replace(<<RemoveFrame(use), CascadeFrame(Top.same, Top.rest, use)>>)
  /\ UNCHANGED <<block, phi, ret, AST>>

NextUser ==
  /\ Calling("cascade")
  /\ \E use \in Top.rest :
       Replace(<<RemoveFrame(use), CascadeFrame(Top.same, Top.rest \ {use}, use)>>)
  /\ UNCHANGED <<block, phi, ret, AST>>

GotUser ==
  /\ Returned("cascade")
  /\ Replace(<<CascadeFrame(IF Top.use = Top.same THEN ret ELSE Top.same, Top.rest, Top.use)>>)
  /\ ret' = Nothing
  /\ UNCHANGED <<block, phi, AST>>

(* Mutant: the users of a removed phi are not reconsidered.                *)
CascadeSkipped ==
  /\ Calling("cascade")
  /\ Return(Top.same)
  /\ UNCHANGED <<block, phi, AST>>

CascadeDone ==
  /\ Calling("cascade")
  /\ Top.rest = {}
  /\ Return(Top.same)
  /\ UNCHANGED <<block, phi, AST>>

-----------------------------------------------------------------------------
(* seal_basic_block: sealed is set only after the last phi has operands.   *)

(* Mutant: an incomplete phi does not enter the phis of its block.         *)
SealNextUnlisted ==
  /\ Calling("seal")
  /\ \E name \in Top.rest :
       LET p == block[Top.block].incomplete_phis[name] IN
         Replace(<<OperandsFrame(p, name, block[Top.block].predecessors, 0),
                   SealFrame(Top.block, Top.rest \ {name})>>)
  /\ UNCHANGED <<block, phi, ret, AST>>

SealNext ==
  /\ Calling("seal")
  /\ \E name \in Top.rest :
       LET p == block[Top.block].incomplete_phis[name] IN
         /\ block' = [block EXCEPT ![Top.block].phis = @ \cup {p}]
         /\ Replace(<<OperandsFrame(p, name, block[Top.block].predecessors, 0),
                      SealFrame(Top.block, Top.rest \ {name})>>)
  /\ UNCHANGED <<phi, ret, AST>>

SealReturn ==
  /\ Returned("seal")
  /\ ret' = Nothing
  /\ UNCHANGED <<block, phi, stack, AST>>

SealDone ==
  /\ Calling("seal")
  /\ Top.rest = {}
  /\ block' = [block EXCEPT ![Top.block].incomplete_phis = <<>>, ![Top.block].sealed = TRUE]
  /\ stack' = Tail(stack)
  /\ UNCHANGED <<phi, ret, AST>>

-----------------------------------------------------------------------------
(* Statements that do not branch.                                          *)

Ready == stack = <<>> /\ ~afterJump

InCondition == open # <<>> /\ Head(open).kind \in {"ifCond", "ifElseCond", "whileCond", "judge"}

(* name = <a new value>: a constant, or the result of an instruction.      *)
Assign(name) ==
  /\ Ready
  /\ ~InCondition
  /\ defs < MaxDefs
  /\ defs' = defs + 1
  /\ block' = [Mapped(block, bb, name, defs') EXCEPT
                 ![bb].instructions = Append(@, [op |-> "def", name |-> name, value |-> defs'])]
  /\ UNCHANGED <<phi, bb, afterJump, open, stack, ret, reads>>

(* An expression, of a statement or of a condition, that reads name; and   *)
(* the statement to = name.                                                *)
ReadVariable(op, name, to) ==
  /\ Ready
  /\ op = "copy" => ~InCondition
  /\ reads < MaxReads
  /\ reads' = reads + 1
  /\ stack' = <<ReadFrame("read", bb, name), [fn |-> op, name |-> name, to |-> to]>>
  /\ UNCHANGED <<block, phi, bb, afterJump, open, ret, defs>>

UseValue ==
  /\ Returned("use")
  /\ block' = [block EXCEPT ![bb].instructions =
                 Append(@, [op |-> "use", name |-> Top.name, value |-> ret])]
  /\ phi' = Used(phi, ret, InsUser(bb, Len(block[bb].instructions) + 1))
  /\ stack' = <<>>
  /\ ret' = Nothing
  /\ UNCHANGED AST

(* A copy makes no instruction: the read value is the variable's new one.  *)
CopyValue ==
  /\ Returned("copy")
  /\ block' = [Mapped(block, bb, Top.to, ret) EXCEPT
                 ![bb].instructions = Append(@, [op |-> "copy", name |-> Top.name,
                                                 to |-> Top.to, value |-> Nothing])]
  /\ phi' = Used(phi, ret, BlockUser(bb))
  /\ stack' = <<>>
  /\ ret' = Nothing
  /\ UNCHANGED AST

-----------------------------------------------------------------------------
(* if, if-else, while, break, continue, return.  A statement that is open  *)
(* keeps its blocks; t and f are the targets of its condition.             *)

Fresh(k) == Len(block) + k

OpenStatement(kind, blocks, judge, end) ==
  /\ Ready
  /\ ~InCondition
  /\ Len(block) + Len(blocks) <= MaxBlocks
  /\ block' = block \o blocks
  /\ open' = <<[kind |-> kind, t |-> Fresh(1), f |-> Fresh(2), judge |-> judge, end |-> end,
                jumped |-> FALSE]>> \o open
  /\ UNCHANGED <<phi, bb, afterJump, stack, ret, defs, reads>>

If == OpenStatement("ifCond", <<NewBlock(TRUE), NewBlock(TRUE)>>, 0, Fresh(2))

IfElse ==
  OpenStatement("ifElseCond", <<NewBlock(TRUE), NewBlock(TRUE), NewBlock(TRUE)>>, 0, Fresh(3))

(* Mutant: whileBody counts as sealed before the edge from whileJudge.     *)
WhileSealed ==
  OpenStatement("whileCond", <<NewBlock(TRUE), NewBlock(TRUE), NewBlock(TRUE)>>,
                Fresh(3), Fresh(2))

(* whileBody is not sealed; whileEnd and whileJudge count as sealed though *)
(* their predecessors are still to come.                                   *)
While ==
  OpenStatement("whileCond", <<NewBlock(FALSE), NewBlock(TRUE), NewBlock(TRUE)>>,
                Fresh(3), Fresh(2))

(* The first operand of && or || has been evaluated in bb: the second one  *)
(* is evaluated in a block of its own.                                     *)
ShortCircuit(target) ==
  /\ Ready
  /\ InCondition
  /\ Len(block) < MaxBlocks
  /\ block' = Edges(Append(block, NewBlock(TRUE)), bb, {target, Fresh(1)})
  /\ bb' = Fresh(1)
  /\ UNCHANGED <<phi, afterJump, open, stack, ret, defs, reads>>

(* The condition of an if or of a first evaluation of a while is complete. *)
Branch ==
  /\ Ready
  /\ InCondition
  /\ LET s == Head(open) IN
       /\ s.kind # "judge"
       /\ block' = Edges(block, bb, {s.t, s.f})
       /\ bb' = s.t
       /\ open' = <<[s EXCEPT !.kind = CASE s.kind = "ifCond" -> "if"
                                         [] s.kind = "ifElseCond" -> "then"
                                         [] s.kind = "whileCond" -> "body"]>> \o Tail(open)
  /\ UNCHANGED <<phi, afterJump, stack, ret, defs, reads>>

(* The edge to the block after a branch, unless the branch ended in a jump. *)
JumpTo(target) == IF afterJump THEN block ELSE Edges(block, bb, {target})

Closing(kind) == stack = <<>> /\ open # <<>> /\ Head(open).kind = kind

EndIf ==
  /\ Closing("if")
  /\ block' = JumpTo(Head(open).end)
  /\ bb' = Head(open).end
  /\ afterJump' = FALSE
  /\ open' = Tail(open)
  /\ UNCHANGED <<phi, stack, ret, defs, reads>>

EndThen ==
  /\ Closing("then")
  /\ block' = JumpTo(Head(open).end)
  /\ bb' = Head(open).f
  /\ afterJump' = FALSE
  /\ open' = <<[Head(open) EXCEPT !.kind = "else", !.jumped = afterJump]>> \o Tail(open)
  /\ UNCHANGED <<phi, stack, ret, defs, reads>>

EndElse ==
  /\ Closing("else")
  /\ block' = JumpTo(Head(open).end)
  /\ bb' = Head(open).end
  /\ afterJump' = (afterJump /\ Head(open).jumped)
  /\ open' = Tail(open)
  /\ UNCHANGED <<phi, stack, ret, defs, reads>>

Sealing(b) == SealFrame(b, DOMAIN block[b].incomplete_phis)

(* The end of a loop body: the condition is evaluated again, in whileJudge, *)
(* if something jumps there; otherwise whileBody is sealed at once.        *)
EndBody ==
  /\ Closing("body")
  /\ LET s == Head(open) IN
       /\ block' = JumpTo(s.judge)
       /\ afterJump' = FALSE
       /\ IF block'[s.judge].predecessors # {}
          THEN /\ bb' = s.judge
               /\ open' = <<[s EXCEPT !.kind = "judge"]>> \o Tail(open)
               /\ stack' = stack
          ELSE /\ bb' = s.end
               /\ open' = Tail(open)
               /\ stack' = <<Sealing(s.t)>>
  /\ UNCHANGED <<phi, ret, defs, reads>>

EndWhile ==
  /\ Closing("judge")
  /\ block' = Edges(block, bb, {Head(open).t, Head(open).f})
  /\ stack' = <<Sealing(Head(open).t)>>
  /\ bb' = Head(open).end
  /\ open' = Tail(open)
  /\ UNCHANGED <<phi, afterJump, ret, defs, reads>>

(* The statement is inside a loop: the nearest open body.                  *)
InnerLoop ==
  LET loops == {i \in DOMAIN open : open[i].kind = "body"} IN
    {open[i] : i \in {j \in loops : \A k \in loops : j <= k}}

BreakOrContinue ==
  /\ Ready
  /\ ~InCondition
  /\ \E loop \in InnerLoop : \E target \in {loop.end, loop.judge} :
       block' = Edges(block, bb, {target})
  /\ afterJump' = TRUE
  /\ UNCHANGED <<phi, bb, open, stack, ret, defs, reads>>

ReturnStatement ==
  /\ Ready
  /\ ~InCondition
  /\ open # <<>>
  /\ afterJump' = TRUE
  /\ UNCHANGED <<block, phi, bb, open, stack, ret, defs, reads>>

-----------------------------------------------------------------------------

Init ==
  /\ block = <<NewBlock(TRUE)>>
  /\ phi = <<>>
  /\ bb = 1
  /\ afterJump = FALSE
  /\ open = <<>>
  /\ stack = <<>>
  /\ ret = Nothing
  /\ defs = 0
  /\ reads = 0

(* A step of the calls that are active.                                    *)
SsaStep ==
  \/ ReadHit \/ ReadIncomplete \/ ReadSingle \/ ReadSingleReturn
  \/ ReadJoin \/ ReadJoinReturn
  \/ NextOperand \/ GotOperand \/ OperandsComplete
  \/ KeepPhi \/ RemovePhi \/ NextUser \/ GotUser \/ CascadeDone
  \/ SealNext \/ SealReturn \/ SealDone
  \/ UseValue \/ CopyValue

Statement ==
  \/ \E name \in Vars : Assign(name) \/ ReadVariable("use", name, name)
  \/ \E copy \in Copies : ReadVariable("copy", copy[1], copy[2])
  \/ If \/ IfElse \/ While
  \/ InCondition /\ (ShortCircuit(Head(open).t) \/ ShortCircuit(Head(open).f))
  \/ Branch \/ EndIf \/ EndThen \/ EndElse \/ EndBody \/ EndWhile
  \/ BreakOrContinue \/ ReturnStatement

Next == SsaStep \/ Statement

Spec == Init /\ [][Next]_vars

(* The calls of one thread go on until they have returned.                 *)
FairSpec == Spec /\ WF_vars(SsaStep)

-----------------------------------------------------------------------------
(***************************************************************************)
(* Properties                                                              *)
(***************************************************************************)

OperandsOf(p) == {PhiAt(p).operands[b] : b \in DOMAIN PhiAt(p).operands}

(* What the instructions of b use, and what its SSA map holds.             *)
UsedIn(b) ==
  {block[b].instructions[i].value : i \in {j \in DOMAIN block[b].instructions :
                                             block[b].instructions[j].op = "use"}}
MappedIn(b) == {block[b].ssa_map[name] : name \in DOMAIN block[b].ssa_map}

(* Every place that holds a live phi is among its users, in the middle of  *)
(* a removal too: replaceUse reaches them all when the phi goes.           *)
UsersKnown ==
  \A p \in Live :
    /\ \A q \in Live : p \in OperandsOf(q) => PhiUser(q) \in PhiAt(p).users
    /\ \A b \in Blocks :
         /\ p \in MappedIn(b) => BlockUser(b) \in PhiAt(p).users
         /\ \A i \in DOMAIN block[b].instructions :
              block[b].instructions[i].value = p => InsUser(b, i) \in PhiAt(p).users

Held(p) ==
  \/ \E q \in Live : p \in OperandsOf(q)
  \/ \E b \in Blocks : p \in MappedIn(b) \cup UsedIn(b)

(* The step that removes a phi leaves it nowhere: in no SSA map, in no      *)
(* instruction and in no phi that stays.                                    *)
RemovalComplete == [][\A p \in Live : p \notin Live' => ~Held(p)']_vars

(* Between statements no phi has an operand that has been removed: phiCheck *)
(* of ir_check.cpp refuses a function in which one has.                     *)
OperandsValid ==
  stack = <<>> => \A p \in Live : OperandsOf(p) \cap Phis \subseteq Live

Complete == {p \in Live : block[PhiAt(p).block].sealed}

(* Between statements a live phi of a sealed block has an operand for each *)
(* predecessor of its block, although blocks made as sealed get their      *)
(* predecessors later (phiCheck, ir_check.cpp).                            *)
OperandPerPredecessor ==
  stack = <<>> =>
    \A p \in Complete : DOMAIN PhiAt(p).operands = block[PhiAt(p).block].predecessors

(* Between statements no live phi of a sealed block is trivial: removing   *)
(* one reconsiders all the phis that become trivial with it.               *)
NoTrivialPhi ==
  stack = <<>> => \A p \in Complete : Cardinality(Others(p)) > 1

(* Between statements a live phi of a sealed block is in the phis of its   *)
(* block, the only place phi elimination looks for it.                     *)
PhiListed ==
  stack = <<>> => \A p \in Complete : p \in block[PhiAt(p).block].phis

(* A read returns: no cycle of blocks with one predecessor, or of phis     *)
(* that become trivial, keeps the recursion going.                         *)
ReadReturns == stack # <<>> ~> stack = <<>>
=============================================================================
