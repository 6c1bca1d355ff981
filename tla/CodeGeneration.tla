--------------------------- MODULE CodeGeneration ---------------------------
(***************************************************************************)
(* The code generator of machine_ir/machine_ir_build.cpp for one function: *)
(* which register or stack slot each IR value is put into, the temporary   *)
(* registers, the saving of registers around a call, the flags.            *)
(*                                                                         *)
(* One action generates the machine code of one IR instruction, as the     *)
(* gen functions do, and runs it at once on a symbolic machine whose       *)
(* registers and words of memory contain not numbers but what they stand   *)
(* for: an IR value, an address in the frame, a term of an operator and    *)
(* its arguments.  The properties compare that with what the IR asks for.  *)
(*                                                                         *)
(* The IR comes instruction by instruction, in any order irCheck accepts:  *)
(* right values are used once, in their block; a CMP is followed by BR.    *)
(* A left value stands for its place, which is defined again when another  *)
(* value, no longer in conflict, gets the same register.                   *)
(*                                                                         *)
(* Offsets are counted in words.  The frame is at 0, the stack pointer     *)
(* while no call is prepared; calls push below it.  regInUse is only       *)
(* written and reported on, and is left out.                               *)
(***************************************************************************)
EXTENDS Integers, Sequences, FiniteSets, TLC, SequencesExt

CONSTANTS
  LValues,      \* left values: parameters, and instructions with L_VAL_RESULT
  Params,       \* the sequence of parameters
  variableRegs, \* the registers of some of them (R4 .. R12), from registerAlloc
  RValues,      \* names for right values: bounds how many can wait for their use
  Small, Big,   \* numbers that are, and are not, valid immediates
  Zero,         \* the number 0 of comparisons with it
  Global,       \* a global variable; its value is its address
  Array,        \* a local array of one word
  FarOffsets,   \* offsets that do not fit into a load or store
  ArgumentLists,\* the argument lists of calls
  Comparisons,  \* condition codes of the comparisons looked at
  Hoisting      \* BOOLEAN: comparisons may have been moved out of loops

ASSUME ConstantsAssumption ==
  /\ IsFiniteSet(LValues)
  /\ Params \in Seq(LValues) /\ \A i, j \in DOMAIN Params : Params[i] = Params[j] => i = j
  /\ DOMAIN variableRegs \subseteq LValues
  /\ \A v, w \in DOMAIN variableRegs : variableRegs[v] = variableRegs[w] => v = w
  /\ \A v \in DOMAIN variableRegs : variableRegs[v] \in 4 .. 12
  /\ Hoisting \in BOOLEAN

(* A value is of one kind.  A call has at most eight arguments: those from *)
(* the fifth on are passed in groups of four, of which there is one here.  *)
ASSUME ValuesAssumption ==
  /\ LValues \cap RValues = {} /\ {Small, Big, Global, Array} \cap (LValues \cup RValues) = {}
  /\ Array \notin {Small, Big, Global} /\ <<"nothing">> \notin LValues \cup RValues
  /\ FarOffsets \subseteq Int
  /\ Comparisons \subseteq {"EQ", "NE", "LT", "GE", "GT", "LE"}
  /\ \A args \in ArgumentLists : \E n \in 0 .. 8 : DOMAIN args = 1 .. n /\ Len(args) = n

VARIABLES
  pc,           \* "entry", "block", or "compared": a CMP waits for its BR
  tempRegPool,  \* free temporary registers
  rValRegMap,   \* the registers of the right values that wait for their use
  var2offset,   \* the stack slots
  stackPointer, \* the first word of the frame not given away
  true_cmp,     \* the last comparison is there for a branch
  cmp_op,       \* when that branch is not taken
  branchOn,     \* the comparison a CMP has left in the flags for its BR
  compared,     \* this block contains a comparison whose value is used
  live,         \* left values that are defined
  machine,      \* the symbolic machine
  effect,       \* what the last instruction stored, tested or passed on wrongly
  exhausted     \* a register was asked for when there was none

vars == <<pc, tempRegPool, rValRegMap, var2offset, stackPointer, true_cmp, cmp_op,
          branchOn, compared, live, machine, effect, exhausted>>

TempRegs == {0, 1, 2, 3, 14}
LR == 14
NoReg == 99                                \* what allocTempRegister calls "error"
TempOrder == <<0, 1, 14, 2, 3, NoReg>>     \* the order of the set of their names
NON == "NON"
Numbers == {Small, Big}

OnStack == LValues \ (DOMAIN variableRegs \cup ToSet(Params))

(* Mutant: the word for LR is forgotten.                                   *)
FrameWordsNoLR == 4 + Cardinality(OnStack) + 1

(* The size of the frame: four words for parameters, one for LR, and those *)
(* of the left values without a register and of the array.                 *)
FrameWords == 5 + Cardinality(OnStack) + 1

-----------------------------------------------------------------------------
(* The symbolic machine.                                                   *)
Junk == <<"junk">>
Val(v) == <<"value", v>>
Frame(n) == <<"frame", n>>
Offset(n) == <<"offset", n>>
ReturnAddress == <<"return address">>

Reg(r) == [kind |-> "reg", at |-> r]
Imm(c) == [kind |-> "imm", at |-> c]

Compute(rd, f, srcs) == [op |-> "compute", rd |-> rd, f |-> f, srcs |-> srcs]
Move(rd, src) == [op |-> "move", rd |-> rd, srcs |-> <<src>>]
Lea(rd, off) == [op |-> "lea", rd |-> rd, srcs |-> <<off>>]
Ldr(rd, off) == [op |-> "ldr", rd |-> rd, srcs |-> <<off>>]
Str(rs, off) == [op |-> "str", srcs |-> <<Reg(rs), off>>]
Compare(a, b) == [op |-> "cmp", srcs |-> <<a, b>>]
SetIf(rd, cond) == [op |-> "setif", rd |-> rd, cond |-> cond, srcs |-> <<>>]
Branch(cond) == [op |-> "branch", cond |-> cond, srcs |-> <<>>]
Push(regs) == [op |-> "push", regs |-> regs, srcs |-> <<>>]
Pop(regs) == [op |-> "pop", regs |-> regs, srcs |-> <<>>]
MoveSp(n) == [op |-> "sp", by |-> n, srcs |-> <<>>]
Use(srcs) == [op |-> "use", srcs |-> srcs]
Call(n, returns) == [op |-> "call", n |-> n, returns |-> returns, srcs |-> <<>>]

With(f, x, y) == [w \in DOMAIN f \cup {x} |-> IF w = x THEN y ELSE f[w]]
Read(f, x) == IF x \in DOMAIN f THEN f[x] ELSE Junk
Least(n, m) == IF n < m THEN n ELSE m
Content(m, src) == IF src.kind = "reg" THEN Read(m.reg, src.at) ELSE src.at

(* PUSH and POP have the register with the least number at the lowest      *)
(* address.                                                                *)
Below(regs, r) == Cardinality({q \in regs : q < r})
At(regs, n) == CHOOSE r \in regs : Below(regs, r) = n

Execute(m, ins) ==
  LET contents == [i \in DOMAIN ins.srcs |-> Content(m, ins.srcs[i])]
      address(off) == IF off[1] = "offset" THEN m.sp + off[2] ELSE 1000
      set(c) == [m EXCEPT !.reg = [r \in DOMAIN m.reg |-> IF r = ins.rd THEN c ELSE m.reg[r]]]
  IN  CASE ins.op = "move" -> set(contents[1])
        [] ins.op = "compute" -> set(<<ins.f>> \o contents)
        [] ins.op = "lea" -> set(Frame(address(contents[1])))
        [] ins.op = "ldr" -> set(Read(m.mem, address(contents[1])))
        [] ins.op = "str" -> [m EXCEPT !.mem = [a \in DOMAIN m.mem |->
                                 IF a = address(contents[2]) THEN contents[1] ELSE m.mem[a]]]
        [] ins.op = "cmp" -> [m EXCEPT !.flags = contents]
        [] ins.op = "setif" -> set(<<ins.cond>> \o m.flags)
        [] ins.op = "branch" -> [m EXCEPT !.used = <<ins.cond>> \o m.flags]
        [] ins.op = "use" -> [m EXCEPT !.used = contents]
        [] ins.op = "sp" -> [m EXCEPT !.sp = @ + ins.by]
        [] ins.op = "push" ->
             LET sp == m.sp - Cardinality(ins.regs)
             IN  [m EXCEPT !.sp = sp,
                    !.mem = [a \in DOMAIN m.mem |-> IF a \in sp .. m.sp - 1
                                THEN m.reg[At(ins.regs, a - sp)] ELSE m.mem[a]]]
        [] ins.op = "pop" ->
             [m EXCEPT !.sp = @ + Cardinality(ins.regs),
                !.reg = [r \in DOMAIN m.reg |-> IF r \in ins.regs
                            THEN m.mem[m.sp + Below(ins.regs, r)] ELSE m.reg[r]]]
        [] ins.op = "call" ->
             LET inRegisters == Least(ins.n, 4)
             IN  [m EXCEPT
                    !.used = [i \in 1 .. ins.n |-> IF i <= 4 THEN m.reg[i - 1]
                                                   ELSE Read(m.mem, m.sp + i - 5)],
                    !.reg = [r \in DOMAIN m.reg |->
                               IF r = 0 /\ ins.returns THEN <<"call">> ELSE Junk],
                    !.sp = @ + ins.n - inRegisters]

-----------------------------------------------------------------------------
(* The state of the generator while it works on one instruction.  The      *)
(* operators below thread it through the calls of the C++ functions.       *)
Gen == [pool |-> tempRegPool, rVal |-> rValRegMap, offset |-> var2offset,
        sp |-> stackPointer, m |-> machine, failed |-> FALSE]

(* An instruction is executed as soon as it is put out.                    *)
Emit(g, ins) == [g EXCEPT !.m = Execute(@, ins)]

(* allocTempRegister: the first of the pool.                               *)
FirstOf(pool) ==
  TempOrder[CHOOSE i \in DOMAIN TempOrder :
              TempOrder[i] \in pool /\ \A j \in 1 .. i - 1 : TempOrder[j] \notin pool]

AllocTempRegister(g) ==
  IF g.pool = {} THEN [g |-> [g EXCEPT !.failed = TRUE], reg |-> NoReg]
  ELSE [g |-> [g EXCEPT !.pool = @ \ {FirstOf(g.pool)}], reg |-> FirstOf(g.pool)]

(* releaseTempRegister                                                     *)
ReleaseTempRegister(g, r) == [g EXCEPT !.pool = @ \cup {r}]

(* loadOffset: the offset itself, or a register it is loaded to before.    *)
LoadOffset(g, n, reg) ==
  IF n \in FarOffsets THEN [g |-> Emit(g, Move(reg, Imm(Offset(n)))), src |-> Reg(reg)]
  ELSE [g |-> g, src |-> Imm(Offset(n))]

(* loadVal2Reg                                                             *)
LoadVal2Reg(g, v, des, compensate, reg) ==
  IF v \in Numbers \cup {Global} THEN Emit(g, Move(des, Imm(Val(v))))
  ELSE IF v \in DOMAIN g.offset
  THEN LET get(off) == Emit(off.g, IF v = Array THEN Lea(des, off.src) ELSE Ldr(des, off.src))
       IN  get(LoadOffset(g, g.offset[v] + compensate, reg))
  ELSE LET r == IF v \in DOMAIN g.rVal THEN g.rVal[v] ELSE variableRegs[v]
       IN  IF r = des THEN g ELSE Emit(g, Move(des, Reg(r)))

(* store2Memory: a new slot, or the one the value has already.             *)
Store2Memory(g, des, v) ==
  LET new == v \notin DOMAIN g.offset
      at == IF new THEN g.sp ELSE g.offset[v]
      t == AllocTempRegister(g)
      off == LoadOffset(t.g, at, t.reg)
      put == Emit(off.g, Str(des, off.src))
      stored == ReleaseTempRegister(ReleaseTempRegister(put, t.reg), des)
  IN  IF new THEN [stored EXCEPT !.sp = @ + 1, !.offset = With(@, v, at)] ELSE stored

(* A right value is read once, and its register is free then.              *)
Forget(g, v) == [g EXCEPT !.rVal = [w \in DOMAIN g.rVal \ {v} |-> g.rVal[w]]]

(* readRegister: where a value is read from; free: must be released.       *)
InTemp(g, v) ==
  LET t == AllocTempRegister(g)
  IN  [g |-> LoadVal2Reg(t.g, v, t.reg, 0, t.reg), src |-> Reg(t.reg), free |-> TRUE]

(* Mutant: reading a right value leaves it in rValRegMap.                  *)
ReadRegisterKept(g, v, regRequired) ==
  IF v \in DOMAIN g.rVal THEN [g |-> g, src |-> Reg(g.rVal[v]), free |-> TRUE]
  ELSE IF v \in DOMAIN variableRegs /\ v \notin ToSet(Params)
  THEN [g |-> g, src |-> Reg(variableRegs[v]), free |-> FALSE]
  ELSE IF v = Small /\ ~regRequired THEN [g |-> g, src |-> Imm(Val(v)), free |-> FALSE]
  ELSE InTemp(g, v)

ReadRegister(g, v, regRequired) ==
  IF v \in DOMAIN g.rVal
  THEN [g |-> Forget(g, v), src |-> Reg(g.rVal[v]), free |-> TRUE]
  ELSE IF v \in DOMAIN variableRegs /\ v \notin ToSet(Params)
  THEN [g |-> g, src |-> Reg(variableRegs[v]), free |-> FALSE]
  ELSE IF v = Small /\ ~regRequired THEN [g |-> g, src |-> Imm(Val(v)), free |-> FALSE]
  ELSE InTemp(g, v)

Free(g, a) == IF a.free THEN ReleaseTempRegister(g, a.src.at) ELSE g

(* A right value that is made keeps the register it is made in.            *)
Keep(g, v, r) == [g EXCEPT !.rVal = With(@, v, r)]

(* writeRegister: where a result goes; spill: must be stored and released. *)
WriteRegister(g, v) ==
  IF v \in DOMAIN variableRegs THEN [g |-> g, reg |-> variableRegs[v], spill |-> FALSE]
  ELSE LET t == AllocTempRegister(g) IN
    IF v \in LValues THEN [g |-> t.g, reg |-> t.reg, spill |-> TRUE]
    ELSE [g |-> Keep(t.g, v, t.reg), reg |-> t.reg, spill |-> FALSE]

(* The end of most gen functions: one instruction that makes the result,   *)
(* in the register found for it.                                           *)
Result == -1

Produce(g, v, instruction) ==
  LET w == WriteRegister(g, v)
      made == Emit(w.g, [instruction EXCEPT !.rd = w.reg])
  IN  IF w.spill THEN Store2Memory(made, w.reg, v) ELSE made

-----------------------------------------------------------------------------
(* One IR instruction.                                                     *)

(* What a value is for the machine: an array is its address.               *)
Meaning(v) == IF v = Array THEN Frame(var2offset[v]) ELSE Val(v)

NewRValue == CHOOSE r \in RValues : r \notin DOMAIN rValRegMap
Results(operands) ==
  {v \in LValues \ ToSet(Params) : v \in DOMAIN variableRegs \/ v \notin operands}
  \cup (IF RValues \subseteq DOMAIN rValRegMap THEN {} ELSE {NewRValue})
Values == live \cup DOMAIN rValRegMap
Operands == Values \cup Numbers \cup {Global} \cup ({Array} \cap DOMAIN var2offset)
Pairs == {p \in Operands \X Operands : p[1] = p[2] => p[1] \notin RValues}

(* After an instruction that makes v: the place of v contains v if it      *)
(* contains the term that defines v; what is no longer alive is junk, and  *)
(* so is what nothing may rely on, below the stack or in a free register.  *)
Settle(m, g, v, term, alive) ==
  LET inReg(r) == IF v \in DOMAIN g.rVal THEN r = g.rVal[v]
                  ELSE v \in DOMAIN variableRegs /\ r = variableRegs[v]
      inSlot(a) == v \in DOMAIN g.offset /\ a = g.offset[v]
      kept(c) == IF c = ReturnAddress \/ (c[1] = "value" /\ c[2] \in (alive \ {v})) THEN c ELSE Junk
      made(c) == IF c = term THEN Val(v) ELSE Junk
  IN  [m EXCEPT !.reg = [r \in DOMAIN @ |-> IF r \in g.pool THEN Junk
                                            ELSE IF inReg(r) THEN made(@[r]) ELSE kept(@[r])],
                !.mem = [a \in DOMAIN @ |-> IF a < 0 THEN Junk
                                            ELSE IF inSlot(a) THEN made(@[a]) ELSE kept(@[a])],
                !.flags = <<>>, !.used = <<>>]

Nothing == <<"nothing">>
None == [kind |-> "none"]

(* What an instruction did with its operands is remembered if it is wrong. *)
Observed(kind, got, wanted) ==
  IF got = wanted THEN None ELSE [kind |-> kind, got |-> got, wanted |-> wanted]

(* The instruction that has left the generator in state g is done: v is    *)
(* its result, or Nothing; what it stores, tests or passes on should have  *)
(* been wanted; alive are the left values still needed.                    *)
Done(g, v, term, kind, wanted, alive) ==
  LET left == (alive \cup {v}) \cap LValues
  IN  /\ tempRegPool' = g.pool
      /\ rValRegMap' = g.rVal
      /\ var2offset' = g.offset
      /\ stackPointer' = g.sp
      /\ exhausted' = (exhausted \/ g.failed)
      /\ live' = left
      /\ machine' = Settle(g.m, g, v, term, left \cup DOMAIN g.rVal)
      /\ effect' = Observed(kind, g.m.used, wanted)

Made(g, v, term) ==
  /\ Done(g, v, term, "none", <<>>, live)
  /\ UNCHANGED <<pc, true_cmp, cmp_op, branchOn, compared>>

(* genUnaryIns: -                                                          *)
Negate ==
  \E x \in Operands : \E v \in Results({x}) :
    LET a == ReadRegister(Gen, x, TRUE)
        neg == Compute(Result, "neg", <<a.src>>)
    IN  /\ pc = "block"
        /\ Made(Produce(Free(a.g, a), v, neg), v, <<"neg", Meaning(x)>>)

(* genUnaryIns: !                                                          *)
Not ==
  \E x \in Operands : \E v \in Results({x}) :
    LET a == ReadRegister(Gen, x, TRUE)
        setIf == SetIf(Result, "EQ")
        g == Emit(Free(a.g, a), Compare(a.src, Imm(Val(Zero))))
    IN  /\ pc = "block"
        /\ Made(Produce(g, v, setIf), v, <<"EQ", Meaning(x), Val(Zero)>>)

(* genBinaryIns: + and *, for the operators that take an immediate on the  *)
(* right and for those that do not.                                        *)
Arithmetic ==
  \E p \in Pairs, f \in {"add", "mul"} : \E v \in Results({p[1], p[2]}) :
    LET a == ReadRegister(Gen, p[1], TRUE)
        b == ReadRegister(a.g, p[2], f = "mul")
        ins == Compute(Result, f, <<a.src, b.src>>)
    IN  /\ pc = "block"
        /\ Made(Produce(Free(Free(b.g, b), a), v, ins), v, <<f, Meaning(p[1]), Meaning(p[2])>>)

(* Mutant: the operands are released after the result is stored.           *)
RemainderCodeLate(p, v) ==
  LET a == ReadRegister(Gen, p[1], TRUE)
      b == ReadRegister(a.g, p[2], TRUE)
      q == AllocTempRegister(b.g)
      divided == Emit(q.g, Compute(q.reg, "div", <<a.src, b.src>>))
      mls == Compute(Result, "mls", <<Reg(q.reg), b.src, a.src>>)
  IN  Free(Free(Produce(ReleaseTempRegister(divided, q.reg), v, mls), b), a)

RemainderCode(p, v) ==
  LET a == ReadRegister(Gen, p[1], TRUE)
      b == ReadRegister(a.g, p[2], TRUE)
      q == AllocTempRegister(b.g)
      divided == Emit(q.g, Compute(q.reg, "div", <<a.src, b.src>>))
      mls == Compute(Result, "mls", <<Reg(q.reg), b.src, a.src>>)
  IN  Produce(Free(Free(ReleaseTempRegister(divided, q.reg), b), a), v, mls)

(* genBinaryIns: %, a division, then multiply and subtract.                *)
Remainder ==
  \E p \in Pairs : \E v \in Results({p[1], p[2]}) :
    LET x == Meaning(p[1])
        y == Meaning(p[2])
    IN  /\ pc = "block"
        /\ Made(RemainderCode(p, v), v, <<"mls", <<"div", x, y>>, y, x>>)

Opposite == [EQ |-> "NE", NE |-> "EQ", LT |-> "GE", GE |-> "LT", GT |-> "LE", LE |-> "GT"]

(* genCmpIns: the flags, and for a comparison that is a value its result.  *)
CmpCode(p, v, cond, isTrueCmp) ==
  LET a == ReadRegister(Gen, p[1], TRUE)
      b == ReadRegister(a.g, p[2], FALSE)
      leave(w) == IF w.spill THEN ReleaseTempRegister(w.g, w.reg) ELSE w.g
      finish(g) == IF ~isTrueCmp THEN Produce(g, v, SetIf(Result, cond))
                   ELSE leave(WriteRegister(g, v))
  IN  finish(Free(Free(Emit(b.g, Compare(a.src, b.src)), b), a))

(* A comparison of type BINARY: its value is used.                         *)
CompareValue ==
  \E p \in Pairs, cond \in Comparisons : \E v \in Results({p[1], p[2]}) :
    /\ pc = "block"
    /\ cmp_op' = Opposite[cond]
    /\ compared' = TRUE
    /\ Done(CmpCode(p, v, cond, true_cmp), v, <<cond, Meaning(p[1]), Meaning(p[2])>>,
            "none", <<>>, live)
    /\ UNCHANGED <<pc, true_cmp, branchOn>>

(* A comparison of type CMP: it is followed by the branch on it.  The      *)
(* flags stand for the right value r if they compare its operands.         *)
Cmp ==
  \E p \in Pairs, cond \in Comparisons :
    LET r == NewRValue
        flags(g) == IF g.m.flags = <<Meaning(p[1]), Meaning(p[2])>> THEN <<Val(r)>> ELSE <<Junk>>
        done(g) ==
          /\ tempRegPool' = g.pool
          /\ rValRegMap' = g.rVal
          /\ exhausted' = (exhausted \/ g.failed)
          /\ machine' = [Settle(g.m, g, r, <<>>, live) EXCEPT !.flags = flags(g)]
    IN  /\ pc = "block"
        /\ ~(RValues \subseteq DOMAIN rValRegMap)
        /\ DOMAIN rValRegMap \subseteq {p[1], p[2]}
        /\ pc' = "compared"
        /\ true_cmp' = TRUE
        /\ cmp_op' = Opposite[cond]
        /\ branchOn' = cond
        /\ done(CmpCode(p, r, cond, TRUE))
        /\ effect' = None
        /\ UNCHANGED <<var2offset, stackPointer, compared, live>>

(* Mutant: the operator of an earlier comparison is not cleared.           *)
AfterBranchKept == cmp_op

(* genBIns, line 1438.                                                     *)
AfterBranch == NON

(* genBIns, and the reset of true_cmp: a branch on v.  The next block      *)
(* begins; a branch without a CMP is on a value that is no comparison.     *)
Br ==
  \E v \in Operands :
    LET a == ReadRegister(Gen, v, TRUE)
        tested == IF true_cmp THEN a.g ELSE Emit(a.g, Compare(a.src, Imm(Val(Zero))))
        g == Free(Emit(tested, Branch(IF cmp_op = NON THEN "EQ" ELSE cmp_op)), a)
    IN  /\ DOMAIN rValRegMap \subseteq {v}
        /\ IF pc = "compared" THEN v \in DOMAIN rValRegMap
           ELSE pc = "block" /\ ~compared
        /\ pc' = "block"
        /\ true_cmp' = FALSE
        /\ cmp_op' = AfterBranch
        /\ branchOn' = NON
        /\ compared' = FALSE
        /\ Done(g, Nothing, <<>>, "branch",
                IF pc = "compared" THEN <<Opposite[branchOn], Val(v)>>
                ELSE <<"EQ", Meaning(v), Val(Zero)>>, live)

(* genJmpIns: the next block begins.  The value of a comparison belongs to *)
(* a condition, which ends with CMP and BR, unless it has been moved out   *)
(* of a loop into the block before, which ends with a jump: cmp_op stays   *)
(* set, and with Hoisting BranchRight does not hold.                       *)
Jmp ==
  /\ pc = "block"
  /\ DOMAIN rValRegMap = {}
  /\ Hoisting \/ ~compared
  /\ compared' = FALSE
  /\ Done(Gen, Nothing, <<>>, "none", <<>>, live)
  /\ UNCHANGED <<pc, true_cmp, cmp_op, branchOn>>

(* genAlloc                                                                *)
Alloc ==
  /\ pc = "block"
  /\ Array \notin DOMAIN var2offset
  /\ Made([Gen EXCEPT !.sp = @ + 1, !.offset = With(@, Array, stackPointer)], Nothing, <<>>)

(* An index that is a number: as it is, or in a register; for an address   *)
(* in a register this register is taken first and may be given back.       *)
ReadIndex(g, i) == ReadRegister(g, i, i \notin Numbers)

ReadElementIndex(g, i) ==
  LET t == AllocTempRegister(g)
  IN  IF i = Small
      THEN [g |-> ReleaseTempRegister(t.g, t.reg), src |-> Imm(Val(i)), free |-> FALSE]
      ELSE ReadIndex(g, i)

Element(address, i) == <<"element", address, Meaning(i)>>

(* genLoadIns: the address is in a register, or that of an array.          *)
LoadElement ==
  \E p \in Pairs : \E v \in Results({p[1], p[2]}) :
    /\ pc = "block"
    /\ p[1] \notin Numbers \cup {Array} /\ p[2] # Array /\ p[2] # Global
    /\ LET base == ReadRegister(Gen, p[1], TRUE)
           off == ReadElementIndex(base.g, p[2])
           load == Compute(Result, "element", <<base.src, off.src>>)
       IN  Made(Produce(Free(Free(off.g, off), base), v, load), v, Element(Val(p[1]), p[2]))

LoadLocal ==
  \E i \in Values \cup Numbers : \E v \in Results({i}) :
    /\ pc = "block"
    /\ Array \in DOMAIN var2offset
    /\ LET pre == AllocTempRegister(Gen)
           at == Offset(var2offset[Array])
           off == ReadIndex(Emit(pre.g, Move(pre.reg, Imm(at))), i)
           aft == AllocTempRegister(ReleaseTempRegister(Free(off.g, off), pre.reg))
           g == Emit(aft.g, Compute(aft.reg, "element", <<Reg(pre.reg), off.src>>))
           load == Move(Result, Reg(aft.reg))
       IN  Made(Produce(ReleaseTempRegister(g, aft.reg), v, load), v, Element(at, i))

(* genStoreIns, in the same two cases.  A store ends its statement:        *)
(* stmtToIr leaves no right value that waits but its own operands.         *)
Stored(g, operands, wanted) ==
  /\ pc = "block"
  /\ DOMAIN rValRegMap \subseteq operands
  /\ Done(g, Nothing, <<>>, "use", wanted, live)
  /\ UNCHANGED <<pc, true_cmp, cmp_op, branchOn, compared>>

Distinct(a, b, c) == (a \in {b, c} => a \notin RValues) /\ (b = c => b \notin RValues)

StoreElement ==
  \E p \in Pairs : \E x \in Values \cup Numbers :
    /\ p[1] \notin Numbers \cup {Array} /\ p[2] # Array /\ p[2] # Global
    /\ Distinct(p[1], p[2], x)
    /\ LET base == ReadRegister(Gen, p[1], TRUE)
           rd == ReadRegister(base.g, x, TRUE)
           off == ReadElementIndex(rd.g, p[2])
           g == Emit(off.g, Use(<<base.src, off.src, rd.src>>))
       IN  Stored(Free(Free(Free(g, off), rd), base), {p[1], p[2], x},
                  <<Val(p[1]), Meaning(p[2]), Val(x)>>)

StoreLocal ==
  \E i, x \in Values \cup Numbers :
    /\ Array \in DOMAIN var2offset
    /\ Distinct(i, x, Nothing)
    /\ LET pre == AllocTempRegister(Gen)
           at == Offset(var2offset[Array])
           off == ReadIndex(Emit(pre.g, Move(pre.reg, Imm(at))), i)
           aft == AllocTempRegister(Free(ReleaseTempRegister(off.g, pre.reg), off))
           g == Emit(aft.g, Compute(aft.reg, "element", <<Reg(pre.reg), off.src>>))
           obj == ReadRegister(g, x, TRUE)
           stored == Emit(obj.g, Use(<<Reg(aft.reg), obj.src>>))
       IN  Stored(ReleaseTempRegister(Free(stored, obj), aft.reg), {i, x},
                  <<Element(at, i), Val(x)>>)

(* genPhiMov and genPhi: a copy, through a temporary if need be.           *)
PhiMov ==
  \E x \in Operands : \E v \in Results({x}) \cap LValues :
    LET a == ReadRegister(Gen, x, TRUE)
        mov == Move(Result, a.src)
    IN  /\ pc = "block"
        /\ Made(Produce(Free(a.g, a), v, mov), v, Meaning(x))

Phi ==
  \E x \in live : \E v \in Results({x}) \cap LValues :
    LET a == ReadRegister(Gen, x, TRUE)
        mov == Move(Result, a.src)
    IN  /\ pc = "block" /\ DOMAIN rValRegMap = {}
        /\ Made(Free(Produce(a.g, v, mov), a), v, Meaning(x))

-----------------------------------------------------------------------------
(* genInvokeIns2.                                                          *)

(* Arguments from the fifth on, the last first: R3 down, then pushed.      *)
PassOnStack(g, args, compensate) ==
  LET rest == Len(args) - 4
      load(h, k) == IF k > rest THEN h
                    ELSE LoadVal2Reg(h, args[Len(args) + 1 - k], 4 - k, compensate, 4 - k)
      loaded == load(load(load(load(g, 1), 2), 3), 4)
  IN  IF rest <= 0 THEN g ELSE Emit(loaded, Push({4 - k : k \in 1 .. rest}))

(* The first four, from R3 to R0, each from its register or loaded.        *)
PassInRegister(g, args, i, compensate) ==
  IF i > Len(args) THEN g
  ELSE LET x == args[i]
           free(h) == IF x \in DOMAIN g.rVal THEN ReleaseTempRegister(Forget(h, x), g.rVal[x])
                      ELSE h
       IN  free(LoadVal2Reg(g, x, i - 1, compensate, i - 1))

PassInRegisters(g, args, compensate) ==
  LET pass(h, i) == PassInRegister(h, args, i, compensate)
  IN  pass(pass(pass(pass(g, 4), 3), 2), 1)

(* Mutant: the result is fetched from where it was stored before the pop.  *)
FetchedAtUnmoved(context) == -1

FetchedAt(context) == -Cardinality(context) - 1

(* The registers saved, the arguments, the call, the registers restored,   *)
(* the result.  It waits below the stack pointer if R0 is restored.        *)
InvokeCode(args, v, saved) ==
  LET context == {rValRegMap[r] : r \in DOMAIN rValRegMap} \cup {variableRegs[x] : x \in saved}
      compensate == Cardinality(context)
      useR0 == \E r \in DOMAIN rValRegMap : rValRegMap[r] = 0
      returns == v # Nothing
      onStack == IF Len(args) > 4 THEN Len(args) - 4 ELSE 0
      pushed == IF context = {} THEN Gen ELSE Emit(Gen, Push(context))
      passed == PassInRegisters(PassOnStack(pushed, args, compensate), args, compensate + onStack)
      put(g) == IF returns /\ useR0 THEN Emit(g, Str(0, Imm(Offset(-1)))) ELSE g
      pop(g) == IF context = {} THEN g ELSE Emit(g, Pop(context))
      get == IF useR0 THEN Ldr(Result, Imm(Offset(FetchedAt(context)))) ELSE Move(Result, Reg(0))
      fetch(g) == IF returns THEN Produce(g, v, get) ELSE g
  IN  fetch(pop(put(Emit(passed, Call(Len(args), returns)))))

(* A call, with the values mergeAliveValuesToInstruction calls alive; the  *)
(* other values with a register do not outlive it.  Only a single argument *)
(* may be a right value.                                                   *)
Invoke ==
  \E args \in ArgumentLists, saved \in SUBSET (live \cap DOMAIN variableRegs) :
    \E v \in Results(ToSet(args)) \cup {Nothing} :
      LET alive == saved \cup (live \ DOMAIN variableRegs)
      IN  /\ pc = "block"
          /\ ToSet(args) \subseteq Operands
          /\ Len(args) > 1 => ToSet(args) \cap RValues = {}
          /\ Done(InvokeCode(args, v, saved), v, <<"call">>, "use",
                  [i \in DOMAIN args |-> Meaning(args[i])], alive)
          /\ UNCHANGED <<pc, true_cmp, cmp_op, branchOn, compared>>

(* genRetIns: the value to R0, the frame and the arguments on the stack    *)
(* are given up, the program continues at the return address.              *)
StackParams == IF Len(Params) > 4 THEN Len(Params) - 4 ELSE 0

Ret ==
  \E x \in Values \cup Numbers :
    LET loaded == LoadVal2Reg(Gen, x, 0, 0, 3)
        g == IF x \in DOMAIN rValRegMap
             THEN ReleaseTempRegister(Forget(loaded, x), rValRegMap[x])
             ELSE loaded
        left == Emit(g, MoveSp(FrameWords + StackParams))
        returned == Emit(left, Ldr(LR, Imm(Offset(-5 - StackParams))))
    IN  /\ pc = "block"
        /\ DOMAIN rValRegMap \subseteq {x}
        /\ ~compared
        /\ tempRegPool' = g.pool
        /\ rValRegMap' = g.rVal
        /\ effect' = Observed("use", Emit(returned, Use(<<Reg(0), Reg(LR)>>)).m.used,
                              <<Val(x), ReturnAddress>>)
        /\ UNCHANGED <<pc, var2offset, stackPointer, true_cmp, cmp_op, branchOn,
                       compared, live, machine, exhausted>>

-----------------------------------------------------------------------------
(* buildMachineModule: how a function begins.                              *)

(* Parameters from the fifth on are loaded, or stay where the caller put   *)
(* them; the first four are moved, or stored at the top of the frame.      *)
ParamSlot(i) == i - 5 + FrameWords

Arrival(i) ==
  LET v == Params[i]
  IN  IF v \notin DOMAIN variableRegs THEN Str(i - 1, Imm(Offset(i - 5)))
      ELSE IF i > 4 THEN Ldr(variableRegs[v], Imm(Offset(i - 5)))
      ELSE Move(variableRegs[v], Reg(i - 1))

(* The fifth parameter and those after it come first.                      *)
Before(i, j) == IF (i > 4) = (j > 4) THEN i < j ELSE i > 4

Arrive ==
  \E i \in DOMAIN Params :
    LET v == Params[i]
    IN  /\ pc = "entry"
        /\ v \notin live /\ \A j \in DOMAIN Params : Before(j, i) => Params[j] \in live
        /\ live' = live \cup {v}
        /\ machine' = IF v \notin DOMAIN variableRegs /\ i > 4 THEN machine
                      ELSE Execute(machine, Arrival(i))
        /\ var2offset' = IF v \in DOMAIN variableRegs THEN var2offset
                         ELSE With(var2offset, v, ParamSlot(i))
        /\ UNCHANGED <<pc, tempRegPool, rValRegMap, stackPointer, true_cmp, cmp_op, branchOn,
                       compared, effect, exhausted>>

(* The return address is saved, and the frame made.                        *)
EnterFrame ==
  LET saved == Emit(Gen, Str(LR, Imm(Offset(-5))))
  IN  /\ pc = "entry"
      /\ ToSet(Params) \subseteq live
      /\ pc' = "block"
      /\ machine' = Settle(Emit(saved, MoveSp(-FrameWords)).m, Gen, Nothing, <<>>, live)
      /\ UNCHANGED <<tempRegPool, rValRegMap, var2offset, stackPointer, true_cmp, cmp_op, branchOn,
                     compared, live, effect, exhausted>>

(* The caller has put the arguments into R0 to R3 and on the stack.        *)
Init ==
  /\ pc = "entry"
  /\ tempRegPool = TempRegs
  /\ rValRegMap = <<>> /\ var2offset = <<>>
  /\ stackPointer = 0
  /\ true_cmp = FALSE /\ cmp_op = NON /\ branchOn = NON /\ compared = FALSE
  /\ live = {}
  /\ machine = [sp |-> FrameWords, flags |-> <<>>, used |-> <<>>,
                reg |-> [r \in 0 .. 12 \cup {LR} |->
                           IF r = LR THEN ReturnAddress
                           ELSE IF r < 4 /\ r < Len(Params) THEN Val(Params[r + 1]) ELSE Junk],
                mem |-> [a \in -20 .. FrameWords + StackParams - 1 |->
                           IF a >= FrameWords THEN Val(Params[a - FrameWords + 5]) ELSE Junk]]
  /\ effect = None
  /\ exhausted = FALSE

Next ==
  \/ Arrive \/ EnterFrame \/ Negate \/ Not \/ Arithmetic \/ Remainder \/ CompareValue \/ Cmp \/ Br \/ Jmp
  \/ Alloc \/ LoadElement \/ LoadLocal \/ StoreElement \/ StoreLocal \/ PhiMov \/ Phi
  \/ Invoke \/ Ret

Spec == Init /\ [][Next]_vars

-----------------------------------------------------------------------------
(* Line 389: every temporary register is either in the pool or holds       *)
(* exactly one right value, so none is lost and none has two owners.       *)
Holding(rVal) == {rVal[r] : r \in DOMAIN rVal}

PoolPartition ==
  /\ tempRegPool \cap Holding(rValRegMap) = {}
  /\ \A r, q \in DOMAIN rValRegMap : rValRegMap[r] = rValRegMap[q] => r = q
  /\ tempRegPool \cup Holding(rValRegMap) = TempRegs

(* Whatever was generated in between, a right value is in the register     *)
(* rValRegMap names, and a left value still needed in its register or in   *)
(* its stack slot: no call, no temporary and no other slot overwrites it.  *)
(* Between CMP and BR the result of the comparison is in the flags only.   *)
ValuesKept ==
  pc # "entry" =>
    /\ pc = "block" => \A r \in DOMAIN rValRegMap : machine.reg[rValRegMap[r]] = Val(r)
    /\ \A v \in live :
         IF v \in DOMAIN variableRegs THEN machine.reg[variableRegs[v]] = Val(v)
         ELSE v \in DOMAIN var2offset /\ machine.mem[var2offset[v]] = Val(v)

(* What is stored, passed to a callee or returned is what the IR says, and *)
(* the function returns to where it was called from.                       *)
EffectRight == effect.kind # "use"

(* genBIns, "if the condition is 0, jump to the false block": a branch is  *)
(* decided by the comparison it belongs to, or by its value being 0.       *)
BranchRight == effect.kind # "branch"

(* allocTempRegister: "Temp registers are not enough" is never reported.   *)
NeverExhausted == ~exhausted
=============================================================================
