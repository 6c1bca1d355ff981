------------------------ MODULE CodeGenerationProofs ------------------------
(***************************************************************************)
(* For every program, any values and any number of them: the temporary     *)
(* registers are kept in order, every value is where the generator will    *)
(* look for it, and what is stored, passed on, tested and returned is what *)
(* the IR asks for.                                                        *)
(*                                                                         *)
(* The first part is about the pool.  While one instruction is translated  *)
(* a register has a third kind of owner besides the pool and the right     *)
(* values: the gen function itself, which holds the registers it has asked *)
(* for or read and will release.  Each lemma says what an operation on the *)
(* pool does to the set of the registers held.                             *)
(*                                                                         *)
(* The second part is about the machine.  The steps of a gen function keep *)
(* every value in its place (Works), what has been read stays where it is  *)
(* until it is used (Holds), the instruction that makes the result puts    *)
(* the term of the IR into the place of the result (Ready), and what is    *)
(* forgotten between two instructions is not needed any more (SettleRight).*)
(* One lemma for each action puts these together.                          *)
(*                                                                         *)
(* The third part says when there is a register for every request: as long *)
(* as no more than two right values wait for their use.                    *)
(***************************************************************************)
EXTENDS CodeGeneration, FiniteSetTheorems, SequenceTheorems, TLAPS

(* The state of the generator is the record it is in the model.            *)
IsGen(g) ==
  g = [pool |-> g.pool, rVal |-> g.rVal, offset |-> g.offset, sp |-> g.sp,
       m |-> g.m, failed |-> g.failed]

(* Every temporary register is free, holds one right value, or is held.    *)
Tidy(g, held) ==
  /\ g.pool \cap Holding(g.rVal) = {}
  /\ \A r, q \in DOMAIN g.rVal : g.rVal[r] = g.rVal[q] => r = q
  /\ held \cap (g.pool \cup Holding(g.rVal)) = {}
  /\ g.pool \cup Holding(g.rVal) \cup held = TempRegs

(* ... unless a register was asked for in vain; the right values that wait *)
(* are among D.                                                            *)
Sound(g, held, D) ==
  /\ IsGen(g)
  /\ g.rVal = [w \in DOMAIN g.rVal |-> g.rVal[w]]
  /\ DOMAIN g.rVal \subseteq D
  /\ g.failed \in BOOLEAN
  /\ g.failed \/ Tidy(g, held)

(* What readRegister has given out and must be released.                   *)
Borrowed(a) == IF a.free THEN {a.src.at} ELSE {}

(* A register that is not held by others, unless there was none.           *)
Apart(g, regs, held) == g.failed \/ regs \cap held = {}

-----------------------------------------------------------------------------
(* Code is put out without an effect on the registers.                     *)
LEMMA EmitSound ==
  ASSUME NEW g, NEW held, NEW D, NEW ins, Sound(g, held, D)
  PROVE  /\ Sound(Emit(g, ins), held, D)
         /\ Emit(g, ins).failed = g.failed
         /\ Emit(g, ins).rVal = g.rVal
<1> DEFINE n == Execute(g.m, ins)
           h == [g EXCEPT !.m = n]
<1>1. Emit(g, ins) = h
  BY DEF Emit
<1> HIDE DEF n
<1>2. IsGen(h) /\ h.pool = g.pool /\ h.rVal = g.rVal /\ h.failed = g.failed
  BY DEF Sound, IsGen
<1> HIDE DEF h
<1> QED
  BY <1>1, <1>2 DEF Sound, Tidy

(* So it is when a stack slot is given away.                               *)
Placed(g, sp, offset) == [g EXCEPT !.sp = sp, !.offset = offset]

LEMMA PlaceSound ==
  ASSUME NEW g, NEW held, NEW D, NEW sp, NEW offset, Sound(g, held, D)
  PROVE  /\ Sound(Placed(g, sp, offset), held, D)
         /\ Placed(g, sp, offset).failed = g.failed
<1> DEFINE h == [g EXCEPT !.sp = sp]
           i == Placed(g, sp, offset)
<1>1. i = [h EXCEPT !.offset = offset]
  BY Zenon DEF Placed
<1>2. IsGen(h) /\ h.pool = g.pool /\ h.rVal = g.rVal /\ h.failed = g.failed
  BY DEF Sound, IsGen
<1> HIDE DEF h, i
<1>3. IsGen(i) /\ i.pool = g.pool /\ i.rVal = g.rVal /\ i.failed = g.failed
  BY <1>1, <1>2 DEF IsGen
<1> QED
  BY <1>3 DEF Sound, Tidy, i

LEMMA FirstIsFree ==
  ASSUME NEW pool, pool \subseteq TempRegs, pool # {}
  PROVE  FirstOf(pool) \in pool
<1> DEFINE First(i) == TempOrder[i] \in pool /\ \A j \in 1 .. i - 1 : TempOrder[j] \notin pool
<1>1. DOMAIN TempOrder = 1 .. 6
  BY DEF TempOrder
<1>2. \E i \in 1 .. 6 : First(i)
  <2>1. CASE 0 \in pool
    BY <2>1 DEF TempOrder
  <2>2. CASE 0 \notin pool /\ 1 \in pool
    BY <2>2 DEF TempOrder
  <2>3. CASE 0 \notin pool /\ 1 \notin pool /\ 14 \in pool
    BY <2>3 DEF TempOrder
  <2>4. CASE 0 \notin pool /\ 1 \notin pool /\ 14 \notin pool /\ 2 \in pool
    BY <2>4 DEF TempOrder
  <2>5. CASE pool = {3}
    BY <2>5 DEF TempOrder
  <2> QED
    BY <2>1, <2>2, <2>3, <2>4, <2>5 DEF TempRegs
<1> QED
  BY <1>1, <1>2 DEF FirstOf

(* allocTempRegister gives a register nobody has.                          *)
LEMMA AllocSound ==
  ASSUME NEW g, NEW held, NEW D, Sound(g, held, D)
  PROVE  /\ Sound(AllocTempRegister(g).g, held \cup {AllocTempRegister(g).reg}, D)
         /\ Apart(AllocTempRegister(g).g, {AllocTempRegister(g).reg}, held)
         /\ g.failed => AllocTempRegister(g).g.failed
<1>1. CASE g.pool = {}
  BY <1>1 DEF AllocTempRegister, Sound, IsGen, Apart
<1>2. CASE g.pool # {} /\ g.failed
  BY <1>2 DEF AllocTempRegister, Sound, IsGen, Apart
<1>3. CASE g.pool # {} /\ ~g.failed
  <2>1. FirstOf(g.pool) \in g.pool
    BY <1>3, FirstIsFree DEF Sound, Tidy
  <2> DEFINE r == FirstOf(g.pool)
             h == [g EXCEPT !.pool = @ \ {r}]
  <2>2. AllocTempRegister(g) = [g |-> h, reg |-> r]
    BY <1>3 DEF AllocTempRegister
  <2>3. IsGen(h) /\ h.pool = g.pool \ {r} /\ h.rVal = g.rVal /\ ~h.failed
    BY <1>3 DEF Sound, IsGen
  <2>4. Tidy(h, held \cup {r})
    BY <1>3, <2>1, <2>3 DEF Sound, Tidy
  <2>5. r \notin held
    BY <1>3, <2>1 DEF Sound, Tidy
  <2>6. Sound(h, held \cup {r}, D) /\ Apart(h, {r}, held)
    BY <1>3, <2>3, <2>4, <2>5 DEF Sound, Apart
  <2>7. AllocTempRegister(g).g = h /\ AllocTempRegister(g).reg = r
    BY <2>2
  <2> HIDE DEF h, r
  <2> QED
    BY <1>3, <2>6, <2>7
<1> QED
  BY <1>1, <1>2, <1>3 DEF Sound

(* releaseTempRegister of a register that is held.                         *)
LEMMA ReleaseSound ==
  ASSUME NEW g, NEW held, NEW D, NEW r, Sound(g, held \cup {r}, D), Apart(g, {r}, held)
  PROVE  /\ Sound(ReleaseTempRegister(g, r), held, D)
         /\ ReleaseTempRegister(g, r).failed = g.failed
         /\ ReleaseTempRegister(g, r).rVal = g.rVal
  BY DEF ReleaseTempRegister, Sound, IsGen, Tidy, Apart

(* A right value that is read gives its register to the reader.            *)
LEMMA ForgetSound ==
  ASSUME NEW g, NEW held, NEW D, NEW v \in DOMAIN g.rVal, Sound(g, held, D)
  PROVE  /\ Sound(Forget(g, v), held \cup {g.rVal[v]}, D)
         /\ Apart(Forget(g, v), {g.rVal[v]}, held)
         /\ Forget(g, v).failed = g.failed
  BY DEF Forget, Sound, IsGen, Tidy, Apart, Holding

-----------------------------------------------------------------------------
(* loadOffset and loadVal2Reg only put out code.                           *)
LEMMA OffsetSound ==
  ASSUME NEW g, NEW held, NEW D, NEW n, NEW reg, Sound(g, held, D)
  PROVE  /\ Sound(LoadOffset(g, n, reg).g, held, D)
         /\ LoadOffset(g, n, reg).g.failed = g.failed
         /\ LoadOffset(g, n, reg).g.rVal = g.rVal
  BY EmitSound DEF LoadOffset

LEMMA LoadSound ==
  ASSUME NEW g, NEW held, NEW D, Sound(g, held, D),
         NEW v, NEW des, NEW compensate, NEW reg
  PROVE  /\ Sound(LoadVal2Reg(g, v, des, compensate, reg), held, D)
         /\ LoadVal2Reg(g, v, des, compensate, reg).failed = g.failed
         /\ LoadVal2Reg(g, v, des, compensate, reg).rVal = g.rVal
<1> DEFINE off == LoadOffset(g, g.offset[v] + compensate, reg)
           l == LoadVal2Reg(g, v, des, compensate, reg)
<1>1. \/ l = g
      \/ \E ins : l = Emit(g, ins)
      \/ \E ins : l = Emit(off.g, ins)
  BY SMTT(30) DEF LoadVal2Reg
<1>2. Sound(off.g, held, D) /\ off.g.failed = g.failed /\ off.g.rVal = g.rVal
  BY OffsetSound
<1> HIDE DEF off, l
<1>3. Sound(l, held, D) /\ l.failed = g.failed /\ l.rVal = g.rVal
  BY <1>1, <1>2, EmitSound
<1> QED
  BY <1>3 DEF l

(* readRegister: what it gives out is held until it is released.           *)
LEMMA ReadSound ==
  ASSUME NEW g, NEW held, NEW D, NEW v, NEW regRequired, Sound(g, held, D)
  PROVE  LET a == ReadRegister(g, v, regRequired)
         IN  /\ Sound(a.g, held \cup Borrowed(a), D)
             /\ Apart(a.g, Borrowed(a), held)
             /\ g.failed => a.g.failed
<1> DEFINE a == ReadRegister(g, v, regRequired)
           t == AllocTempRegister(g)
           l == LoadVal2Reg(t.g, v, t.reg, 0, t.reg)
<1>1. CASE v \in DOMAIN g.rVal
  <2>1. a = [g |-> Forget(g, v), src |-> Reg(g.rVal[v]), free |-> TRUE]
    BY <1>1 DEF ReadRegister
  <2>2. Borrowed(a) = {g.rVal[v]}
    BY <2>1 DEF Borrowed, Reg
  <2>3. /\ Sound(Forget(g, v), held \cup {g.rVal[v]}, D)
        /\ Apart(Forget(g, v), {g.rVal[v]}, held)
        /\ Forget(g, v).failed = g.failed
    BY <1>1, ForgetSound
  <2>4. a.g = Forget(g, v)
    BY <2>1
  <2> HIDE DEF a
  <2>5. /\ Sound(a.g, held \cup Borrowed(a), D)
        /\ Apart(a.g, Borrowed(a), held)
        /\ g.failed => a.g.failed
    BY <2>2, <2>3, <2>4
  <2> QED
    BY <2>5 DEF a
<1>2. CASE a.g = g /\ a.free = FALSE
  BY <1>2 DEF Borrowed, Apart
<1>3. CASE a = [g |-> l, src |-> Reg(t.reg), free |-> TRUE]
  <2>1. Borrowed(a) = {t.reg}
    BY <1>3 DEF Borrowed, Reg
  <2>2. /\ Sound(t.g, held \cup {t.reg}, D)
        /\ Apart(t.g, {t.reg}, held)
        /\ g.failed => t.g.failed
    BY AllocSound
  <2>3. Sound(l, held \cup {t.reg}, D) /\ l.failed = t.g.failed
    BY <2>2, LoadSound
  <2>4. a.g = l
    BY <1>3
  <2> HIDE DEF a, l, t
  <2>5. /\ Sound(a.g, held \cup Borrowed(a), D)
        /\ Apart(a.g, Borrowed(a), held)
        /\ g.failed => a.g.failed
    BY <2>1, <2>2, <2>3, <2>4 DEF Apart
  <2> QED
    BY <2>5 DEF a
<1> QED
  BY <1>1, <1>2, <1>3 DEF ReadRegister, InTemp

(* What has been read and not released yet is released.                    *)
LEMMA FreeSound ==
  ASSUME NEW g, NEW held, NEW D, NEW a,
         Sound(g, held \cup Borrowed(a), D), Apart(g, Borrowed(a), held)
  PROVE  Sound(Free(g, a), held, D) /\ Free(g, a).failed = g.failed
<1>1. CASE a.free
  BY <1>1, ReleaseSound DEF Free, Borrowed
<1>2. CASE ~a.free
  BY <1>2 DEF Free, Borrowed
<1> QED
  BY <1>1, <1>2

(* A right value that is made keeps a register that was held.              *)
LEMMA KeepSound ==
  ASSUME NEW g, NEW held, NEW D, NEW v, NEW r, v \notin DOMAIN g.rVal,
         Sound(g, held \cup {r}, D), Apart(g, {r}, held)
  PROVE  /\ Sound(Keep(g, v, r), held, D \cup {v})
         /\ Keep(g, v, r).failed = g.failed
<1> DEFINE h == Keep(g, v, r)
           f == [w \in DOMAIN g.rVal \cup {v} |-> IF w = v THEN r ELSE g.rVal[w]]
<1>2. h.rVal = f /\ IsGen(h) /\ h.pool = g.pool /\ h.failed = g.failed
  <2>1. h = [g EXCEPT !.rVal = f]
    BY DEF Keep, With
  <2> HIDE DEF f, h
  <2> QED
    BY <2>1 DEF Sound, IsGen
<1>3. Holding(f) = Holding(g.rVal) \cup {r}
  BY DEF Holding
<1>4. ASSUME ~g.failed  PROVE Tidy(h, held)
  <2>1. Tidy(g, held \cup {r}) /\ r \notin held
    BY <1>4 DEF Sound, Apart
  <2>2. r \notin Holding(g.rVal)
    BY <2>1 DEF Tidy
  <2>3. \A x, y \in DOMAIN f : f[x] = f[y] => x = y
    BY <2>1, <2>2 DEF Tidy, Holding
  <2> HIDE DEF f, h
  <2> QED
    BY <1>2, <1>3, <2>1, <2>3 DEF Tidy
<1>5. DOMAIN f \subseteq D \cup {v} /\ f = [x \in DOMAIN f |-> f[x]]
  BY DEF Sound
<1> HIDE DEF f, h
<1> QED
  BY <1>2, <1>4, <1>5 DEF Sound, h

(* writeRegister: a left value without a register is given one that is     *)
(* held, a right value gets one that is its own from here on.              *)
LEMMA WriteSound ==
  ASSUME NEW g, NEW held, NEW D, NEW v, Sound(g, held, D), v \in LValues \/ v \notin D
  PROVE  LET w == WriteRegister(g, v)
             given == IF w.spill THEN {w.reg} ELSE {}
         IN  /\ Sound(w.g, held \cup given, D \cup {v})
             /\ Apart(w.g, given, held)
             /\ g.failed => w.g.failed
<1> DEFINE w == WriteRegister(g, v)
           t == AllocTempRegister(g)
<1>1. /\ Sound(t.g, held \cup {t.reg}, D)
      /\ Apart(t.g, {t.reg}, held)
      /\ g.failed => t.g.failed
  BY AllocSound
<1>2. CASE v \in DOMAIN variableRegs
  BY <1>2 DEF WriteRegister, Sound, Apart
<1>3. CASE v \notin DOMAIN variableRegs /\ v \in LValues
  BY <1>1, <1>3 DEF WriteRegister, Sound
<1>4. CASE v \notin DOMAIN variableRegs /\ v \notin LValues
  <2>1. w = [g |-> Keep(t.g, v, t.reg), reg |-> t.reg, spill |-> FALSE]
    BY <1>4 DEF WriteRegister
  <2>2. v \notin DOMAIN t.g.rVal
    BY <1>1, <1>4 DEF Sound
  <2> HIDE DEF t
  <2>3. /\ Sound(Keep(t.g, v, t.reg), held, D \cup {v})
        /\ Keep(t.g, v, t.reg).failed = t.g.failed
    BY <1>1, <2>2, KeepSound
  <2>4. w.g = Keep(t.g, v, t.reg) /\ ~w.spill
    BY <2>1
  <2> HIDE DEF w
  <2>5. LET given == IF w.spill THEN {w.reg} ELSE {}
        IN  /\ Sound(w.g, held \cup given, D \cup {v})
            /\ Apart(w.g, given, held)
            /\ g.failed => w.g.failed
    BY <1>1, <2>3, <2>4 DEF Apart
  <2> QED
    BY <2>5 DEF w
<1> QED
  BY <1>2, <1>3, <1>4

(* store2Memory releases the register whose content it has stored.         *)
LEMMA StoreSound ==
  ASSUME NEW g, NEW held, NEW D, NEW des, NEW v,
         Sound(g, held \cup {des}, D), Apart(g, {des}, held)
  PROVE  /\ Sound(Store2Memory(g, des, v), held, D)
         /\ g.failed => Store2Memory(g, des, v).failed
<1> DEFINE new == v \notin DOMAIN g.offset
           at == IF new THEN g.sp ELSE g.offset[v]
           t == AllocTempRegister(g)
           off == LoadOffset(t.g, at, t.reg)
           put == Emit(off.g, Str(des, off.src))
           a == ReleaseTempRegister(put, t.reg)
           b == ReleaseTempRegister(a, des)
<1>1. Store2Memory(g, des, v)
        = IF new THEN [b EXCEPT !.sp = @ + 1, !.offset = With(@, v, at)] ELSE b
  BY Zenon DEF Store2Memory
<1>2. /\ Sound(t.g, (held \cup {des}) \cup {t.reg}, D)
      /\ Apart(t.g, {t.reg}, held \cup {des})
      /\ g.failed => t.g.failed
  BY AllocSound
<1> HIDE DEF new, at, t
<1>3. Sound(off.g, (held \cup {des}) \cup {t.reg}, D) /\ off.g.failed = t.g.failed
  BY <1>2, OffsetSound
<1> HIDE DEF off
<1>4. Sound(put, (held \cup {des}) \cup {t.reg}, D) /\ put.failed = t.g.failed
  BY <1>3, EmitSound
<1> HIDE DEF put
<1>5. Sound(a, held \cup {des}, D) /\ a.failed = t.g.failed
  <2>1. Apart(put, {t.reg}, held \cup {des})
    BY <1>2, <1>4 DEF Apart
  <2> HIDE DEF a
  <2> QED
    BY <1>4, <2>1, ReleaseSound DEF a
<1> HIDE DEF a
<1>6. Sound(b, held, D) /\ b.failed = t.g.failed
  BY <1>2, <1>5, ReleaseSound DEF Apart
<1> HIDE DEF b
<1> DEFINE sp == b.sp + 1
           offset == With(b.offset, v, at)
<1>7. Store2Memory(g, des, v) = Placed(b, sp, offset) \/ Store2Memory(g, des, v) = b
  BY <1>1, Zenon DEF Placed
<1> HIDE DEF sp, offset
<1>8. Sound(Placed(b, sp, offset), held, D) /\ Placed(b, sp, offset).failed = b.failed
  BY <1>6, PlaceSound
<1> QED
  BY <1>2, <1>6, <1>7, <1>8

-----------------------------------------------------------------------------
(* A gen function that makes v leaves v with its register, if it has one.  *)
LEMMA ProduceSound ==
  ASSUME NEW g, NEW held, NEW D, NEW v, NEW instruction,
         Sound(g, held, D), v \in LValues \/ v \notin D
  PROVE  /\ Sound(Produce(g, v, instruction), held, D \cup {v})
         /\ g.failed => Produce(g, v, instruction).failed
<1> DEFINE w == WriteRegister(g, v)
           given == IF w.spill THEN {w.reg} ELSE {}
           made == Emit(w.g, [instruction EXCEPT !.rd = w.reg])
           p == Produce(g, v, instruction)
<1>1. /\ Sound(w.g, held \cup given, D \cup {v})
      /\ Apart(w.g, given, held)
      /\ g.failed => w.g.failed
  BY WriteSound
<1>2. p = IF w.spill THEN Store2Memory(made, w.reg, v) ELSE made
  BY DEF Produce
<1> HIDE DEF w, p
<1>3. Sound(made, held \cup given, D \cup {v}) /\ made.failed = w.g.failed
  BY <1>1, EmitSound
<1> HIDE DEF made
<1>4. CASE w.spill
  <2>1. Sound(made, held \cup {w.reg}, D \cup {v}) /\ Apart(made, {w.reg}, held)
    BY <1>1, <1>3, <1>4 DEF Apart
  <2> QED
    BY <1>1, <1>2, <1>3, <1>4, <2>1, StoreSound DEF p
<1>5. CASE ~w.spill
  <2>1. held \cup given = held
    BY <1>5
  <2> QED
    BY <1>1, <1>2, <1>3, <1>5, <2>1 DEF p
<1> QED
  BY <1>4, <1>5

(* The index of an element, for which a register may be asked twice.       *)
LEMMA ReadElementSound ==
  ASSUME NEW g, NEW held, NEW D, NEW i, Sound(g, held, D)
  PROVE  LET a == ReadElementIndex(g, i)
         IN  /\ Sound(a.g, held \cup Borrowed(a), D)
             /\ Apart(a.g, Borrowed(a), held)
             /\ g.failed => a.g.failed
<1> DEFINE a == ReadElementIndex(g, i)
           t == AllocTempRegister(g)
<1>1. CASE i = Small
  <2>1. a = [g |-> ReleaseTempRegister(t.g, t.reg), src |-> Imm(Val(i)), free |-> FALSE]
    BY <1>1 DEF ReadElementIndex
  <2>2. /\ Sound(t.g, held \cup {t.reg}, D)
        /\ Apart(t.g, {t.reg}, held)
        /\ g.failed => t.g.failed
    BY AllocSound
  <2> HIDE DEF t
  <2>3. Sound(a.g, held, D) /\ a.g.failed = t.g.failed /\ Borrowed(a) = {}
    BY <2>1, <2>2, ReleaseSound DEF Borrowed
  <2> HIDE DEF a
  <2>4. /\ Sound(a.g, held \cup Borrowed(a), D)
        /\ Apart(a.g, Borrowed(a), held)
        /\ g.failed => a.g.failed
    <3>1. held \cup Borrowed(a) = held
      BY <2>3
    <3> QED
      BY <2>2, <2>3, <3>1 DEF Apart
  <2> QED
    BY <2>4 DEF a
<1>2. CASE i # Small
  BY <1>2, ReadSound DEF ReadElementIndex, ReadIndex
<1> QED
  BY <1>1, <1>2

-----------------------------------------------------------------------------
(* The operands of an instruction, read and released.                      *)
LEMMA OneOperand ==
  ASSUME NEW g, NEW held, NEW D, NEW x, NEW regRequired, Sound(g, held, D)
  PROVE  LET a == ReadRegister(g, x, regRequired) IN Sound(Free(a.g, a), held, D)
<1> DEFINE a == ReadRegister(g, x, regRequired)
<1>1. Sound(a.g, held \cup Borrowed(a), D) /\ Apart(a.g, Borrowed(a), held)
  BY ReadSound
<1> HIDE DEF a
<1>2. Sound(Free(a.g, a), held, D)
  BY <1>1, FreeSound
<1> QED
  BY <1>2 DEF a

LEMMA TwoReads ==
  ASSUME NEW g, NEW D, NEW x, NEW y, NEW p, NEW q, Sound(g, {}, D)
  PROVE  LET a == ReadRegister(g, x, p)
             b == ReadRegister(a.g, y, q)
         IN  /\ Sound(b.g, Borrowed(a) \cup Borrowed(b), D)
             /\ Apart(b.g, Borrowed(b), Borrowed(a))
<1> DEFINE a == ReadRegister(g, x, p)
           b == ReadRegister(a.g, y, q)
<1>1. Sound(a.g, Borrowed(a), D)
  <2>1. Sound(a.g, {} \cup Borrowed(a), D)
    BY ReadSound
  <2>2. {} \cup Borrowed(a) = Borrowed(a)
    OBVIOUS
  <2> QED
    BY <2>1, <2>2
<1> HIDE DEF a
<1>2. /\ Sound(b.g, Borrowed(a) \cup Borrowed(b), D)
      /\ Apart(b.g, Borrowed(b), Borrowed(a))
  BY <1>1, ReadSound
<1> QED
  BY <1>2 DEF a

LEMMA FreeTwo ==
  ASSUME NEW g, NEW D, NEW a, NEW b,
         Sound(g, Borrowed(a) \cup Borrowed(b), D), Apart(g, Borrowed(b), Borrowed(a))
  PROVE  Sound(Free(Free(g, b), a), {}, D) /\ Free(Free(g, b), a).failed = g.failed
<1>1. Sound(Free(g, b), Borrowed(a), D) /\ Free(g, b).failed = g.failed
  BY FreeSound
<1>2. Sound(Free(g, b), {} \cup Borrowed(a), D)
  <2>1. {} \cup Borrowed(a) = Borrowed(a)
    OBVIOUS
  <2> QED
    BY <1>1, <2>1
<1>3. Apart(Free(g, b), Borrowed(a), {})
  BY DEF Apart
<1> QED
  BY <1>1, <1>2, <1>3, FreeSound

(* A register asked for and released by the same gen function.             *)
LEMMA ReleaseLast ==
  ASSUME NEW g, NEW D, NEW r, Sound(g, {r}, D)
  PROVE  Sound(ReleaseTempRegister(g, r), {}, D)
<1>1. {} \cup {r} = {r}
  OBVIOUS
<1>2. Apart(g, {r}, {})
  BY DEF Apart
<1> QED
  BY <1>1, <1>2, ReleaseSound

LEMMA AllocFirst ==
  ASSUME NEW g, NEW D, Sound(g, {}, D)
  PROVE  Sound(AllocTempRegister(g).g, {AllocTempRegister(g).reg}, D)
<1> DEFINE t == AllocTempRegister(g)
<1>1. Sound(t.g, {} \cup {t.reg}, D)
  BY AllocSound
<1>2. {} \cup {t.reg} = {t.reg}
  OBVIOUS
<1> QED
  BY <1>1, <1>2

-----------------------------------------------------------------------------
(* The gen functions that need more than operands and a result.            *)
LEMMA RemainderSound ==
  ASSUME NEW D, NEW p, NEW v, Sound(Gen, {}, D), v \in LValues \/ v \notin D
  PROVE  Sound(RemainderCode(p, v), {}, D \cup {v})
<1> DEFINE a == ReadRegister(Gen, p[1], TRUE)
           b == ReadRegister(a.g, p[2], TRUE)
           q == AllocTempRegister(b.g)
           divided == Emit(q.g, Compute(q.reg, "div", <<a.src, b.src>>))
           mls == Compute(Result, "mls", <<Reg(q.reg), b.src, a.src>>)
           g == ReleaseTempRegister(divided, q.reg)
           h == Free(Free(g, b), a)
           both == Borrowed(a) \cup Borrowed(b)
<1>1. RemainderCode(p, v) = Produce(h, v, mls)
  BY DEF RemainderCode
<1>2. Sound(b.g, both, D) /\ Apart(b.g, Borrowed(b), Borrowed(a))
  BY TwoReads
<1> HIDE DEF a, b
<1>3. /\ Sound(q.g, both \cup {q.reg}, D)
      /\ Apart(q.g, {q.reg}, both)
      /\ b.g.failed => q.g.failed
  BY <1>2, AllocSound
<1> HIDE DEF q
<1>4. Sound(divided, both \cup {q.reg}, D) /\ divided.failed = q.g.failed
  BY <1>3, EmitSound
<1> HIDE DEF divided
<1>5. Sound(g, both, D) /\ g.failed = divided.failed
  <2>1. Apart(divided, {q.reg}, both)
    BY <1>3, <1>4 DEF Apart
  <2> HIDE DEF g
  <2> QED
    BY <1>4, <2>1, ReleaseSound DEF g
<1> HIDE DEF g
<1>6. Sound(h, {}, D)
  <2>1. Apart(g, Borrowed(b), Borrowed(a))
    BY <1>2, <1>3, <1>4, <1>5 DEF Apart
  <2> QED
    BY <1>5, <2>1, FreeTwo
<1> HIDE DEF h, mls
<1> QED
  BY <1>1, <1>6, ProduceSound

LEMMA CmpSound ==
  ASSUME NEW D, NEW p, NEW v, NEW cond, NEW isTrueCmp,
         Sound(Gen, {}, D), v \in LValues \/ v \notin D
  PROVE  Sound(CmpCode(p, v, cond, isTrueCmp), {}, D \cup {v})
<1> DEFINE a == ReadRegister(Gen, p[1], TRUE)
           b == ReadRegister(a.g, p[2], FALSE)
           c == Emit(b.g, Compare(a.src, b.src))
           g == Free(Free(c, b), a)
           w == WriteRegister(g, v)
           setIf == SetIf(Result, cond)
<1>1. CmpCode(p, v, cond, isTrueCmp)
        = IF ~isTrueCmp THEN Produce(g, v, setIf)
          ELSE IF w.spill THEN ReleaseTempRegister(w.g, w.reg) ELSE w.g
  BY DEF CmpCode
<1>2. Sound(b.g, Borrowed(a) \cup Borrowed(b), D) /\ Apart(b.g, Borrowed(b), Borrowed(a))
  BY TwoReads
<1> HIDE DEF a, b
<1>3. Sound(c, Borrowed(a) \cup Borrowed(b), D) /\ c.failed = b.g.failed
  BY <1>2, EmitSound
<1> HIDE DEF c
<1>4. Sound(g, {}, D)
  <2>1. Apart(c, Borrowed(b), Borrowed(a))
    BY <1>2, <1>3 DEF Apart
  <2> QED
    BY <1>3, <2>1, FreeTwo
<1> HIDE DEF g, setIf
<1>5. Sound(Produce(g, v, setIf), {}, D \cup {v})
  BY <1>4, ProduceSound
<1>6. Sound(w.g, {} \cup (IF w.spill THEN {w.reg} ELSE {}), D \cup {v})
  BY <1>4, WriteSound
<1> HIDE DEF w
<1>7. CASE w.spill
  <2>1. {} \cup (IF w.spill THEN {w.reg} ELSE {}) = {w.reg}
    BY <1>7
  <2>2. Sound(ReleaseTempRegister(w.g, w.reg), {}, D \cup {v})
    BY <1>6, <2>1, ReleaseLast
  <2> QED
    BY <1>1, <1>5, <1>7, <2>2
<1>8. CASE ~w.spill
  <2>1. {} \cup (IF w.spill THEN {w.reg} ELSE {}) = {}
    BY <1>8
  <2> QED
    BY <1>1, <1>5, <1>6, <1>8, <2>1
<1> QED
  BY <1>7, <1>8

(* A call: right values that are arguments give up their registers.        *)
LEMMA PassSound ==
  ASSUME NEW g, NEW D, NEW args, NEW i, NEW compensate, Sound(g, {}, D)
  PROVE  Sound(PassInRegister(g, args, i, compensate), {}, D)
<1> DEFINE x == args[i]
           from == LoadVal2Reg(g, x, i - 1, compensate, i - 1)
           left == Forget(from, x)
<1>1. PassInRegister(g, args, i, compensate)
        = IF i > Len(args) THEN g
          ELSE IF x \in DOMAIN g.rVal THEN ReleaseTempRegister(left, g.rVal[x]) ELSE from
  BY DEF PassInRegister
<1>2. Sound(from, {}, D) /\ from.rVal = g.rVal
  BY LoadSound
<1> HIDE DEF x, from
<1>3. CASE x \in DOMAIN g.rVal
  <2>1. Sound(left, {} \cup {from.rVal[x]}, D)
    BY <1>2, <1>3, ForgetSound
  <2>2. {} \cup {from.rVal[x]} = {g.rVal[x]}
    BY <1>2
  <2> HIDE DEF left
  <2>3. Sound(ReleaseTempRegister(left, g.rVal[x]), {}, D)
    BY <2>1, <2>2, ReleaseLast
  <2> QED
    BY <1>1, <1>2, <2>3
<1>4. CASE x \notin DOMAIN g.rVal
  BY <1>1, <1>2, <1>4
<1> QED
  BY <1>3, <1>4

LEMMA PassAllSound ==
  ASSUME NEW g, NEW D, NEW args, NEW compensate, Sound(g, {}, D)
  PROVE  Sound(PassInRegisters(g, args, compensate), {}, D)
<1> DEFINE pass(h, i) == PassInRegister(h, args, i, compensate)
           h4 == pass(g, 4)
           h3 == pass(h4, 3)
           h2 == pass(h3, 2)
           h1 == pass(h2, 1)
<1>1. PassInRegisters(g, args, compensate) = h1
  BY DEF PassInRegisters
<1>2. Sound(h4, {}, D)
  BY PassSound
<1> HIDE DEF h4
<1>3. Sound(h3, {}, D)
  BY <1>2, PassSound
<1> HIDE DEF h3
<1>4. Sound(h2, {}, D)
  BY <1>3, PassSound
<1> HIDE DEF h2
<1>5. Sound(h1, {}, D)
  BY <1>4, PassSound
<1> HIDE DEF h1
<1> QED
  BY <1>1, <1>5

(* Loading the arguments that are passed on the stack.                     *)
LEMMA PassOnStackSound ==
  ASSUME NEW g, NEW D, NEW args, NEW compensate, Sound(g, {}, D)
  PROVE  Sound(PassOnStack(g, args, compensate), {}, D)
<1> DEFINE rest == Len(args) - 4
           load(h, k) == IF k > rest THEN h
                         ELSE LoadVal2Reg(h, args[Len(args) + 1 - k], 4 - k, compensate, 4 - k)
           h1 == load(g, 1)
           h2 == load(h1, 2)
           h3 == load(h2, 3)
           h4 == load(h3, 4)
           regs == {4 - k : k \in 1 .. rest}
<1>1. PassOnStack(g, args, compensate) = IF rest <= 0 THEN g ELSE Emit(h4, Push(regs))
  BY DEF PassOnStack
<1> HIDE DEF rest, regs
<1>2. Sound(h1, {}, D)
  BY LoadSound
<1> HIDE DEF h1
<1>3. Sound(h2, {}, D)
  BY <1>2, LoadSound
<1> HIDE DEF h2
<1>4. Sound(h3, {}, D)
  BY <1>3, LoadSound
<1> HIDE DEF h3
<1>5. Sound(h4, {}, D)
  BY <1>4, LoadSound
<1> HIDE DEF h4
<1> QED
  BY <1>1, <1>5, EmitSound

LEMMA InvokeSound ==
  ASSUME NEW D, NEW args, NEW v, NEW saved, Sound(Gen, {}, D),
         v \in LValues \/ v \notin D \/ v = Nothing
  PROVE  \E E : Sound(InvokeCode(args, v, saved), {}, E)
<1> DEFINE context == {rValRegMap[r] : r \in DOMAIN rValRegMap} \cup {variableRegs[x] : x \in saved}
           compensate == Cardinality(context)
           useR0 == \E r \in DOMAIN rValRegMap : rValRegMap[r] = 0
           returns == v # Nothing
           onStack == IF Len(args) > 4 THEN Len(args) - 4 ELSE 0
           pushed == IF context = {} THEN Gen ELSE Emit(Gen, Push(context))
           stacked == PassOnStack(pushed, args, compensate)
           passed == PassInRegisters(stacked, args, compensate + onStack)
           called == Emit(passed, Call(Len(args), returns))
           put == IF returns /\ useR0 THEN Emit(called, Str(0, Imm(Offset(-1)))) ELSE called
           popped == IF context = {} THEN put ELSE Emit(put, Pop(context))
           get == IF useR0 THEN Ldr(Result, Imm(Offset(FetchedAt(context)))) ELSE Move(Result, Reg(0))
<1>1. InvokeCode(args, v, saved) = IF returns THEN Produce(popped, v, get) ELSE popped
  BY DEF InvokeCode
<1> HIDE DEF context, compensate, useR0, onStack, get
<1>2. Sound(pushed, {}, D)
  BY EmitSound
<1> HIDE DEF pushed
<1>3. Sound(stacked, {}, D)
  BY <1>2, PassOnStackSound
<1> HIDE DEF stacked
<1>4. Sound(passed, {}, D)
  BY <1>3, PassAllSound
<1> HIDE DEF passed
<1>5. Sound(called, {}, D)
  BY <1>4, EmitSound
<1> HIDE DEF called
<1>6. Sound(put, {}, D)
  BY <1>5, EmitSound
<1> HIDE DEF put
<1>7. Sound(popped, {}, D)
  BY <1>6, EmitSound
<1> HIDE DEF popped
<1>8. ASSUME returns  PROVE Sound(Produce(popped, v, get), {}, D \cup {v})
  BY <1>7, <1>8, ProduceSound
<1> QED
  BY <1>1, <1>7, <1>8

-----------------------------------------------------------------------------
(* Once a register has been asked for in vain nothing is promised any more.*)
IInv ==
  /\ exhausted \in BOOLEAN
  /\ exhausted \/ /\ rValRegMap = [r \in DOMAIN rValRegMap |-> rValRegMap[r]]
                  /\ PoolPartition

LEMMA GenSound ==
  ASSUME IInv, ~exhausted
  PROVE  Sound(Gen, {}, DOMAIN rValRegMap)
<1>1. IsGen(Gen) /\ Gen.pool = tempRegPool /\ Gen.rVal = rValRegMap /\ Gen.failed = FALSE
  BY DEF Gen, IsGen
<1>2. Tidy(Gen, {})
  BY <1>1 DEF IInv, PoolPartition, Tidy
<1> QED
  BY <1>1, <1>2 DEF IInv, Sound

(* What the generator leaves behind is the next state of the pool.         *)
LEMMA PoolKept ==
  ASSUME IInv, NEW g, NEW D, ~exhausted => Sound(g, {}, D),
         tempRegPool' = g.pool, rValRegMap' = g.rVal, exhausted' = (exhausted \/ g.failed)
  PROVE  IInv'
<1>1. CASE exhausted
  BY <1>1 DEF IInv
<1>2. CASE ~exhausted /\ g.failed
  BY <1>2 DEF IInv
<1>3. CASE ~exhausted /\ ~g.failed
  <2>1. Tidy(g, {}) /\ g.rVal = [w \in DOMAIN g.rVal |-> g.rVal[w]]
    BY <1>3 DEF Sound
  <2>2. PoolPartition'
    BY <2>1 DEF PoolPartition, Tidy
  <2>3. (rValRegMap = [r \in DOMAIN rValRegMap |-> rValRegMap[r]])'
    BY <2>1
  <2>4. exhausted' \in BOOLEAN
    BY <1>3 DEF Sound
  <2> QED
    BY <2>2, <2>3, <2>4 DEF IInv
<1> QED
  BY <1>1, <1>2, <1>3 DEF IInv

LEMMA DoneKeeps ==
  ASSUME IInv, NEW g, NEW D, ~exhausted => Sound(g, {}, D),
         NEW v, NEW term, NEW kind, NEW wanted, NEW alive, Done(g, v, term, kind, wanted, alive)
  PROVE  IInv'
<1>1. /\ tempRegPool' = g.pool
      /\ rValRegMap' = g.rVal
      /\ exhausted' = (exhausted \/ g.failed)
  BY DEF Done
<1> QED
  BY <1>1, PoolKept

(* A result is a left value, or a right value that does not exist yet.     *)
LEMMA ResultsFresh ==
  ASSUME NEW operands, NEW v \in Results(operands)
  PROVE  v \in LValues \/ v \notin DOMAIN rValRegMap
<1>1. CASE v \in LValues
  BY <1>1
<1>2. CASE ~(RValues \subseteq DOMAIN rValRegMap) /\ v = NewRValue
  <2>1. \E r \in RValues : r \notin DOMAIN rValRegMap
    BY <1>2
  <2> QED
    BY <1>2, <2>1 DEF NewRValue
<1> QED
  BY <1>1, <1>2 DEF Results

LEMMA MadeKeeps ==
  ASSUME IInv, NEW g, NEW v, NEW instruction, NEW term,
         \E operands : v \in Results(operands),
         ~exhausted => Sound(g, {}, DOMAIN rValRegMap),
         Made(Produce(g, v, instruction), v, term)
  PROVE  IInv'
<1> DEFINE p == Produce(g, v, instruction)
<1>1. ~exhausted => Sound(p, {}, DOMAIN rValRegMap \cup {v})
  BY ResultsFresh, ProduceSound
<1>2. Done(p, v, term, "none", <<>>, live)
  BY DEF Made
<1> HIDE DEF p
<1> QED
  BY <1>1, <1>2, DoneKeeps

LEMMA InitIInv == Init => IInv
<1> SUFFICES ASSUME Init PROVE IInv
  OBVIOUS
<1>1. tempRegPool = TempRegs /\ rValRegMap = <<>> /\ exhausted = FALSE
  BY DEF Init
<1>2. DOMAIN rValRegMap = {} /\ Holding(rValRegMap) = {}
  BY <1>1 DEF Holding
<1>3. rValRegMap = [r \in DOMAIN rValRegMap |-> rValRegMap[r]]
  BY <1>1
<1> QED
  BY <1>1, <1>2, <1>3 DEF IInv, PoolPartition

-----------------------------------------------------------------------------
(* One step of each kind.                                                  *)
LEMMA OperationsKeep ==
  ASSUME IInv, Negate \/ Not \/ PhiMov \/ Phi \/ Arithmetic \/ Remainder
  PROVE  IInv'
<1> DEFINE D == DOMAIN rValRegMap
<1>1. CASE Negate
  <2>1. PICK x, v :
          /\ \E operands : v \in Results(operands)
          /\ LET a == ReadRegister(Gen, x, TRUE)
                 neg == Compute(Result, "neg", <<a.src>>)
             IN  Made(Produce(Free(a.g, a), v, neg), v, <<"neg", Meaning(x)>>)
    BY <1>1 DEF Negate
  <2> DEFINE a == ReadRegister(Gen, x, TRUE)
             g == Free(a.g, a)
             neg == Compute(Result, "neg", <<a.src>>)
  <2>2. ~exhausted => Sound(g, {}, D)
    BY GenSound, OneOperand
  <2>3. Made(Produce(g, v, neg), v, <<"neg", Meaning(x)>>)
    BY <2>1
  <2> HIDE DEF a, g, neg
  <2> QED
    BY <2>1, <2>2, <2>3, MadeKeeps
<1>2. CASE Not
  <2>1. PICK x, v :
          /\ \E operands : v \in Results(operands)
          /\ LET a == ReadRegister(Gen, x, TRUE)
                 setIf == SetIf(Result, "EQ")
                 g == Emit(Free(a.g, a), Compare(a.src, Imm(Val(Zero))))
             IN  Made(Produce(g, v, setIf), v, <<"EQ", Meaning(x), Val(Zero)>>)
    BY <1>2 DEF Not
  <2> DEFINE a == ReadRegister(Gen, x, TRUE)
             setIf == SetIf(Result, "EQ")
             g == Emit(Free(a.g, a), Compare(a.src, Imm(Val(Zero))))
  <2>2. ~exhausted => Sound(Free(a.g, a), {}, D)
    BY GenSound, OneOperand
  <2>3. Made(Produce(g, v, setIf), v, <<"EQ", Meaning(x), Val(Zero)>>)
    BY <2>1
  <2> HIDE DEF a
  <2>4. ~exhausted => Sound(g, {}, D)
    BY <2>2, EmitSound
  <2> HIDE DEF g, setIf
  <2> QED
    BY <2>1, <2>3, <2>4, MadeKeeps
<1>3. CASE PhiMov
  <2>1. PICK x, v :
          /\ \E operands : v \in Results(operands)
          /\ LET a == ReadRegister(Gen, x, TRUE)
                 mov == Move(Result, a.src)
             IN  Made(Produce(Free(a.g, a), v, mov), v, Meaning(x))
    BY <1>3 DEF PhiMov
  <2> DEFINE a == ReadRegister(Gen, x, TRUE)
             g == Free(a.g, a)
             mov == Move(Result, a.src)
  <2>2. ~exhausted => Sound(g, {}, D)
    BY GenSound, OneOperand
  <2>3. Made(Produce(g, v, mov), v, Meaning(x))
    BY <2>1
  <2> HIDE DEF a, g, mov
  <2> QED
    BY <2>1, <2>2, <2>3, MadeKeeps
<1>4. CASE Phi
  <2>1. PICK x, v :
          /\ \E operands : v \in Results(operands)
          /\ LET a == ReadRegister(Gen, x, TRUE)
                 mov == Move(Result, a.src)
             IN  Made(Free(Produce(a.g, v, mov), a), v, Meaning(x))
    BY <1>4 DEF Phi
  <2> DEFINE a == ReadRegister(Gen, x, TRUE)
             mov == Move(Result, a.src)
             p == Produce(a.g, v, mov)
             g == Free(p, a)
  <2>2. ~exhausted => Sound(a.g, {} \cup Borrowed(a), D)
    BY GenSound, ReadSound
  <2>3. Done(g, v, Meaning(x), "none", <<>>, live)
    BY <2>1 DEF Made
  <2> HIDE DEF a, mov
  <2>4. ~exhausted => Sound(p, {} \cup Borrowed(a), D \cup {v})
    BY <2>1, <2>2, ResultsFresh, ProduceSound
  <2>5. Apart(p, Borrowed(a), {})
    BY DEF Apart
  <2> HIDE DEF p
  <2>6. ~exhausted => Sound(g, {}, D \cup {v})
    BY <2>4, <2>5, FreeSound
  <2> HIDE DEF g
  <2> QED
    BY <2>3, <2>6, DoneKeeps
<1>5. CASE Arithmetic
  <2>1. PICK p, f, v :
          /\ \E operands : v \in Results(operands)
          /\ LET a == ReadRegister(Gen, p[1], TRUE)
                 b == ReadRegister(a.g, p[2], f = "mul")
                 ins == Compute(Result, f, <<a.src, b.src>>)
             IN  Made(Produce(Free(Free(b.g, b), a), v, ins), v, <<f, Meaning(p[1]), Meaning(p[2])>>)
    BY <1>5 DEF Arithmetic
  <2> DEFINE a == ReadRegister(Gen, p[1], TRUE)
             b == ReadRegister(a.g, p[2], f = "mul")
             ins == Compute(Result, f, <<a.src, b.src>>)
             g == Free(Free(b.g, b), a)
             term == <<f, Meaning(p[1]), Meaning(p[2])>>
  <2>2. ~exhausted => /\ Sound(b.g, Borrowed(a) \cup Borrowed(b), D)
                      /\ Apart(b.g, Borrowed(b), Borrowed(a))
    BY GenSound, TwoReads
  <2>3. Made(Produce(g, v, ins), v, term)
    BY <2>1
  <2> HIDE DEF a, b
  <2>4. ~exhausted => Sound(g, {}, D)
    BY <2>2, FreeTwo
  <2> HIDE DEF g, ins, term
  <2> QED
    BY <2>1, <2>3, <2>4, MadeKeeps
<1>6. CASE Remainder
  <2>1. PICK p, v :
          /\ \E operands : v \in Results(operands)
          /\ \E term : Made(RemainderCode(p, v), v, term)
    BY <1>6 DEF Remainder
  <2>2. ~exhausted => Sound(RemainderCode(p, v), {}, D \cup {v})
    BY <2>1, GenSound, ResultsFresh, RemainderSound
  <2>3. \E term : Done(RemainderCode(p, v), v, term, "none", <<>>, live)
    BY <2>1 DEF Made
  <2> QED
    BY <2>2, <2>3, DoneKeeps
<1> QED
  BY <1>1, <1>2, <1>3, <1>4, <1>5, <1>6

(* A comparison, a branch, a jump, a local array, a call and a return.     *)
LEMMA ControlKeeps ==
  ASSUME IInv, CompareValue \/ Cmp \/ Br \/ Jmp \/ Alloc \/ Invoke \/ Ret \/ Arrive \/ EnterFrame
  PROVE  IInv'
<1> DEFINE D == DOMAIN rValRegMap
<1>1. CASE CompareValue
  <2>1. PICK p, cond, v :
          /\ \E operands : v \in Results(operands)
          /\ \E term : Done(CmpCode(p, v, cond, true_cmp), v, term, "none", <<>>, live)
    BY <1>1 DEF CompareValue
  <2>2. ~exhausted => Sound(CmpCode(p, v, cond, true_cmp), {}, D \cup {v})
    BY <2>1, GenSound, ResultsFresh, CmpSound
  <2> QED
    BY <2>1, <2>2, DoneKeeps
<1>2. CASE Cmp
  <2>1. PICK p \in Pairs, cond \in Comparisons :
          /\ ~(RValues \subseteq DOMAIN rValRegMap)
          /\ tempRegPool' = CmpCode(p, NewRValue, cond, TRUE).pool
          /\ rValRegMap' = CmpCode(p, NewRValue, cond, TRUE).rVal
          /\ exhausted' = (exhausted \/ CmpCode(p, NewRValue, cond, TRUE).failed)
    BY <1>2 DEF Cmp
  <2>2. NewRValue \in Results({})
    BY <2>1 DEF Results
  <2>3. ~exhausted => Sound(CmpCode(p, NewRValue, cond, TRUE), {}, D \cup {NewRValue})
    BY <2>2, GenSound, ResultsFresh, CmpSound
  <2> QED
    BY <2>1, <2>3, PoolKept
<1>3. CASE Br
  <2>1. PICK v \in Operands :
          LET a == ReadRegister(Gen, v, TRUE)
              tested == IF true_cmp THEN a.g ELSE Emit(a.g, Compare(a.src, Imm(Val(Zero))))
              g == Free(Emit(tested, Branch(IF cmp_op = NON THEN "EQ" ELSE cmp_op)), a)
          IN  \E wanted : Done(g, Nothing, <<>>, "branch", wanted, live)
    BY <1>3 DEF Br
  <2> DEFINE a == ReadRegister(Gen, v, TRUE)
             tested == IF true_cmp THEN a.g ELSE Emit(a.g, Compare(a.src, Imm(Val(Zero))))
             branched == Emit(tested, Branch(IF cmp_op = NON THEN "EQ" ELSE cmp_op))
             g == Free(branched, a)
  <2>2. ~exhausted => Sound(a.g, {} \cup Borrowed(a), D)
    BY GenSound, ReadSound
  <2>3. PICK wanted : Done(g, Nothing, <<>>, "branch", wanted, live)
    BY <2>1
  <2> HIDE DEF a
  <2>4. ~exhausted => Sound(tested, {} \cup Borrowed(a), D)
    BY <2>2, EmitSound
  <2> HIDE DEF tested
  <2>5. ~exhausted => Sound(branched, {} \cup Borrowed(a), D)
    BY <2>4, EmitSound
  <2>6. Apart(branched, Borrowed(a), {})
    BY DEF Apart
  <2> HIDE DEF branched
  <2>7. ~exhausted => Sound(g, {}, D)
    BY <2>5, <2>6, FreeSound
  <2> HIDE DEF g
  <2> QED
    BY <2>3, <2>7, DoneKeeps
<1>4. CASE Jmp
  <2>1. Done(Gen, Nothing, <<>>, "none", <<>>, live)
    BY <1>4 DEF Jmp
  <2> QED
    BY <2>1, GenSound, DoneKeeps
<1>5. CASE Alloc
  <2> DEFINE offset == With(Gen.offset, Array, stackPointer)
             g == Placed(Gen, Gen.sp + 1, offset)
  <2>1. Done([Gen EXCEPT !.sp = @ + 1, !.offset = With(@, Array, stackPointer)],
             Nothing, <<>>, "none", <<>>, live)
    BY <1>5, Zenon DEF Alloc, Made
  <2>2. [Gen EXCEPT !.sp = @ + 1, !.offset = With(@, Array, stackPointer)] = g
    BY Zenon DEF Placed, Gen
  <2>3. Done(g, Nothing, <<>>, "none", <<>>, live)
    BY <2>1, <2>2, Zenon
  <2> HIDE DEF offset
  <2>4. ~exhausted => Sound(g, {}, D)
    BY GenSound, PlaceSound
  <2> HIDE DEF g
  <2> QED
    BY <2>3, <2>4, DoneKeeps
<1>6. CASE Invoke
  <2>1. PICK args, saved, v :
          /\ v \in Results(ToSet(args)) \cup {Nothing}
          /\ \E wanted, alive : Done(InvokeCode(args, v, saved), v, <<"call">>, "use", wanted, alive)
    BY <1>6 DEF Invoke
  <2>2. v \in LValues \/ v \notin D \/ v = Nothing
    BY <2>1, ResultsFresh
  <2>3. ~exhausted => \E E : Sound(InvokeCode(args, v, saved), {}, E)
    BY <2>2, GenSound, InvokeSound
  <2> QED
    BY <2>1, <2>3, DoneKeeps
<1>7. CASE Ret
  <2>1. PICK x \in Values \cup Numbers :
          LET loaded == LoadVal2Reg(Gen, x, 0, 0, 3)
              g == IF x \in DOMAIN rValRegMap
                   THEN ReleaseTempRegister(Forget(loaded, x), rValRegMap[x])
                   ELSE loaded
          IN  tempRegPool' = g.pool /\ rValRegMap' = g.rVal /\ exhausted' = exhausted
    BY <1>7 DEF Ret
  <2> DEFINE loaded == LoadVal2Reg(Gen, x, 0, 0, 3)
             left == Forget(loaded, x)
             released == ReleaseTempRegister(left, rValRegMap[x])
             g == IF x \in DOMAIN rValRegMap THEN released ELSE loaded
  <2>2. tempRegPool' = g.pool /\ rValRegMap' = g.rVal /\ exhausted' = exhausted
    BY <2>1
  <2>3. ~exhausted => Sound(loaded, {}, D) /\ loaded.failed = FALSE /\ loaded.rVal = rValRegMap
    <3>1. Gen.failed = FALSE /\ Gen.rVal = rValRegMap
      BY DEF Gen
    <3> QED
      BY <3>1, GenSound, LoadSound
  <2> HIDE DEF loaded
  <2>4. ASSUME ~exhausted, x \in DOMAIN rValRegMap
        PROVE  Sound(released, {}, D) /\ released.failed = FALSE
    <3>1. /\ Sound(left, {} \cup {rValRegMap[x]}, D)
          /\ left.failed = FALSE
      BY <2>3, <2>4, ForgetSound
    <3>2. Apart(left, {rValRegMap[x]}, {})
      BY DEF Apart
    <3> HIDE DEF left
    <3> QED
      BY <3>1, <3>2, ReleaseSound
  <2>5. ~exhausted => Sound(g, {}, D) /\ g.failed = FALSE
    BY <2>3, <2>4
  <2> HIDE DEF g
  <2>6. CASE exhausted
    BY <2>2, <2>6 DEF IInv
  <2>7. CASE ~exhausted
    <3>1. exhausted' = (exhausted \/ g.failed)
      BY <2>2, <2>5, <2>7 DEF IInv
    <3> QED
      BY <2>2, <2>5, <2>7, <3>1, PoolKept
  <2> QED
    BY <2>6, <2>7
<1>8. CASE Arrive \/ EnterFrame
  <2>1. UNCHANGED <<tempRegPool, rValRegMap, exhausted>>
    BY <1>8 DEF Arrive, EnterFrame
  <2> QED
    BY <2>1 DEF IInv, PoolPartition
<1> QED
  BY <1>1, <1>2, <1>3, <1>4, <1>5, <1>6, <1>7, <1>8

(* Loads and stores of elements, of pointers and of the local array.       *)
LEMMA LoadElementKeeps == ASSUME IInv, LoadElement PROVE IInv'
<1>1. PICK p, v :
        /\ \E operands : v \in Results(operands)
        /\ LET base == ReadRegister(Gen, p[1], TRUE)
               off == ReadElementIndex(base.g, p[2])
               load == Compute(Result, "element", <<base.src, off.src>>)
           IN  \E term : Made(Produce(Free(Free(off.g, off), base), v, load), v, term)
  BY DEF LoadElement
<1> DEFINE base == ReadRegister(Gen, p[1], TRUE)
           off == ReadElementIndex(base.g, p[2])
           load == Compute(Result, "element", <<base.src, off.src>>)
           g == Free(Free(off.g, off), base)
<1>2. \E term : Made(Produce(g, v, load), v, term)
  BY <1>1
<1>3. ~exhausted => Sound(base.g, Borrowed(base), DOMAIN rValRegMap)
  <2>1. {} \cup Borrowed(base) = Borrowed(base)
    OBVIOUS
  <2>2. ~exhausted => Sound(base.g, {} \cup Borrowed(base), DOMAIN rValRegMap)
    BY GenSound, ReadSound
  <2> QED
    BY <2>1, <2>2
<1> HIDE DEF base
<1>4. ~exhausted => /\ Sound(off.g, Borrowed(base) \cup Borrowed(off), DOMAIN rValRegMap)
                    /\ Apart(off.g, Borrowed(off), Borrowed(base))
  BY <1>3, ReadElementSound
<1> HIDE DEF off
<1>5. ~exhausted => Sound(g, {}, DOMAIN rValRegMap)
  BY <1>4, FreeTwo
<1> HIDE DEF g, load
<1> QED
  BY <1>1, <1>2, <1>5, MadeKeeps

(* The base of the array is in a register while its index is read.         *)
LEMMA IndexedSound ==
  ASSUME NEW D, NEW i, NEW at, Sound(Gen, {}, D)
  PROVE  LET pre == AllocTempRegister(Gen)
             off == ReadIndex(Emit(pre.g, Move(pre.reg, at)), i)
         IN  /\ Sound(off.g, {pre.reg} \cup Borrowed(off), D)
             /\ Apart(off.g, Borrowed(off), {pre.reg})
<1> DEFINE pre == AllocTempRegister(Gen)
           moved == Emit(pre.g, Move(pre.reg, at))
           off == ReadIndex(moved, i)
<1>1. Sound(pre.g, {pre.reg}, D)
  BY AllocFirst
<1> HIDE DEF pre
<1>2. Sound(moved, {pre.reg}, D)
  BY <1>1, EmitSound
<1> HIDE DEF moved
<1>3. Sound(off.g, {pre.reg} \cup Borrowed(off), D) /\ Apart(off.g, Borrowed(off), {pre.reg})
  BY <1>2, ReadSound DEF ReadIndex
<1> HIDE DEF off
<1> QED
  BY <1>3 DEF off, moved, pre

LEMMA LoadLocalKeeps == ASSUME IInv, LoadLocal PROVE IInv'
<1>1. PICK i, v :
        /\ \E operands : v \in Results(operands)
        /\ LET pre == AllocTempRegister(Gen)
               at == Offset(var2offset[Array])
               off == ReadIndex(Emit(pre.g, Move(pre.reg, Imm(at))), i)
               aft == AllocTempRegister(ReleaseTempRegister(Free(off.g, off), pre.reg))
               g == Emit(aft.g, Compute(aft.reg, "element", <<Reg(pre.reg), off.src>>))
               load == Move(Result, Reg(aft.reg))
           IN  \E term : Made(Produce(ReleaseTempRegister(g, aft.reg), v, load), v, term)
  BY DEF LoadLocal
<1> DEFINE D == DOMAIN rValRegMap
           pre == AllocTempRegister(Gen)
           at == Imm(Offset(var2offset[Array]))
           off == ReadIndex(Emit(pre.g, Move(pre.reg, at)), i)
           freed == Free(off.g, off)
           f == ReleaseTempRegister(freed, pre.reg)
           aft == AllocTempRegister(f)
           g == Emit(aft.g, Compute(aft.reg, "element", <<Reg(pre.reg), off.src>>))
           load == Move(Result, Reg(aft.reg))
           h == ReleaseTempRegister(g, aft.reg)
<1>2. \E term : Made(Produce(h, v, load), v, term)
  BY <1>1, SMTT(30)
<1>3. ~exhausted => /\ Sound(off.g, {pre.reg} \cup Borrowed(off), D)
                    /\ Apart(off.g, Borrowed(off), {pre.reg})
  BY GenSound, IndexedSound
<1> HIDE DEF pre, off
<1>4. ~exhausted => Sound(freed, {pre.reg}, D)
  BY <1>3, FreeSound
<1> HIDE DEF freed
<1>5. ~exhausted => Sound(f, {}, D)
  BY <1>4, ReleaseLast
<1> HIDE DEF f
<1>6. ~exhausted => Sound(aft.g, {aft.reg}, D)
  BY <1>5, AllocFirst
<1> HIDE DEF aft
<1>7. ~exhausted => Sound(g, {aft.reg}, D)
  BY <1>6, EmitSound
<1> HIDE DEF g
<1>8. ~exhausted => Sound(h, {}, D)
  BY <1>7, ReleaseLast
<1> HIDE DEF h, load
<1> QED
  BY <1>1, <1>2, <1>8, MadeKeeps

LEMMA StoreElementKeeps == ASSUME IInv, StoreElement PROVE IInv'
<1>1. PICK p, x :
        LET base == ReadRegister(Gen, p[1], TRUE)
            rd == ReadRegister(base.g, x, TRUE)
            off == ReadElementIndex(rd.g, p[2])
            g == Emit(off.g, Use(<<base.src, off.src, rd.src>>))
        IN  \E wanted :
              Done(Free(Free(Free(g, off), rd), base), Nothing, <<>>, "use", wanted, live)
  BY DEF StoreElement, Stored
<1> DEFINE D == DOMAIN rValRegMap
           base == ReadRegister(Gen, p[1], TRUE)
           rd == ReadRegister(base.g, x, TRUE)
           off == ReadElementIndex(rd.g, p[2])
           g == Emit(off.g, Use(<<base.src, off.src, rd.src>>))
           both == Borrowed(base) \cup Borrowed(rd)
           h == Free(g, off)
           j == Free(Free(h, rd), base)
<1>2. \E wanted : Done(j, Nothing, <<>>, "use", wanted, live)
  BY <1>1
<1>3. ~exhausted => Sound(rd.g, both, D) /\ Apart(rd.g, Borrowed(rd), Borrowed(base))
  BY GenSound, TwoReads
<1> HIDE DEF base, rd
<1>4. ~exhausted => /\ Sound(off.g, both \cup Borrowed(off), D)
                    /\ Apart(off.g, Borrowed(off), both)
                    /\ rd.g.failed => off.g.failed
  BY <1>3, ReadElementSound
<1> HIDE DEF off
<1>5. ~exhausted => Sound(g, both \cup Borrowed(off), D) /\ g.failed = off.g.failed
  BY <1>4, EmitSound
<1> HIDE DEF g
<1>6. ~exhausted => Sound(h, both, D) /\ h.failed = g.failed
  <2>1. ~exhausted => Apart(g, Borrowed(off), both)
    BY <1>4, <1>5 DEF Apart
  <2> HIDE DEF both
  <2> QED
    BY <1>5, <2>1, FreeSound
<1> HIDE DEF h
<1>7. ~exhausted => Sound(j, {}, D)
  <2>1. ~exhausted => Apart(h, Borrowed(rd), Borrowed(base))
    BY <1>3, <1>4, <1>5, <1>6 DEF Apart
  <2> QED
    BY <1>6, <2>1, FreeTwo
<1> HIDE DEF j
<1> QED
  BY <1>2, <1>7, DoneKeeps

(* Here the register asked for first is released first.                    *)
LEMMA StoreLocalKeeps == ASSUME IInv, StoreLocal PROVE IInv'
<1>1. PICK i, x :
        LET pre == AllocTempRegister(Gen)
            at == Offset(var2offset[Array])
            off == ReadIndex(Emit(pre.g, Move(pre.reg, Imm(at))), i)
            aft == AllocTempRegister(Free(ReleaseTempRegister(off.g, pre.reg), off))
            g == Emit(aft.g, Compute(aft.reg, "element", <<Reg(pre.reg), off.src>>))
            obj == ReadRegister(g, x, TRUE)
            stored == Emit(obj.g, Use(<<Reg(aft.reg), obj.src>>))
        IN  \E wanted : Done(ReleaseTempRegister(Free(stored, obj), aft.reg),
                             Nothing, <<>>, "use", wanted, live)
  BY Zenon DEF StoreLocal, Stored
<1> DEFINE D == DOMAIN rValRegMap
           pre == AllocTempRegister(Gen)
           at == Imm(Offset(var2offset[Array]))
           off == ReadIndex(Emit(pre.g, Move(pre.reg, at)), i)
           f == ReleaseTempRegister(off.g, pre.reg)
           freed == Free(f, off)
           aft == AllocTempRegister(freed)
           g == Emit(aft.g, Compute(aft.reg, "element", <<Reg(pre.reg), off.src>>))
           obj == ReadRegister(g, x, TRUE)
           stored == Emit(obj.g, Use(<<Reg(aft.reg), obj.src>>))
           h == Free(stored, obj)
           j == ReleaseTempRegister(h, aft.reg)
<1>2. \E wanted : Done(j, Nothing, <<>>, "use", wanted, live)
  BY <1>1, Zenon
<1>3. ~exhausted => /\ Sound(off.g, {pre.reg} \cup Borrowed(off), D)
                    /\ Apart(off.g, Borrowed(off), {pre.reg})
  BY GenSound, IndexedSound
<1> HIDE DEF pre, off
<1>4. ~exhausted => Sound(f, {} \cup Borrowed(off), D)
  <2>1. {pre.reg} \cup Borrowed(off) = Borrowed(off) \cup {pre.reg}
    OBVIOUS
  <2>2. {} \cup Borrowed(off) = Borrowed(off)
    OBVIOUS
  <2>3. ~exhausted => Apart(off.g, {pre.reg}, Borrowed(off))
    BY <1>3 DEF Apart
  <2>4. ~exhausted => Sound(off.g, Borrowed(off) \cup {pre.reg}, D)
    BY <1>3, <2>1
  <2> HIDE DEF f
  <2>5. ~exhausted => Sound(f, Borrowed(off), D)
    BY <2>3, <2>4, ReleaseSound DEF f
  <2> QED
    BY <2>2, <2>5
<1> HIDE DEF f
<1>5. ~exhausted => Sound(freed, {}, D)
  <2>1. Apart(f, Borrowed(off), {})
    BY DEF Apart
  <2> QED
    BY <1>4, <2>1, FreeSound
<1> HIDE DEF freed
<1>6. ~exhausted => Sound(aft.g, {aft.reg}, D)
  BY <1>5, AllocFirst
<1> HIDE DEF aft
<1>7. ~exhausted => Sound(g, {aft.reg}, D)
  BY <1>6, EmitSound
<1> HIDE DEF g
<1>8. ~exhausted => /\ Sound(obj.g, {aft.reg} \cup Borrowed(obj), D)
                    /\ Apart(obj.g, Borrowed(obj), {aft.reg})
  BY <1>7, ReadSound
<1> HIDE DEF obj
<1>9. ~exhausted => Sound(stored, {aft.reg} \cup Borrowed(obj), D) /\ stored.failed = obj.g.failed
  BY <1>8, EmitSound
<1> HIDE DEF stored
<1>10. ~exhausted => Sound(h, {aft.reg}, D)
  <2>1. ~exhausted => Apart(stored, Borrowed(obj), {aft.reg})
    BY <1>8, <1>9 DEF Apart
  <2> QED
    BY <1>9, <2>1, FreeSound
<1> HIDE DEF h
<1>11. ~exhausted => Sound(j, {}, D)
  BY <1>10, ReleaseLast
<1> HIDE DEF j
<1> QED
  BY <1>2, <1>11, DoneKeeps

LEMMA NextIInv == IInv /\ [Next]_vars => IInv'
<1> SUFFICES ASSUME IInv, [Next]_vars PROVE IInv'
  OBVIOUS
<1>1. CASE UNCHANGED vars
  BY <1>1 DEF vars, IInv, PoolPartition
<1>2. CASE Next
  BY <1>2, OperationsKeep, ControlKeeps, LoadElementKeeps, LoadLocalKeeps,
     StoreElementKeeps, StoreLocalKeeps DEF Next
<1> QED
  BY <1>1, <1>2

(* Line 389 for every function, with any values, registers and offsets: as *)
(* long as allocTempRegister has had a register to give, each temporary    *)
(* register is either in the pool or holds exactly one right value.        *)
THEOREM TemporariesPartitioned == Spec => [](NeverExhausted => PoolPartition)
<1>1. IInv => (NeverExhausted => PoolPartition)
  BY DEF IInv, NeverExhausted
<1> QED
  BY <1>1, InitIInv, NextIInv, PTL DEF Spec

-----------------------------------------------------------------------------
(* What the machine contains.                                              *)
Regs == 0 .. 12 \cup {LR}
Words == -20 .. FrameWords + StackParams - 1
(* Where the return address is kept.                                       *)
ReturnSlot == FrameWords - 5

(* The machine is the record it is in the model.                           *)
IsMachine(m) ==
  /\ m = [sp |-> m.sp, flags |-> m.flags, used |-> m.used, reg |-> m.reg, mem |-> m.mem]
  /\ m.reg = [r \in Regs |-> m.reg[r]]
  /\ m.mem = [a \in Words |-> m.mem[a]]
  /\ m.sp \in Int

(* The slots given away: parameters have theirs above the return address,  *)
(* the others one each, from the bottom of the frame.                      *)
Own(offset) == DOMAIN offset \ ToSet(Params)

Slots(offset, sp) ==
  /\ offset = [v \in DOMAIN offset |-> offset[v]]
  /\ DOMAIN offset \subseteq (LValues \ DOMAIN variableRegs) \cup {Array}
  /\ \A i \in DOMAIN Params : Params[i] \in DOMAIN offset => offset[Params[i]] = ParamSlot(i)
  /\ \A v \in Own(offset) : offset[v] \in 0 .. sp - 1
  /\ \A v, w \in Own(offset) : offset[v] = offset[w] => v = w
  /\ sp = Cardinality(Own(offset))

(* A left value is in its place.                                           *)
InPlace(m, offset, v) ==
  IF v \in DOMAIN variableRegs THEN m.reg[variableRegs[v]] = Val(v)
  ELSE v \in DOMAIN offset /\ m.mem[offset[v]] = Val(v)

(* So are all of L, and every slot is in order.                            *)
LeftKept(g, L) ==
  /\ IsMachine(g.m)
  /\ g.m.mem[ReturnSlot] = ReturnAddress
  /\ L \subseteq LValues
  /\ \A v \in L : InPlace(g.m, g.offset, v)
  /\ Slots(g.offset, g.sp)

(* A right value is in its register.                                       *)
RightKept(g) == \A r \in DOMAIN g.rVal : g.m.reg[g.rVal[r]] = Val(r)

(* The parameters that have arrived are in their places, and the others    *)
(* where the caller has put them.                                          *)
Entry ==
  /\ rValRegMap = <<>> /\ tempRegPool = TempRegs /\ stackPointer = 0
  /\ IsMachine(machine) /\ machine.sp = FrameWords /\ machine.reg[LR] = ReturnAddress
  /\ \A i \in DOMAIN Params : IF i <= 4 THEN machine.reg[i - 1] = Val(Params[i])
                              ELSE machine.mem[ParamSlot(i)] = Val(Params[i])
  /\ live \subseteq ToSet(Params)
  /\ \A v \in live : InPlace(machine, var2offset, v)
  /\ DOMAIN var2offset \subseteq live
  /\ Slots(var2offset, 0)

(* The places of all values, in each phase of a function.                  *)
ValInv ==
  /\ pc \in {"entry", "block", "compared"}
  /\ DOMAIN rValRegMap \subseteq RValues
  /\ IF pc = "entry" THEN Entry ELSE LeftKept(Gen, live) /\ machine.sp = 0
  /\ pc = "block" => RightKept(Gen)
  /\ pc = "compared" => \E r \in RValues : DOMAIN rValRegMap = {r} /\ machine.flags = <<Val(r)>>

(* A branch decides by the comparison before it, or by its value: cmp_op   *)
(* is set in a block with a comparison whose value is used, and only then, *)
(* unless such a comparison has been moved out of its block.               *)
FlagInv ==
  /\ true_cmp = (pc = "compared")
  /\ pc = "compared" => branchOn \in DOMAIN Opposite /\ cmp_op = Opposite[branchOn]
  /\ effect.kind # "use"
  /\ ~Hoisting => /\ pc # "compared" /\ ~compared => cmp_op = NON
                  /\ effect.kind # "branch"

(* What the code generated so far has achieved.                            *)
CodeInv == ValInv /\ FlagInv

-----------------------------------------------------------------------------
(* What one instruction does to the machine.                               *)
SetReg(m, r, c) ==
  [m EXCEPT !.reg = [q \in DOMAIN m.reg |-> IF q = r THEN c ELSE m.reg[q]]]

(* ... the same for a word of the memory.                                  *)
SetWord(m, at, c) ==
  [m EXCEPT !.mem = [a \in DOMAIN m.mem |-> IF a = at THEN c ELSE m.mem[a]]]

LEMMA SetRegFacts ==
  ASSUME NEW m, IsMachine(m), NEW r, NEW c
  PROVE  LET n == SetReg(m, r, c)
         IN  /\ IsMachine(n)
             /\ n.sp = m.sp /\ n.mem = m.mem /\ n.flags = m.flags /\ n.used = m.used
             /\ \A q \in Regs : n.reg[q] = IF q = r THEN c ELSE m.reg[q]
<1> DEFINE f == [q \in DOMAIN m.reg |-> IF q = r THEN c ELSE m.reg[q]]
<1>1. SetReg(m, r, c) = [m EXCEPT !.reg = f]
  BY DEF SetReg
<1>2. f = [q \in Regs |-> f[q]] /\ \A q \in Regs : f[q] = IF q = r THEN c ELSE m.reg[q]
  BY DEF IsMachine
<1> HIDE DEF f
<1> QED
  BY <1>1, <1>2 DEF IsMachine

LEMMA SetWordFacts ==
  ASSUME NEW m, IsMachine(m), NEW at, NEW c
  PROVE  LET n == SetWord(m, at, c)
         IN  /\ IsMachine(n)
             /\ n.sp = m.sp /\ n.reg = m.reg /\ n.flags = m.flags /\ n.used = m.used
             /\ \A a \in Words : n.mem[a] = IF a = at THEN c ELSE m.mem[a]
<1> DEFINE f == [a \in DOMAIN m.mem |-> IF a = at THEN c ELSE m.mem[a]]
<1>1. SetWord(m, at, c) = [m EXCEPT !.mem = f]
  BY DEF SetWord
<1>2. f = [a \in Words |-> f[a]] /\ \A a \in Words : f[a] = IF a = at THEN c ELSE m.mem[a]
  BY DEF IsMachine
<1> HIDE DEF f
<1> QED
  BY <1>1, <1>2 DEF IsMachine

LEMMA One == ASSUME NEW m, NEW a
  PROVE  [i \in DOMAIN <<a>> |-> Content(m, <<a>>[i])] = <<Content(m, a)>>
  OBVIOUS

LEMMA Two == ASSUME NEW m, NEW a, NEW b
  PROVE  [i \in DOMAIN <<a, b>> |-> Content(m, <<a, b>>[i])] = <<Content(m, a), Content(m, b)>>
  OBVIOUS

LEMMA Three == ASSUME NEW m, NEW a, NEW b, NEW c
  PROVE  [i \in DOMAIN <<a, b, c>> |-> Content(m, <<a, b, c>>[i])]
           = <<Content(m, a), Content(m, b), Content(m, c)>>
  OBVIOUS

LEMMA Prefixed1 == ASSUME NEW f, NEW a PROVE <<f>> \o <<a>> = <<f, a>>
<1> DEFINE S == Seq({f, a})
<1>1. <<f>> \in S /\ <<a>> \in S /\ <<f, a>> \in S
  OBVIOUS
<1>2. /\ <<f>> \o <<a>> \in S /\ Len(<<f>> \o <<a>>) = 2
      /\ \A i \in 1 .. 2 : (<<f>> \o <<a>>)[i] = <<f, a>>[i]
  BY <1>1
<1> QED
  BY <1>1, <1>2, SeqEqual

LEMMA Prefixed2 == ASSUME NEW f, NEW a, NEW b PROVE <<f>> \o <<a, b>> = <<f, a, b>>
<1> DEFINE S == Seq({f, a, b})
<1>1. <<f>> \in S /\ <<a, b>> \in S /\ <<f, a, b>> \in S
  OBVIOUS
<1>2. /\ <<f>> \o <<a, b>> \in S /\ Len(<<f>> \o <<a, b>>) = 3
      /\ \A i \in 1 .. 3 : (<<f>> \o <<a, b>>)[i] = <<f, a, b>>[i]
  BY <1>1
<1> QED
  BY <1>1, <1>2, SeqEqual

LEMMA Prefixed3 == ASSUME NEW f, NEW a, NEW b, NEW c PROVE <<f>> \o <<a, b, c>> = <<f, a, b, c>>
<1> DEFINE S == Seq({f, a, b, c})
<1>1. <<f>> \in S /\ <<a, b, c>> \in S /\ <<f, a, b, c>> \in S
  OBVIOUS
<1>2. /\ <<f>> \o <<a, b, c>> \in S /\ Len(<<f>> \o <<a, b, c>>) = 4
      /\ \A i \in 1 .. 4 : (<<f>> \o <<a, b, c>>)[i] = <<f, a, b, c>>[i]
  BY <1>1
<1> QED
  BY <1>1, <1>2, SeqEqual

LEMMA ExecMove == ASSUME NEW m, NEW r, NEW a
  PROVE  Execute(m, Move(r, a)) = SetReg(m, r, Content(m, a))
  BY One DEF Execute, Move, SetReg

LEMMA ExecLea == ASSUME NEW m, NEW r, NEW a, NEW n, Content(m, a) = Offset(n)
  PROVE  Execute(m, Lea(r, a)) = SetReg(m, r, Frame(m.sp + n))
  BY One DEF Execute, Lea, SetReg, Offset

LEMMA ExecLdr == ASSUME NEW m, NEW r, NEW a, NEW n, Content(m, a) = Offset(n)
  PROVE  Execute(m, Ldr(r, a)) = SetReg(m, r, Read(m.mem, m.sp + n))
  BY One DEF Execute, Ldr, SetReg, Offset

LEMMA ExecStr == ASSUME NEW m, NEW r, NEW a, NEW n, Content(m, a) = Offset(n)
  PROVE  Execute(m, Str(r, a)) = SetWord(m, m.sp + n, Content(m, Reg(r)))
  BY Two DEF Execute, Str, SetWord, Offset

LEMMA ExecSetIf == ASSUME NEW m, NEW r, NEW cond
  PROVE  Execute(m, SetIf(r, cond)) = SetReg(m, r, <<cond>> \o m.flags)
  BY DEF Execute, SetIf, SetReg

LEMMA ExecCompare == ASSUME NEW m, NEW a, NEW b
  PROVE  Execute(m, Compare(a, b)) = [m EXCEPT !.flags = <<Content(m, a), Content(m, b)>>]
  BY Two DEF Execute, Compare

LEMMA ExecBranch == ASSUME NEW m, NEW cond
  PROVE  Execute(m, Branch(cond)) = [m EXCEPT !.used = <<cond>> \o m.flags]
  BY DEF Execute, Branch

LEMMA ExecCompute ==
  ASSUME NEW m, NEW r, NEW f, NEW srcs,
         NEW c, c = [i \in DOMAIN srcs |-> Content(m, srcs[i])]
  PROVE  Execute(m, Compute(r, f, srcs)) = SetReg(m, r, <<f>> \o c)
<1> DEFINE ins == Compute(r, f, srcs)
<1>1. ins.op = "compute" /\ ins.rd = r /\ ins.f = f /\ ins.srcs = srcs
  BY DEF Compute
<1> HIDE DEF ins
<1>2. Execute(m, ins)
        = [m EXCEPT !.reg = [q \in DOMAIN m.reg |-> IF q = ins.rd THEN <<ins.f>> \o
              [i \in DOMAIN ins.srcs |-> Content(m, ins.srcs[i])] ELSE m.reg[q]]]
  BY <1>1 DEF Execute
<1> QED
  BY <1>1, <1>2, Zenon DEF SetReg, ins

LEMMA ExecCompute1 == ASSUME NEW m, NEW r, NEW f, NEW a
  PROVE  Execute(m, Compute(r, f, <<a>>))
           = SetReg(m, r, <<f, Content(m, a)>>)
<1> DEFINE cs == <<Content(m, a)>>
<1>1. cs = [i \in DOMAIN <<a>> |-> Content(m, <<a>>[i])]
  BY One
<1>2. <<f>> \o cs = <<f, Content(m, a)>>
  BY Prefixed1
<1> HIDE DEF cs
<1>3. Execute(m, Compute(r, f, <<a>>)) = SetReg(m, r, <<f>> \o cs)
  BY <1>1, ExecCompute
<1> QED
  BY <1>2, <1>3

LEMMA ExecCompute2 == ASSUME NEW m, NEW r, NEW f, NEW a, NEW b
  PROVE  Execute(m, Compute(r, f, <<a, b>>))
           = SetReg(m, r, <<f, Content(m, a), Content(m, b)>>)
<1> DEFINE cs == <<Content(m, a), Content(m, b)>>
<1>1. cs = [i \in DOMAIN <<a, b>> |-> Content(m, <<a, b>>[i])]
  BY Two
<1>2. <<f>> \o cs = <<f, Content(m, a), Content(m, b)>>
  BY Prefixed2
<1> HIDE DEF cs
<1>3. Execute(m, Compute(r, f, <<a, b>>)) = SetReg(m, r, <<f>> \o cs)
  BY <1>1, ExecCompute
<1> QED
  BY <1>2, <1>3

LEMMA ExecCompute3 == ASSUME NEW m, NEW r, NEW f, NEW a, NEW b, NEW c
  PROVE  Execute(m, Compute(r, f, <<a, b, c>>))
           = SetReg(m, r, <<f, Content(m, a), Content(m, b), Content(m, c)>>)
<1> DEFINE cs == <<Content(m, a), Content(m, b), Content(m, c)>>
<1>1. cs = [i \in DOMAIN <<a, b, c>> |-> Content(m, <<a, b, c>>[i])]
  BY Three
<1>2. <<f>> \o cs = <<f, Content(m, a), Content(m, b), Content(m, c)>>
  BY Prefixed3
<1> HIDE DEF cs
<1>3. Execute(m, Compute(r, f, <<a, b, c>>)) = SetReg(m, r, <<f>> \o cs)
  BY <1>1, ExecCompute
<1> QED
  BY <1>2, <1>3

LEMMA ExecUse2 == ASSUME NEW m, NEW a, NEW b
  PROVE  Execute(m, Use(<<a, b>>)) = [m EXCEPT !.used = <<Content(m, a), Content(m, b)>>]
  BY Two DEF Execute, Use

LEMMA ExecUse3 == ASSUME NEW m, NEW a, NEW b, NEW c
  PROVE  Execute(m, Use(<<a, b, c>>))
           = [m EXCEPT !.used = <<Content(m, a), Content(m, b), Content(m, c)>>]
  BY Three DEF Execute, Use

LEMMA ExecMoveSp == ASSUME NEW m, NEW n
  PROVE  Execute(m, MoveSp(n)) = [m EXCEPT !.sp = m.sp + n]
  BY DEF Execute, MoveSp

-----------------------------------------------------------------------------
(* The frame.                                                              *)
LEMMA FrameType ==
  /\ IsFiniteSet(OnStack) /\ Cardinality(OnStack) \in Nat
  /\ ReturnSlot = Cardinality(OnStack) + 1
  /\ FrameWords = ReturnSlot + 5 /\ ReturnSlot \in Nat
  /\ Len(Params) \in Nat /\ DOMAIN Params = 1 .. Len(Params)
  /\ StackParams \in Nat /\ StackParams >= Len(Params) - 4
<1>1. IsFiniteSet(OnStack) /\ Cardinality(OnStack) \in Nat
  BY ConstantsAssumption, FS_Subset, FS_CardinalityType DEF OnStack
<1>2. Len(Params) \in Nat /\ DOMAIN Params = 1 .. Len(Params)
  BY ConstantsAssumption
<1> QED
  BY <1>1, <1>2 DEF FrameWords, ReturnSlot, StackParams

LEMMA ParamRange ==
  ASSUME NEW i \in DOMAIN Params
  PROVE  /\ ParamSlot(i) \in Words /\ ParamSlot(i) > ReturnSlot
         /\ \A j \in DOMAIN Params : ParamSlot(i) = ParamSlot(j) => Params[i] = Params[j]
  BY FrameType DEF ParamSlot, Words

LEMMA ParamIndex ==
  ASSUME NEW v
  PROVE  v \in ToSet(Params) <=> \E i \in DOMAIN Params : Params[i] = v
  BY DEF ToSet

(* Never more slots are given away than the frame has.                     *)
LEMMA SlotCount ==
  ASSUME NEW offset, NEW sp, Slots(offset, sp)
  PROVE  /\ IsFiniteSet(Own(offset)) /\ sp \in Nat
         /\ Own(offset) \subseteq OnStack \cup {Array} /\ sp <= ReturnSlot
<1>1. Own(offset) \subseteq OnStack \cup {Array}
  BY DEF Slots, Own, OnStack
<1>2. IsFiniteSet(OnStack \cup {Array}) /\ Cardinality(OnStack \cup {Array}) <= ReturnSlot
  <2>1. IsFiniteSet(OnStack \cup {Array})
        /\ Cardinality(OnStack \cup {Array})
             = IF Array \in OnStack THEN Cardinality(OnStack) ELSE Cardinality(OnStack) + 1
    BY FrameType, FS_AddElement
  <2> QED
    BY <2>1, FrameType
<1>3. IsFiniteSet(Own(offset)) /\ Cardinality(Own(offset)) <= Cardinality(OnStack \cup {Array})
  BY <1>1, <1>2, FS_Subset
<1>4. Cardinality(Own(offset)) \in Nat /\ Cardinality(OnStack \cup {Array}) \in Nat
  BY <1>2, <1>3, FS_CardinalityType
<1> QED
  BY <1>1, <1>2, <1>3, <1>4, FrameType DEF Slots

(* Every slot is a word of the frame, and no two values have the same one. *)
LEMMA SlotRange ==
  ASSUME NEW offset, NEW sp, Slots(offset, sp), NEW v \in DOMAIN offset
  PROVE  /\ offset[v] \in Words /\ offset[v] >= 0 /\ offset[v] # ReturnSlot
         /\ \A w \in DOMAIN offset : offset[v] = offset[w] => v = w
<1>0. \A w \in DOMAIN offset : w \in Own(offset) \/ \E i \in DOMAIN Params : w = Params[i]
  BY ParamIndex DEF Own
<1>1. \A w \in Own(offset) : offset[w] \in 0 .. ReturnSlot - 1
  BY SlotCount, FrameType DEF Slots
<1>2. \A w \in DOMAIN offset : \A i \in DOMAIN Params : w = Params[i] =>
        offset[w] = ParamSlot(i) /\ offset[w] > ReturnSlot /\ offset[w] \in Words
  BY ParamRange DEF Slots
<1>3. 0 .. ReturnSlot - 1 \subseteq Words /\ Words \subseteq Int
  BY FrameType DEF Words
<1>4. offset[v] \in Words /\ offset[v] >= 0 /\ offset[v] # ReturnSlot
  <2>1. CASE v \in Own(offset)
    BY <1>1, <1>3, <2>1, FrameType
  <2>2. ASSUME NEW i \in DOMAIN Params, v = Params[i]
        PROVE  offset[v] \in Words /\ offset[v] > ReturnSlot
    BY <1>2, <2>2
  <2>3. v \in Own(offset) \/ (offset[v] \in Words /\ offset[v] > ReturnSlot)
    BY <1>0, <2>2
  <2>4. \A n \in Int : n > ReturnSlot => n >= 0 /\ n # ReturnSlot
    BY FrameType
  <2> QED
    BY <1>3, <2>1, <2>3, <2>4
<1>5. ASSUME NEW w \in DOMAIN offset, offset[v] = offset[w]  PROVE v = w
  <2>1. CASE v \in Own(offset) /\ w \in Own(offset)
    BY <1>5, <2>1 DEF Slots
  <2>2. CASE \E i, j \in DOMAIN Params : v = Params[i] /\ w = Params[j]
    BY <1>2, <1>5, <2>2, ParamRange
  <2>3. ASSUME NEW x \in Own(offset), NEW i \in DOMAIN Params, Params[i] \in DOMAIN offset
        PROVE  offset[x] # offset[Params[i]]
    BY <1>1, <1>2, <2>3, FrameType
  <2> QED
    BY <1>0, <1>5, <2>1, <2>2, <2>3
<1> QED
  BY <1>4, <1>5

(* A slot for a value that has none.                                       *)
LEMMA NewSlot ==
  ASSUME NEW offset, NEW sp, Slots(offset, sp), NEW v,
         v \in (LValues \ (DOMAIN variableRegs \cup ToSet(Params))) \cup {Array},
         v \notin DOMAIN offset
  PROVE  LET new == With(offset, v, sp)
         IN  /\ Slots(new, sp + 1)
             /\ new[v] = sp /\ sp \in Words /\ sp >= 0 /\ sp # ReturnSlot
             /\ DOMAIN new = DOMAIN offset \cup {v}
             /\ \A w \in DOMAIN offset : new[w] = offset[w] /\ offset[w] # sp
<1> DEFINE new == With(offset, v, sp)
<1>1. /\ DOMAIN new = DOMAIN offset \cup {v}
      /\ new = [w \in DOMAIN new |-> new[w]]
      /\ new[v] = sp /\ \A w \in DOMAIN offset : new[w] = offset[w]
  BY DEF With
<1> HIDE DEF new
<1>2. Array \notin LValues
  BY ValuesAssumption
<1>3. v \notin ToSet(Params) /\ v \in OnStack \cup {Array}
  <2>1. ToSet(Params) \subseteq LValues
    BY ConstantsAssumption DEF ToSet
  <2> QED
    BY <1>2, <2>1 DEF OnStack
<1>4. Own(new) = Own(offset) \cup {v} /\ v \notin Own(offset)
  BY <1>1, <1>3 DEF Own
<1>5. sp \in Nat /\ IsFiniteSet(Own(offset)) /\ Own(offset) \subseteq OnStack \cup {Array}
  BY SlotCount
<1>6. Cardinality(Own(new)) = sp + 1
  BY <1>4, <1>5, FS_AddElement DEF Slots
<1>7. Slots(new, sp + 1)
  <2>1. DOMAIN new \subseteq (LValues \ DOMAIN variableRegs) \cup {Array}
    BY <1>1 DEF Slots
  <2>2. \A i \in DOMAIN Params : Params[i] \in DOMAIN new => new[Params[i]] = ParamSlot(i)
    BY <1>1, <1>3, ParamIndex DEF Slots
  <2>3. \A w \in Own(offset) : new[w] = offset[w] /\ offset[w] \in 0 .. sp - 1
    BY <1>1 DEF Slots, Own
  <2>4. \A w \in Own(new) : new[w] \in 0 .. sp
    BY <1>1, <1>4, <1>5, <2>3
  <2>5. \A w, x \in Own(new) : new[w] = new[x] => w = x
    BY <1>1, <1>4, <1>5, <2>3 DEF Slots
  <2> QED
    BY <1>1, <1>5, <1>6, <2>1, <2>2, <2>4, <2>5 DEF Slots
<1>8. sp < ReturnSlot /\ sp \in Words
  BY <1>5, <1>7, SlotCount, FrameType DEF Words
<1>9. \A w \in DOMAIN offset : offset[w] # sp
  <2>1. \A w \in DOMAIN new : new[w] = new[v] => w = v
    BY <1>1, <1>7, SlotRange
  <2> QED
    BY <1>1, <2>1
<1> QED
  BY <1>1, <1>5, <1>7, <1>8, <1>9 DEF new

-----------------------------------------------------------------------------
(* The generator puts out code that changes some registers only.           *)
Touches(g, h, regs) ==
  /\ h.offset = g.offset /\ h.sp = g.sp
  /\ IsMachine(h.m) /\ h.m.sp = g.m.sp /\ h.m.mem = g.m.mem /\ h.m.flags = g.m.flags
  /\ \A r \in Regs : r \in regs \/ h.m.reg[r] = g.m.reg[r]

(* No register is taken or given back.                                     *)
SamePool(g, h) == h.pool = g.pool /\ h.rVal = g.rVal /\ h.failed = g.failed

LEMMA EmitFields ==
  ASSUME NEW g, NEW ins, IsGen(g)
  PROVE  LET h == Emit(g, ins)
         IN  /\ IsGen(h) /\ SamePool(g, h)
             /\ h.m = Execute(g.m, ins) /\ h.offset = g.offset /\ h.sp = g.sp
<1> DEFINE n == Execute(g.m, ins)
<1>1. Emit(g, ins) = [g EXCEPT !.m = n]
  BY DEF Emit
<1> HIDE DEF n
<1>2. /\ IsGen(Emit(g, ins)) /\ SamePool(g, Emit(g, ins))
      /\ Emit(g, ins).m = n /\ Emit(g, ins).offset = g.offset /\ Emit(g, ins).sp = g.sp
  BY <1>1 DEF IsGen, SamePool
<1> QED
  BY <1>2 DEF n

LEMMA EmitSet ==
  ASSUME NEW g, NEW ins, IsGen(g), IsMachine(g.m), NEW r, NEW c,
         Execute(g.m, ins) = SetReg(g.m, r, c)
  PROVE  LET h == Emit(g, ins)
         IN  /\ IsGen(h) /\ SamePool(g, h)
             /\ Touches(g, h, {r})
             /\ r \in Regs => h.m.reg[r] = c
<1>1. /\ IsGen(Emit(g, ins)) /\ SamePool(g, Emit(g, ins))
      /\ Emit(g, ins).m = SetReg(g.m, r, c)
      /\ Emit(g, ins).offset = g.offset /\ Emit(g, ins).sp = g.sp
  BY EmitFields
<1>2. LET n == SetReg(g.m, r, c)
      IN  /\ IsMachine(n)
          /\ n.sp = g.m.sp /\ n.mem = g.m.mem /\ n.flags = g.m.flags
          /\ \A q \in Regs : n.reg[q] = IF q = r THEN c ELSE g.m.reg[q]
  BY SetRegFacts
<1> QED
  BY <1>1, <1>2 DEF Touches

LEMMA TouchesTwice ==
  ASSUME NEW g, NEW h, NEW k, NEW A, NEW B, Touches(g, h, A), Touches(h, k, B)
  PROVE  Touches(g, k, A \cup B)
  BY DEF Touches

(* Where a value can be loaded from.                                       *)
Located(g, x) ==
  \/ x \in Numbers \cup {Global}
  \/ x = Array /\ Array \in DOMAIN g.offset
  \/ /\ x \in RValues /\ x \in DOMAIN g.rVal
     /\ g.rVal[x] \in Regs /\ g.m.reg[g.rVal[x]] = Val(x)
  \/ x \in LValues /\ InPlace(g.m, g.offset, x)

(* What a value is for the machine, with these slots.                      *)
MeaningIn(offset, v) == IF v = Array THEN Frame(offset[v]) ELSE Val(v)

LEMMA Kinds ==
  ASSUME NEW x
  PROVE  /\ x \in Numbers \cup {Global} => x \notin LValues /\ x \notin RValues /\ x # Array
         /\ x = Array => x \notin LValues /\ x \notin RValues
         /\ x \in LValues => x \notin RValues
  BY ValuesAssumption DEF Numbers

LEMMA RegsOf ==
  /\ TempRegs \subseteq Regs /\ Regs \subseteq Int
  /\ \A v \in DOMAIN variableRegs :
       v \in LValues /\ variableRegs[v] \in Regs /\ variableRegs[v] \notin TempRegs
       /\ variableRegs[v] \in 4 .. 12
  BY ConstantsAssumption DEF TempRegs, Regs, LR

LEMMA OffsetRight ==
  ASSUME NEW g, IsGen(g), IsMachine(g.m), NEW n, NEW reg \in Regs
  PROVE  LET off == LoadOffset(g, n, reg)
         IN  /\ IsGen(off.g) /\ SamePool(g, off.g) /\ Touches(g, off.g, {reg})
             /\ Content(off.g.m, off.src) = Offset(n)
<1> DEFINE off == LoadOffset(g, n, reg)
<1>1. CASE n \in FarOffsets
  <2>1. off.g = Emit(g, Move(reg, Imm(Offset(n)))) /\ off.src = Reg(reg)
    BY <1>1 DEF LoadOffset
  <2>2. Execute(g.m, Move(reg, Imm(Offset(n)))) = SetReg(g.m, reg, Offset(n))
    <3>1. Content(g.m, Imm(Offset(n))) = Offset(n)
      BY DEF Content, Imm
    <3> QED
      BY <3>1, ExecMove
  <2> HIDE DEF off
  <2>3. /\ IsGen(off.g) /\ SamePool(g, off.g) /\ Touches(g, off.g, {reg})
        /\ off.g.m.reg[reg] = Offset(n)
    BY <2>1, <2>2, EmitSet
  <2>4. Content(off.g.m, off.src) = Offset(n)
    BY <2>1, <2>3 DEF Content, Reg, Read, Touches, IsMachine
  <2> QED
    BY <2>3, <2>4 DEF off
<1>2. CASE n \notin FarOffsets
  <2>1. off.g = g /\ off.src = Imm(Offset(n))
    BY <1>2 DEF LoadOffset
  <2> HIDE DEF off
  <2>2. /\ IsGen(off.g) /\ SamePool(g, off.g) /\ Touches(g, off.g, {reg})
        /\ Content(off.g.m, off.src) = Offset(n)
    BY <2>1 DEF SamePool, Touches, Content, Imm
  <2> QED
    BY <2>2 DEF off
<1> QED
  BY <1>1, <1>2

(* loadVal2Reg loads what the value stands for.                            *)
LEMMA LoadRight ==
  ASSUME NEW g, IsGen(g), IsMachine(g.m), Slots(g.offset, g.sp),
         NEW x, Located(g, x), DOMAIN g.rVal \subseteq RValues,
         NEW compensate \in Int, g.m.sp + compensate = 0,
         NEW des \in Regs, NEW reg \in Regs
  PROVE  LET l == LoadVal2Reg(g, x, des, compensate, reg)
         IN  /\ IsGen(l) /\ SamePool(g, l) /\ Touches(g, l, {des, reg})
             /\ l.m.reg[des] = MeaningIn(g.offset, x)
<1> DEFINE l == LoadVal2Reg(g, x, des, compensate, reg)
           Loaded(h) == /\ IsGen(h) /\ SamePool(g, h) /\ Touches(g, h, {des, reg})
                        /\ h.m.reg[des] = MeaningIn(g.offset, x)
<1> SUFFICES Loaded(l)
  OBVIOUS
<1>1. CASE x \in Numbers \cup {Global}
  <2>1. l = Emit(g, Move(des, Imm(Val(x))))
    BY <1>1 DEF LoadVal2Reg
  <2>2. Execute(g.m, Move(des, Imm(Val(x)))) = SetReg(g.m, des, Val(x))
    <3>1. Content(g.m, Imm(Val(x))) = Val(x)
      BY DEF Content, Imm
    <3> QED
      BY <3>1, ExecMove
  <2> HIDE DEF l
  <2>3. IsGen(l) /\ SamePool(g, l) /\ Touches(g, l, {des}) /\ l.m.reg[des] = Val(x)
    BY <2>1, <2>2, EmitSet
  <2>4. MeaningIn(g.offset, x) = Val(x)
    BY <1>1, Kinds DEF MeaningIn
  <2> QED
    BY <2>3, <2>4 DEF Touches
<1>2. CASE x \notin Numbers \cup {Global} /\ x \in DOMAIN g.offset
  <2> DEFINE n == g.offset[x] + compensate
             off == LoadOffset(g, n, reg)
             ins == IF x = Array THEN Lea(des, off.src) ELSE Ldr(des, off.src)
  <2>1. l = Emit(off.g, ins)
    BY <1>2, SMTT(30) DEF LoadVal2Reg
  <2>2. /\ IsGen(off.g) /\ SamePool(g, off.g) /\ Touches(g, off.g, {reg})
        /\ Content(off.g.m, off.src) = Offset(n)
    BY OffsetRight
  <2>3. g.offset[x] \in Words /\ g.m.sp + n = g.offset[x]
    <3>1. g.offset[x] \in Words
      BY <1>2, SlotRange
    <3>2. g.offset[x] \in Int /\ g.m.sp \in Int
      BY <3>1, FrameType DEF IsMachine, Words
    <3> QED
      BY <3>1, <3>2
  <2> HIDE DEF off, n
  <2>4. off.g.m.sp + n = g.offset[x] /\ off.g.m.mem = g.m.mem /\ IsMachine(off.g.m)
    BY <2>2, <2>3 DEF Touches
  <2>5. Execute(off.g.m, ins) = SetReg(off.g.m, des, MeaningIn(g.offset, x))
    <3>1. CASE x = Array
      BY <2>2, <2>4, <3>1, ExecLea DEF MeaningIn
    <3>2. CASE x # Array
      <4>1. g.m.mem[g.offset[x]] = Val(x)
        <5>1. x \in LValues /\ x \notin DOMAIN variableRegs
          BY <1>2, <3>2, Kinds DEF Slots
        <5> QED
          BY <1>2, <3>2, <5>1, Kinds DEF Located, InPlace
      <4>2. Read(off.g.m.mem, off.g.m.sp + n) = Val(x)
        BY <2>3, <2>4, <4>1 DEF Read, IsMachine
      <4> QED
        BY <2>2, <3>2, <4>2, ExecLdr DEF MeaningIn
    <3> QED
      BY <3>1, <3>2
  <2> HIDE DEF ins, l
  <2>6. /\ IsGen(l) /\ SamePool(off.g, l) /\ Touches(off.g, l, {des})
        /\ l.m.reg[des] = MeaningIn(g.offset, x)
    <3> DEFINE c == MeaningIn(g.offset, x)
    <3>1. Execute(off.g.m, ins) = SetReg(off.g.m, des, c)
      BY <2>5
    <3> HIDE DEF c
    <3>2. IsGen(l) /\ SamePool(off.g, l) /\ Touches(off.g, l, {des}) /\ l.m.reg[des] = c
      <4> DEFINE k == off.g
      <4>1. IsGen(k) /\ IsMachine(k.m) /\ Execute(k.m, ins) = SetReg(k.m, des, c)
        BY <2>2, <2>4, <3>1
      <4>2. l = Emit(k, ins)
        BY <2>1
      <4> HIDE DEF k
      <4>3. IsGen(l) /\ SamePool(k, l) /\ Touches(k, l, {des}) /\ l.m.reg[des] = c
        BY <4>1, <4>2, EmitSet
      <4> QED
        BY <4>3 DEF k
    <3> QED
      BY <3>2 DEF c
  <2>7. Touches(g, l, {reg} \cup {des})
    BY <2>2, <2>6, TouchesTwice
  <2> QED
    BY <2>2, <2>6, <2>7 DEF SamePool, Touches
<1>3. CASE x \notin Numbers \cup {Global} /\ x \notin DOMAIN g.offset
  <2> DEFINE r == IF x \in DOMAIN g.rVal THEN g.rVal[x] ELSE variableRegs[x]
  <2>1. l = IF r = des THEN g ELSE Emit(g, Move(des, Reg(r)))
    BY <1>3, SMTT(30) DEF LoadVal2Reg
  <2>2. r \in Regs /\ g.m.reg[r] = Val(x) /\ x # Array
    BY <1>3, Kinds, RegsOf DEF Located, InPlace
  <2> HIDE DEF r, l
  <2>3. Content(g.m, Reg(r)) = Val(x) /\ MeaningIn(g.offset, x) = Val(x)
    BY <2>2 DEF Content, Reg, Read, IsMachine, MeaningIn
  <2>4. CASE r = des
    BY <2>1, <2>2, <2>3, <2>4 DEF SamePool, Touches
  <2>5. CASE r # des
    <3>1. Execute(g.m, Move(des, Reg(r))) = SetReg(g.m, des, Val(x))
      BY <2>3, ExecMove
    <3>2. IsGen(l) /\ SamePool(g, l) /\ Touches(g, l, {des}) /\ l.m.reg[des] = Val(x)
      BY <2>1, <2>5, <3>1, EmitSet
    <3> QED
      BY <2>3, <3>2 DEF Touches
  <2> QED
    BY <2>4, <2>5
<1> QED
  BY <1>1, <1>2, <1>3

-----------------------------------------------------------------------------
(* Registers taken and given back, without code.                           *)
SameFrame(g, h) == h.m = g.m /\ h.offset = g.offset /\ h.sp = g.sp

LEMMA AllocFields ==
  ASSUME NEW g, NEW held, NEW D, Sound(g, held, D), ~AllocTempRegister(g).g.failed
  PROVE  LET t == AllocTempRegister(g)
         IN  /\ ~g.failed /\ IsGen(t.g) /\ SameFrame(g, t.g) /\ t.g.rVal = g.rVal
             /\ t.reg \in g.pool /\ t.reg \in TempRegs /\ t.g.pool = g.pool \ {t.reg}
<1> DEFINE t == AllocTempRegister(g)
<1>1. IsGen(g)
  BY DEF Sound
<1>2. g.pool # {}
  BY <1>1 DEF AllocTempRegister, IsGen
<1> DEFINE r == FirstOf(g.pool)
           h == [g EXCEPT !.pool = @ \ {r}]
<1>3. t = [g |-> h, reg |-> r]
  BY <1>2 DEF AllocTempRegister
<1> HIDE DEF r
<1>4. /\ IsGen(h) /\ SameFrame(g, h) /\ h.rVal = g.rVal /\ h.failed = g.failed
      /\ h.pool = g.pool \ {r}
  BY <1>1 DEF IsGen, SameFrame
<1> HIDE DEF h
<1>5. t.g = h /\ t.reg = r
  BY <1>3
<1> HIDE DEF t
<1>6. ~g.failed
  BY <1>4, <1>5 DEF t
<1>7. g.pool \subseteq TempRegs
  BY <1>6 DEF Sound, Tidy
<1>8. r \in g.pool
  BY <1>2, <1>7, FirstIsFree DEF r
<1> QED
  BY <1>4, <1>5, <1>6, <1>7, <1>8 DEF t

LEMMA ReleaseFields ==
  ASSUME NEW g, NEW r, IsGen(g)
  PROVE  LET h == ReleaseTempRegister(g, r)
         IN  /\ IsGen(h) /\ SameFrame(g, h) /\ h.rVal = g.rVal /\ h.failed = g.failed
             /\ h.pool = g.pool \cup {r}
<1>1. ReleaseTempRegister(g, r) = [g EXCEPT !.pool = g.pool \cup {r}]
  BY DEF ReleaseTempRegister
<1> QED
  BY <1>1 DEF IsGen, SameFrame

LEMMA FreeFields ==
  ASSUME NEW g, NEW a, IsGen(g)
  PROVE  LET h == Free(g, a)
         IN  /\ IsGen(h) /\ SameFrame(g, h) /\ h.rVal = g.rVal /\ h.failed = g.failed
  BY ReleaseFields DEF Free, SameFrame

LEMMA ForgetFields ==
  ASSUME NEW g, NEW v, IsGen(g)
  PROVE  LET h == Forget(g, v)
         IN  /\ IsGen(h) /\ SameFrame(g, h) /\ h.failed = g.failed /\ h.pool = g.pool
             /\ DOMAIN h.rVal = DOMAIN g.rVal \ {v}
             /\ \A w \in DOMAIN h.rVal : h.rVal[w] = g.rVal[w]
<1> DEFINE f == [w \in DOMAIN g.rVal \ {v} |-> g.rVal[w]]
<1>1. Forget(g, v) = [g EXCEPT !.rVal = f]
  BY DEF Forget
<1>2. DOMAIN f = DOMAIN g.rVal \ {v} /\ \A w \in DOMAIN f : f[w] = g.rVal[w]
  OBVIOUS
<1> HIDE DEF f
<1> QED
  BY <1>1, <1>2 DEF IsGen, SameFrame

-----------------------------------------------------------------------------
(* While operands are read every value stays where it is.                  *)
Reading(g, L) ==
  /\ IsGen(g) /\ LeftKept(g, L) /\ RightKept(g) /\ g.m.sp = 0
  /\ DOMAIN g.rVal \subseteq RValues
  /\ g.offset = var2offset

(* Some right values may have been read, none is there that was not.       *)
Fewer(g, h) ==
  /\ DOMAIN h.rVal \subseteq DOMAIN g.rVal
  /\ \A r \in DOMAIN h.rVal : h.rVal[r] = g.rVal[r]

LEMMA TouchKeeps ==
  ASSUME NEW g, NEW h, NEW L, NEW regs, NEW held, NEW D,
         Reading(g, L), Touches(g, h, regs), Fewer(g, h),
         Sound(h, held, D), ~h.failed, regs \subseteq held \cup h.pool
  PROVE  Reading(h, L)
<1>1. regs \subseteq TempRegs /\ \A r \in DOMAIN h.rVal : h.rVal[r] \in TempRegs /\ h.rVal[r] \notin regs
  BY DEF Sound, Tidy, Holding
<1>2. RightKept(h)
  <2>1. ASSUME NEW r \in DOMAIN h.rVal  PROVE h.m.reg[h.rVal[r]] = Val(r)
    <3>1. r \in DOMAIN g.rVal /\ h.rVal[r] = g.rVal[r]
      BY DEF Fewer
    <3>2. g.m.reg[g.rVal[r]] = Val(r)
      BY <3>1 DEF Reading, RightKept
    <3> QED
      BY <1>1, <3>1, <3>2, RegsOf DEF Touches
  <2> QED
    BY <2>1 DEF RightKept
<1>3. ASSUME NEW v \in L  PROVE InPlace(h.m, h.offset, v)
  <2>1. InPlace(g.m, g.offset, v)
    BY DEF Reading, LeftKept
  <2> QED
    BY <1>1, <2>1, RegsOf DEF InPlace, Touches
<1>4. LeftKept(h, L)
  BY <1>3 DEF LeftKept, Reading, Touches
<1> QED
  BY <1>2, <1>4 DEF Reading, Touches, Sound, Fewer

(* What a gen function may read.                                           *)
Readable(g, L) ==
  Numbers \cup {Global} \cup ({Array} \cap DOMAIN g.offset) \cup DOMAIN g.rVal \cup L

(* What is read is c: in a register, which is a temporary one only if it   *)
(* has been lent, or an immediate.                                         *)
Source(g, a, c) ==
  /\ Content(g.m, a.src) = c
  /\ a.src.kind = "reg" => a.src.at \in Regs /\ (a.free \/ a.src.at \notin TempRegs)

LEMMA SourceStays ==
  ASSUME NEW g, NEW h, NEW a, NEW c, NEW regs, IsMachine(g.m),
         Source(g, a, c), Touches(g, h, regs), regs \subseteq TempRegs, regs \cap Borrowed(a) = {}
  PROVE  Source(h, a, c)
  BY DEF Source, Touches, Borrowed, Content, Read, IsMachine

LEMMA SourceSame ==
  ASSUME NEW g, NEW h, NEW a, NEW c, Source(g, a, c), h.m = g.m
  PROVE  Source(h, a, c)
  BY DEF Source

LEMMA ReadRight ==
  ASSUME NEW g, NEW held, NEW D, NEW L, NEW x, NEW regRequired,
         Sound(g, held, D), Reading(g, L), x \in Readable(g, L),
         ~ReadRegister(g, x, regRequired).g.failed
  PROVE  LET a == ReadRegister(g, x, regRequired)
         IN  /\ ~g.failed /\ Reading(a.g, L) /\ Source(a.g, a, Meaning(x))
             /\ Touches(g, a.g, Borrowed(a)) /\ Borrowed(a) \subseteq TempRegs
             /\ DOMAIN a.g.rVal = DOMAIN g.rVal \ {x} /\ Fewer(g, a.g)
<1> DEFINE a == ReadRegister(g, x, regRequired)
           t == AllocTempRegister(g)
           l == LoadVal2Reg(t.g, x, t.reg, 0, t.reg)
           Right(b) == /\ ~g.failed /\ Reading(b.g, L) /\ Source(b.g, b, Meaning(x))
                       /\ Touches(g, b.g, Borrowed(b)) /\ Borrowed(b) \subseteq TempRegs
                       /\ DOMAIN b.g.rVal = DOMAIN g.rVal \ {x} /\ Fewer(g, b.g)
<1> SUFFICES Right(a)
  OBVIOUS
<1>1. /\ IsGen(g) /\ IsMachine(g.m) /\ g.m.sp = 0 /\ Slots(g.offset, g.sp)
      /\ DOMAIN g.rVal \subseteq RValues /\ L \subseteq LValues /\ RightKept(g)
      /\ g.offset = var2offset
  BY DEF Reading, LeftKept
<1>2. /\ Sound(a.g, held \cup Borrowed(a), D)
      /\ g.failed => a.g.failed
  BY ReadSound
<1>3. ~g.failed /\ Tidy(g, held) /\ Tidy(a.g, held \cup Borrowed(a))
  BY <1>2 DEF Sound
<1>4. Borrowed(a) \subseteq TempRegs
  BY <1>3 DEF Tidy
<1>5. CASE x \in DOMAIN g.rVal
  <2>1. a.g = Forget(g, x) /\ a.src = Reg(g.rVal[x]) /\ a.free = TRUE
    BY <1>5 DEF ReadRegister
  <2> HIDE DEF a
  <2>2. Touches(g, a.g, Borrowed(a)) /\ DOMAIN a.g.rVal = DOMAIN g.rVal \ {x} /\ Fewer(g, a.g)
    BY <1>1, <2>1, ForgetFields DEF Touches, Fewer, SameFrame
  <2>3. Reading(a.g, L)
    BY <1>2, <2>2, TouchKeeps DEF a
  <2>4. Source(a.g, a, Meaning(x))
    <3>1. g.rVal[x] \in Regs /\ g.m.reg[g.rVal[x]] = Val(x)
      BY <1>1, <1>3, <1>5, RegsOf DEF RightKept, Tidy, Holding
    <3>2. a.g.m = g.m
      BY <1>1, <2>1, ForgetFields DEF SameFrame
    <3>3. Meaning(x) = Val(x)
      BY <1>1, <1>5, Kinds DEF Meaning
    <3> QED
      BY <1>1, <2>1, <3>1, <3>2, <3>3 DEF Source, Content, Reg, Read, IsMachine
  <2> QED
    BY <1>3, <1>4, <2>2, <2>3, <2>4 DEF a
<1>6. CASE x \notin DOMAIN g.rVal /\ x \in DOMAIN variableRegs /\ x \notin ToSet(Params)
  <2>1. a.g = g /\ a.src = Reg(variableRegs[x]) /\ a.free = FALSE
    BY <1>6 DEF ReadRegister
  <2> HIDE DEF a
  <2>2. x \in L /\ x # Array
    BY <1>6, RegsOf, Kinds DEF Readable
  <2>3. g.m.reg[variableRegs[x]] = Val(x) /\ variableRegs[x] \in Regs /\ variableRegs[x] \notin TempRegs
    BY <1>6, <2>2, RegsOf DEF Reading, LeftKept, InPlace
  <2>4. Source(a.g, a, Meaning(x))
    BY <1>1, <2>1, <2>2, <2>3 DEF Source, Content, Reg, Read, IsMachine, Meaning
  <2>5. Touches(g, a.g, Borrowed(a)) /\ DOMAIN a.g.rVal = DOMAIN g.rVal \ {x} /\ Fewer(g, a.g)
    BY <1>1, <1>6, <2>1 DEF Touches, Fewer
  <2> QED
    BY <1>3, <1>4, <2>1, <2>4, <2>5 DEF a
<1>7. CASE x = Small /\ x \notin DOMAIN g.rVal /\ a = [g |-> g, src |-> Imm(Val(x)), free |-> FALSE]
  <2>1. a.g = g /\ a.src = Imm(Val(x)) /\ a.free = FALSE
    BY <1>7
  <2> HIDE DEF a
  <2>2. Source(a.g, a, Meaning(x))
    BY <1>7, <2>1, Kinds DEF Source, Content, Imm, Meaning, Numbers
  <2>3. Touches(g, a.g, Borrowed(a)) /\ DOMAIN a.g.rVal = DOMAIN g.rVal \ {x} /\ Fewer(g, a.g)
    BY <1>1, <1>7, <2>1 DEF Touches, Fewer
  <2> QED
    BY <1>3, <1>4, <2>1, <2>2, <2>3 DEF a
<1>8. CASE /\ x \notin DOMAIN g.rVal
           /\ a = [g |-> l, src |-> Reg(t.reg), free |-> TRUE]
  <2>1. a.g = l /\ a.src = Reg(t.reg) /\ a.free = TRUE
    BY <1>8
  <2> HIDE DEF a
  <2>2. Borrowed(a) = {t.reg}
    BY <2>1 DEF Borrowed, Reg
  <2>3. /\ Sound(t.g, held \cup {t.reg}, D)
        /\ g.failed => t.g.failed
    BY AllocSound
  <2>4. l.failed = t.g.failed /\ l.rVal = t.g.rVal
    <3> HIDE DEF t
    <3> QED
      BY <2>3, LoadSound
  <2>5. /\ IsGen(t.g) /\ SameFrame(g, t.g) /\ t.g.rVal = g.rVal /\ t.reg \in TempRegs
    BY <2>1, <2>4, AllocFields DEF a
  <2> HIDE DEF t
  <2>6. Located(t.g, x)
    <3>1. x \in L => x \in LValues /\ InPlace(g.m, g.offset, x)
      BY DEF Reading, LeftKept
    <3> QED
      BY <1>8, <2>5, <3>1 DEF Located, Readable, SameFrame
  <2>7. /\ IsMachine(t.g.m) /\ Slots(t.g.offset, t.g.sp) /\ DOMAIN t.g.rVal \subseteq RValues
        /\ t.g.m.sp + 0 = 0 /\ t.reg \in Regs
    <3>1. t.g.m = g.m /\ t.g.offset = g.offset /\ t.g.sp = g.sp /\ t.g.rVal = g.rVal
      BY <2>5 DEF SameFrame
    <3>2. g.m.sp + 0 = 0
      BY <1>1
    <3>3. t.reg \in Regs
      BY <2>5, RegsOf
    <3> QED
      BY <1>1, <3>1, <3>2, <3>3
  <2>8. /\ IsGen(l) /\ SamePool(t.g, l) /\ Touches(t.g, l, {t.reg, t.reg})
        /\ l.m.reg[t.reg] = MeaningIn(t.g.offset, x)
    <3> DEFINE k == t.g
               r == t.reg
    <3>1. /\ IsGen(k) /\ IsMachine(k.m) /\ Slots(k.offset, k.sp) /\ Located(k, x)
          /\ DOMAIN k.rVal \subseteq RValues /\ k.m.sp + 0 = 0 /\ r \in Regs
      BY <2>5, <2>6, <2>7
    <3>2. l = LoadVal2Reg(k, x, r, 0, r) /\ 0 \in Int
      OBVIOUS
    <3> HIDE DEF k, r, l
    <3>3. /\ IsGen(l) /\ SamePool(k, l) /\ Touches(k, l, {r, r})
          /\ l.m.reg[r] = MeaningIn(k.offset, x)
      BY <3>1, <3>2, LoadRight
    <3> QED
      BY <3>3 DEF k, r
  <2> HIDE DEF l
  <2>9. Touches(g, l, {t.reg}) /\ l.m.reg[t.reg] = Meaning(x)
    BY <1>1, <2>5, <2>8 DEF Touches, SameFrame, Meaning, MeaningIn
  <2>10. Fewer(g, l) /\ DOMAIN l.rVal = DOMAIN g.rVal \ {x}
    BY <1>8, <2>4, <2>5 DEF Fewer
  <2>11. Reading(l, L)
    BY <1>2, <2>1, <2>2, <2>9, <2>10, TouchKeeps DEF a
  <2>12. Source(l, a, Meaning(x))
    BY <2>1, <2>5, <2>7, <2>9 DEF Source, Content, Reg, Read, Touches, IsMachine
  <2> QED
    BY <1>3, <1>4, <2>1, <2>2, <2>9, <2>10, <2>11, <2>12 DEF a
<1> QED
  BY <1>5, <1>6, <1>7, <1>8, ZenonT(30) DEF ReadRegister, InTemp

-----------------------------------------------------------------------------
(* An instruction has made v: its place contains the term that defines it, *)
(* and every other value is where it was.                                  *)
Ready(g, v, term, L) ==
  /\ IsGen(g) /\ IsMachine(g.m) /\ g.m.sp = 0 /\ g.m.mem[ReturnSlot] = ReturnAddress
  /\ Slots(g.offset, g.sp)
  /\ DOMAIN g.rVal \subseteq RValues /\ L \subseteq LValues
  /\ \A w \in L \ {v} : InPlace(g.m, g.offset, w)
  /\ \A r \in DOMAIN g.rVal \ {v} : g.m.reg[g.rVal[r]] = Val(r)
  /\ v \in LValues => IF v \in DOMAIN variableRegs THEN g.m.reg[variableRegs[v]] = term
                      ELSE v \in DOMAIN g.offset /\ g.m.mem[g.offset[v]] = term
  /\ v \in DOMAIN g.rVal => g.m.reg[g.rVal[v]] = term

(* The instruction puts the term into any register it is given.            *)
Makes(g, instruction, term) ==
  \A r \in Regs : Execute(g.m, [instruction EXCEPT !.rd = r]) = SetReg(g.m, r, term)

(* A register is given the result.                                         *)
LEMMA ReadyInRegister ==
  ASSUME NEW g, NEW h, NEW L, NEW v, NEW term, NEW r,
         Reading(g, L), IsGen(h), Touches(g, h, {r}), h.m.reg[r] = term,
         DOMAIN h.rVal \subseteq DOMAIN g.rVal \cup ({v} \cap RValues),
         \A w \in DOMAIN h.rVal \ {v} : h.rVal[w] = g.rVal[w] /\ h.rVal[w] \in TempRegs \ {r},
         \/ v \in DOMAIN variableRegs /\ r = variableRegs[v]
         \/ v \in DOMAIN h.rVal /\ r = h.rVal[v] /\ r \in TempRegs
  PROVE  Ready(h, v, term, L)
<1>1. /\ IsMachine(h.m) /\ h.m.sp = 0 /\ h.m.mem[ReturnSlot] = ReturnAddress
      /\ Slots(h.offset, h.sp) /\ DOMAIN h.rVal \subseteq RValues /\ L \subseteq LValues
  BY DEF Reading, LeftKept, Touches
<1>2. ASSUME NEW w \in L \ {v}  PROVE InPlace(h.m, h.offset, w)
  <2>1. InPlace(g.m, g.offset, w)
    BY DEF Reading, LeftKept
  <2>2. w \in DOMAIN variableRegs => variableRegs[w] # r
    BY RegsOf, ConstantsAssumption
  <2> QED
    BY <2>1, <2>2, RegsOf DEF InPlace, Touches
<1>3. ASSUME NEW w \in DOMAIN h.rVal \ {v}  PROVE h.m.reg[h.rVal[w]] = Val(w)
  <2>1. g.m.reg[g.rVal[w]] = Val(w)
    BY DEF Reading, RightKept
  <2> QED
    BY <2>1, RegsOf DEF Touches
<1>4. v \in LValues => v \in DOMAIN variableRegs /\ r = variableRegs[v]
  BY <1>1, Kinds
<1>5. v \in DOMAIN h.rVal => r = h.rVal[v]
  BY <1>1, RegsOf, Kinds
<1> QED
  BY <1>1, <1>2, <1>3, <1>4, <1>5 DEF Ready

(* ... or a slot.                                                          *)
LEMMA ReadyInSlot ==
  ASSUME NEW g, NEW h, NEW L, NEW v, NEW term, NEW at,
         Reading(g, L), IsGen(h), Slots(h.offset, h.sp),
         v \in LValues \ DOMAIN variableRegs, v \in DOMAIN h.offset, h.offset[v] = at,
         at \in Words, at # ReturnSlot,
         \A w \in L \ {v} : w \in DOMAIN g.offset =>
             w \in DOMAIN h.offset /\ h.offset[w] = g.offset[w] /\ g.offset[w] # at,
         h.m = SetWord(g.m, at, term), h.rVal = g.rVal
  PROVE  Ready(h, v, term, L)
<1>1. /\ IsMachine(g.m) /\ Slots(g.offset, g.sp) /\ L \subseteq LValues /\ RightKept(g)
      /\ DOMAIN g.rVal \subseteq RValues /\ g.m.sp = 0 /\ g.m.mem[ReturnSlot] = ReturnAddress
  BY DEF Reading, LeftKept
<1>2. /\ IsMachine(h.m) /\ h.m.sp = g.m.sp /\ h.m.reg = g.m.reg
      /\ \A a \in Words : h.m.mem[a] = IF a = at THEN term ELSE g.m.mem[a]
  BY <1>1, SetWordFacts
<1>3. ReturnSlot \in Words
  BY FrameType DEF Words
<1>4. ASSUME NEW w \in L \ {v}  PROVE InPlace(h.m, h.offset, w)
  <2>1. InPlace(g.m, g.offset, w)
    BY DEF Reading, LeftKept
  <2>2. w \in DOMAIN g.offset => g.offset[w] \in Words
    BY <1>1, SlotRange
  <2> QED
    BY <1>2, <2>1, <2>2 DEF InPlace
<1>5. \A w \in DOMAIN h.rVal : h.m.reg[h.rVal[w]] = Val(w)
  BY <1>1, <1>2 DEF RightKept
<1>6. v \notin DOMAIN h.rVal
  BY <1>1, Kinds
<1> QED
  BY <1>1, <1>2, <1>3, <1>4, <1>5, <1>6 DEF Ready

LEMMA StoreRight ==
  ASSUME NEW g, NEW D, NEW L, NEW held, NEW des \in held, NEW v, NEW term,
         Sound(g, held, D), Reading(g, L), g.m.reg[des] = term,
         v \in LValues \ (DOMAIN variableRegs \cup ToSet(Params)),
         ~Store2Memory(g, des, v).failed
  PROVE  Ready(Store2Memory(g, des, v), v, term, L)
<1> DEFINE new == v \notin DOMAIN g.offset
           at == IF new THEN g.sp ELSE g.offset[v]
           t == AllocTempRegister(g)
           off == LoadOffset(t.g, at, t.reg)
           put == Emit(off.g, Str(des, off.src))
           a == ReleaseTempRegister(put, t.reg)
           b == ReleaseTempRegister(a, des)
           p == Store2Memory(g, des, v)
           offset == With(b.offset, v, at)
<1>0. /\ IsMachine(g.m) /\ Slots(g.offset, g.sp) /\ L \subseteq LValues /\ g.m.sp = 0
  BY DEF Reading, LeftKept
<1>1. p = IF new THEN [b EXCEPT !.sp = @ + 1, !.offset = With(@, v, at)] ELSE b
  BY Zenon DEF Store2Memory
<1> HIDE DEF new, at
<1>2. Sound(t.g, held \cup {t.reg}, D)
  BY AllocSound
<1>3. IsGen(t.g)
  BY <1>2 DEF Sound
<1> HIDE DEF p
<1>4. p.failed = b.failed
  <2>1. IsGen(off.g)
    <3> HIDE DEF t
    <3>1. Sound(off.g, held \cup {t.reg}, D)
      BY <1>2, OffsetSound
    <3> QED
      BY <3>1 DEF Sound
  <2> HIDE DEF off
  <2>2. IsGen(put)
    BY <2>1, EmitFields
  <2> HIDE DEF put
  <2>3. IsGen(a)
    BY <2>2, ReleaseFields
  <2> HIDE DEF a
  <2>4. IsGen(b)
    BY <2>3, ReleaseFields
  <2> HIDE DEF b
  <2> QED
    BY <1>1, <2>4 DEF IsGen
<1>5. /\ IsGen(off.g) /\ SamePool(t.g, off.g)
  <2> HIDE DEF t
  <2>1. Sound(off.g, held \cup {t.reg}, D) /\ off.g.failed = t.g.failed /\ off.g.rVal = t.g.rVal
    BY <1>2, OffsetSound
  <2>2. LoadOffset(t.g, at, t.reg).g.pool = t.g.pool
    <3>1. off.g = t.g \/ off.g = Emit(t.g, Move(t.reg, Imm(Offset(at))))
      BY DEF LoadOffset
    <3>2. Emit(t.g, Move(t.reg, Imm(Offset(at)))).pool = t.g.pool
      BY <1>3, EmitFields DEF SamePool
    <3> QED
      BY <3>1, <3>2
  <2> QED
    BY <2>1, <2>2 DEF SamePool, Sound
<1>6. /\ IsGen(put) /\ SamePool(off.g, put) /\ put.m = Execute(off.g.m, Str(des, off.src))
      /\ put.offset = off.g.offset /\ put.sp = off.g.sp
  <2> HIDE DEF off
  <2> QED
    BY <1>5, EmitFields
<1>7. /\ IsGen(a) /\ SameFrame(put, a) /\ a.rVal = put.rVal /\ a.failed = put.failed
  <2> HIDE DEF put
  <2> QED
    BY <1>6, ReleaseFields
<1>8. /\ IsGen(b) /\ SameFrame(a, b) /\ b.rVal = a.rVal /\ b.failed = a.failed
  <2> HIDE DEF a
  <2> QED
    BY <1>7, ReleaseFields
<1>9. ~t.g.failed
  BY <1>4, <1>5, <1>6, <1>7, <1>8 DEF SamePool, p
<1>10. /\ SameFrame(g, t.g) /\ t.g.rVal = g.rVal /\ t.reg \in TempRegs /\ t.reg \in g.pool
  BY <1>9, AllocFields
<1>11. t.reg # des /\ ~g.failed /\ des \in Regs
  BY <1>9, <1>10, AllocFields, RegsOf DEF Sound, Tidy
<1>12. /\ Touches(t.g, off.g, {t.reg}) /\ Content(off.g.m, off.src) = Offset(at)
  <2> DEFINE k == t.g
             r == t.reg
  <2>1. IsGen(k) /\ IsMachine(k.m) /\ r \in Regs
    BY <1>0, <1>3, <1>10, RegsOf DEF SameFrame
  <2> HIDE DEF k, r
  <2>2. Touches(k, LoadOffset(k, at, r).g, {r}) /\ Content(LoadOffset(k, at, r).g.m, LoadOffset(k, at, r).src) = Offset(at)
    BY <2>1, OffsetRight
  <2> QED
    BY <2>2 DEF k, r
<1> HIDE DEF off, t
<1>13. Touches(g, off.g, {t.reg})
  BY <1>10, <1>12 DEF Touches, SameFrame
<1>14. Reading(off.g, L)
  <2>1. Fewer(g, off.g)
    BY <1>5, <1>10 DEF SamePool, Fewer
  <2>2. Sound(off.g, held \cup {t.reg}, D) /\ ~off.g.failed
    BY <1>2, <1>5, <1>9, OffsetSound DEF SamePool, off
  <2> QED
    BY <1>13, <2>1, <2>2, TouchKeeps
<1>15. IsMachine(off.g.m) /\ off.g.m.sp = 0 /\ Content(off.g.m, Reg(des)) = term
  BY <1>0, <1>11, <1>13 DEF Touches, Content, Reg, Read, IsMachine
<1>16. \/ new /\ at = g.sp /\ at \in Words
       \/ ~new /\ at = g.offset[v] /\ at \in Words
  <2>1. CASE new
    BY <1>0, <2>1, NewSlot DEF new, at
  <2>2. CASE ~new
    BY <1>0, <2>2, SlotRange DEF new, at
  <2> QED
    BY <2>1, <2>2
<1>17. put.m = SetWord(off.g.m, at, term)
  <2>1. put.m = SetWord(off.g.m, off.g.m.sp + at, term)
    BY <1>6, <1>12, <1>15, ExecStr
  <2>2. at \in Int
    BY <1>16, FrameType DEF Words
  <2> QED
    BY <1>15, <2>1, <2>2
<1>18. b.m = SetWord(off.g.m, at, term) /\ b.offset = g.offset /\ b.sp = g.sp /\ b.rVal = off.g.rVal
  BY <1>6, <1>7, <1>8, <1>13, <1>17 DEF SameFrame, SamePool, Touches
<1>19. off.g.offset = g.offset
  BY <1>13 DEF Touches
<1> HIDE DEF a, b, put
<1>20. CASE new
  <2>1. p = [b EXCEPT !.sp = b.sp + 1, !.offset = offset]
    BY <1>1, <1>20
  <2> DEFINE sp == b.sp + 1
  <2>2. offset = With(g.offset, v, g.sp)
    BY <1>16, <1>18, <1>20
  <2>3. v \notin DOMAIN g.offset
    BY <1>20 DEF new
  <2>4. /\ Slots(offset, g.sp + 1) /\ offset[v] = at /\ at # ReturnSlot /\ v \in DOMAIN offset
        /\ \A w \in DOMAIN g.offset : w \in DOMAIN offset /\ offset[w] = g.offset[w] /\ g.offset[w] # at
    <3> DEFINE h == With(g.offset, v, g.sp)
    <3>1. v \in (LValues \ (DOMAIN variableRegs \cup ToSet(Params))) \cup {Array}
      OBVIOUS
    <3>2. /\ Slots(h, g.sp + 1) /\ h[v] = g.sp /\ g.sp # ReturnSlot
          /\ DOMAIN h = DOMAIN g.offset \cup {v}
          /\ \A w \in DOMAIN g.offset : h[w] = g.offset[w] /\ g.offset[w] # g.sp
      BY <1>0, <2>3, <3>1, NewSlot
    <3>3. at = g.sp /\ offset = h
      BY <1>16, <1>20, <2>2
    <3> HIDE DEF h
    <3> QED
      BY <3>2, <3>3
  <2>5. sp = g.sp + 1
    BY <1>18
  <2> HIDE DEF offset, sp
  <2>6. p = [b EXCEPT !.sp = sp, !.offset = offset]
    BY <2>1 DEF sp
  <2>7. IsGen(p) /\ p.m = b.m /\ p.offset = offset /\ p.sp = sp /\ p.rVal = b.rVal
    BY <1>8, <2>6 DEF IsGen
  <2>8. Ready(p, v, term, L)
    BY <1>14, <1>16, <1>18, <1>19, <2>4, <2>5, <2>7, ReadyInSlot
  <2> QED
    BY <2>8 DEF p
<1>21. CASE ~new
  <2>1. p = b
    BY <1>1, <1>21
  <2>2. v \in DOMAIN g.offset /\ at = g.offset[v]
    BY <1>16, <1>21 DEF new
  <2>3. at # ReturnSlot /\ \A w \in DOMAIN g.offset : g.offset[w] = at => v = w
    BY <1>0, <2>2, SlotRange
  <2>4. Ready(p, v, term, L)
    BY <1>0, <1>8, <1>14, <1>16, <1>18, <1>19, <2>1, <2>2, <2>3, ReadyInSlot
  <2> QED
    BY <2>4 DEF p
<1> QED
  BY <1>20, <1>21

LEMMA KeepFields ==
  ASSUME NEW g, NEW v, NEW r, IsGen(g)
  PROVE  LET h == Keep(g, v, r)
         IN  /\ IsGen(h) /\ SameFrame(g, h) /\ h.failed = g.failed /\ h.pool = g.pool
             /\ DOMAIN h.rVal = DOMAIN g.rVal \cup {v}
             /\ \A w \in DOMAIN h.rVal : h.rVal[w] = IF w = v THEN r ELSE g.rVal[w]
<1> DEFINE f == With(g.rVal, v, r)
<1>1. Keep(g, v, r) = [g EXCEPT !.rVal = f]
  BY DEF Keep
<1>2. DOMAIN f = DOMAIN g.rVal \cup {v} /\ \A w \in DOMAIN f : f[w] = IF w = v THEN r ELSE g.rVal[w]
  BY DEF With
<1> HIDE DEF f
<1> QED
  BY <1>1, <1>2 DEF IsGen, SameFrame

(* The result of a gen function is where it will be looked for.            *)
LEMMA ProduceRight ==
  ASSUME NEW g, NEW held, NEW D, NEW L, NEW v, NEW instruction, NEW term,
         Sound(g, held, D), Reading(g, L), Makes(g, instruction, term),
         v \in LValues \ ToSet(Params) \/ v \in RValues \ D,
         ~Produce(g, v, instruction).failed
  PROVE  Ready(Produce(g, v, instruction), v, term, L)
<1> DEFINE p == Produce(g, v, instruction)
           t == AllocTempRegister(g)
           Ins(r) == [instruction EXCEPT !.rd = r]
<1>1. IsGen(g) /\ IsMachine(g.m) /\ DOMAIN g.rVal \subseteq D
  BY DEF Reading, LeftKept, Sound
<1>2. Sound(t.g, held \cup {t.reg}, D) /\ Apart(t.g, {t.reg}, held)
  BY AllocSound
<1>3. CASE v \in DOMAIN variableRegs
  <2> DEFINE r == variableRegs[v]
  <2>1. p = Emit(g, Ins(r))
    BY <1>3 DEF Produce, WriteRegister
  <2>2. r \in Regs /\ r \notin TempRegs
    BY <1>3, RegsOf
  <2>3. Execute(g.m, Ins(r)) = SetReg(g.m, r, term)
    BY <2>2 DEF Makes
  <2> HIDE DEF p, r, Ins
  <2>4. IsGen(p) /\ SamePool(g, p) /\ Touches(g, p, {r}) /\ p.m.reg[r] = term
    BY <1>1, <2>1, <2>2, <2>3, EmitSet
  <2>5. \A w \in DOMAIN p.rVal : p.rVal[w] = g.rVal[w] /\ p.rVal[w] \in TempRegs \ {r}
    BY <2>2, <2>4 DEF SamePool, Sound, Tidy, Holding, p
  <2>6. Ready(p, v, term, L)
    BY <1>3, <2>4, <2>5, ReadyInRegister DEF SamePool, r
  <2> QED
    BY <2>6 DEF p
<1>4. CASE v \in LValues \ DOMAIN variableRegs
  <2> DEFINE made == Emit(t.g, Ins(t.reg))
  <2>1. p = Store2Memory(made, t.reg, v)
    BY <1>4 DEF Produce, WriteRegister
  <2>2. /\ Sound(made, held \cup {t.reg}, D) /\ made.failed = t.g.failed
    <3> HIDE DEF t, Ins
    <3> QED
      BY <1>2, EmitSound
  <2>4. ~t.g.failed
    <3>1. Sound(made, held \cup {t.reg}, D) /\ Apart(made, {t.reg}, held)
      BY <1>2, <2>2 DEF Apart
    <3> HIDE DEF made, t
    <3>2. made.failed => Store2Memory(made, t.reg, v).failed
      BY <3>1, StoreSound
    <3> QED
      BY <2>1, <2>2, <3>2
  <2>5. /\ ~g.failed /\ IsGen(t.g) /\ SameFrame(g, t.g) /\ t.g.rVal = g.rVal
        /\ t.reg \in TempRegs
    BY <2>4, AllocFields
  <2>6. t.reg \in Regs /\ IsMachine(t.g.m) /\ Execute(t.g.m, Ins(t.reg)) = SetReg(t.g.m, t.reg, term)
    BY <1>1, <2>5, RegsOf DEF SameFrame, Makes
  <2> HIDE DEF p, t, Ins
  <2>7. SamePool(t.g, made) /\ Touches(t.g, made, {t.reg}) /\ made.m.reg[t.reg] = term
    <3> DEFINE k == t.g
               r == t.reg
    <3>1. IsGen(k) /\ IsMachine(k.m) /\ r \in Regs /\ Execute(k.m, Ins(r)) = SetReg(k.m, r, term)
      BY <2>5, <2>6
    <3> HIDE DEF k, r
    <3>2. SamePool(k, Emit(k, Ins(r))) /\ Touches(k, Emit(k, Ins(r)), {r}) /\ Emit(k, Ins(r)).m.reg[r] = term
      BY <3>1, EmitSet
    <3> QED
      BY <3>2 DEF k, r
  <2> HIDE DEF made
  <2>8. Touches(g, made, {t.reg}) /\ Fewer(g, made)
    BY <2>5, <2>7 DEF Touches, SameFrame, SamePool, Fewer
  <2>9. Reading(made, L)
    BY <2>2, <2>4, <2>8, TouchKeeps
  <2>10. v \in LValues \ (DOMAIN variableRegs \cup ToSet(Params)) /\ ~p.failed
    BY <1>4, Kinds DEF p
  <2>11. Ready(p, v, term, L)
    BY <2>1, <2>2, <2>5, <2>7, <2>9, <2>10, StoreRight
  <2> QED
    BY <2>11 DEF p
<1>5. CASE v \in RValues \ D
  <2> DEFINE k == Keep(t.g, v, t.reg)
  <2>1. v \notin LValues /\ v \notin DOMAIN variableRegs
    BY <1>5, Kinds, RegsOf
  <2>2. p = Emit(k, Ins(t.reg))
    BY <2>1 DEF Produce, WriteRegister
  <2>3. IsGen(t.g)
    BY <1>2 DEF Sound
  <2>4. /\ IsGen(k) /\ SameFrame(t.g, k) /\ k.failed = t.g.failed
        /\ DOMAIN k.rVal = DOMAIN t.g.rVal \cup {v}
        /\ \A w \in DOMAIN k.rVal : k.rVal[w] = IF w = v THEN t.reg ELSE t.g.rVal[w]
    <3> HIDE DEF t
    <3> QED
      BY <2>3, KeepFields
  <2> HIDE DEF k, Ins
  <2>5. SamePool(k, Emit(k, Ins(t.reg)))
    BY <2>4, EmitFields
  <2>6. ~t.g.failed
    BY <2>2, <2>4, <2>5 DEF SamePool
  <2>7. /\ ~g.failed /\ SameFrame(g, t.g) /\ t.g.rVal = g.rVal
        /\ t.reg \in TempRegs /\ t.reg \in g.pool
    BY <2>6, AllocFields
  <2>8. t.reg \in Regs /\ IsMachine(k.m) /\ Execute(k.m, Ins(t.reg)) = SetReg(k.m, t.reg, term)
    BY <1>1, <2>4, <2>7, RegsOf DEF SameFrame, Makes, Ins
  <2> HIDE DEF p, t
  <2>9. IsGen(p) /\ SamePool(k, p) /\ Touches(k, p, {t.reg}) /\ p.m.reg[t.reg] = term
    <3> DEFINE r == t.reg
               e == Emit(k, Ins(r))
    <3>1. IsGen(k) /\ IsMachine(k.m) /\ r \in Regs /\ Execute(k.m, Ins(r)) = SetReg(k.m, r, term)
      BY <2>4, <2>8
    <3>2. p = e
      BY <2>2
    <3> HIDE DEF r
    <3>3. IsGen(e) /\ SamePool(k, e) /\ Touches(k, e, {r}) /\ e.m.reg[r] = term
      BY <3>1, EmitSet
    <3> HIDE DEF e
    <3> QED
      BY <3>2, <3>3 DEF r
  <2>10. Touches(g, p, {t.reg})
    BY <2>4, <2>7, <2>9 DEF Touches, SameFrame
  <2>11. DOMAIN p.rVal = DOMAIN g.rVal \cup {v} /\ p.rVal[v] = t.reg
    BY <2>4, <2>7, <2>9 DEF SamePool
  <2>12. ASSUME NEW w \in DOMAIN p.rVal \ {v}
         PROVE  p.rVal[w] = g.rVal[w] /\ p.rVal[w] \in TempRegs \ {t.reg}
    <3>1. p.rVal[w] = g.rVal[w] /\ w \in DOMAIN g.rVal
      BY <2>4, <2>7, <2>9, <2>11 DEF SamePool
    <3>2. g.rVal[w] \in Holding(g.rVal) /\ Tidy(g, held)
      BY <2>7, <3>1 DEF Sound, Holding
    <3> QED
      BY <2>7, <3>1, <3>2 DEF Tidy
  <2>13. Ready(p, v, term, L)
    BY <1>5, <2>7, <2>9, <2>10, <2>11, <2>12, ReadyInRegister
  <2> QED
    BY <2>13 DEF p
<1> QED
  BY <1>3, <1>4, <1>5

-----------------------------------------------------------------------------
(* The contents that nothing may rely on are forgotten.                    *)
KeptContent(c, v, alive) ==
  IF c = ReturnAddress \/ (c[1] = "value" /\ c[2] \in (alive \ {v})) THEN c ELSE Junk
MadeContent(c, v, term) == IF c = term THEN Val(v) ELSE Junk
(* The place of a result.                                                  *)
ResultReg(g, v, r) ==
  IF v \in DOMAIN g.rVal THEN r = g.rVal[v] ELSE v \in DOMAIN variableRegs /\ r = variableRegs[v]
ResultSlot(g, v, a) == v \in DOMAIN g.offset /\ a = g.offset[v]

LEMMA SettleFields ==
  ASSUME NEW m, NEW g, NEW v, NEW term, NEW alive, IsMachine(m)
  PROVE  LET n == Settle(m, g, v, term, alive)
         IN  /\ IsMachine(n) /\ n.sp = m.sp /\ n.flags = <<>> /\ n.used = <<>>
             /\ \A r \in Regs : n.reg[r] = IF r \in g.pool THEN Junk
                    ELSE IF ResultReg(g, v, r) THEN MadeContent(m.reg[r], v, term)
                    ELSE KeptContent(m.reg[r], v, alive)
             /\ \A a \in Words : n.mem[a] = IF a < 0 THEN Junk
                    ELSE IF ResultSlot(g, v, a) THEN MadeContent(m.mem[a], v, term)
                    ELSE KeptContent(m.mem[a], v, alive)
<1> DEFINE n == Settle(m, g, v, term, alive)
           reg == [r \in DOMAIN m.reg |-> IF r \in g.pool THEN Junk
                     ELSE IF ResultReg(g, v, r) THEN MadeContent(m.reg[r], v, term)
                     ELSE KeptContent(m.reg[r], v, alive)]
           mem == [a \in DOMAIN m.mem |-> IF a < 0 THEN Junk
                     ELSE IF ResultSlot(g, v, a) THEN MadeContent(m.mem[a], v, term)
                     ELSE KeptContent(m.mem[a], v, alive)]
<1>1. n = [m EXCEPT !.reg = reg, !.mem = mem, !.flags = <<>>, !.used = <<>>]
  BY Zenon DEF Settle, ResultReg, ResultSlot, MadeContent, KeptContent
<1>2. reg = [r \in Regs |-> reg[r]] /\ mem = [a \in Words |-> mem[a]]
  BY DEF IsMachine
<1>3. /\ \A r \in Regs : reg[r] = IF r \in g.pool THEN Junk
                    ELSE IF ResultReg(g, v, r) THEN MadeContent(m.reg[r], v, term)
                    ELSE KeptContent(m.reg[r], v, alive)
      /\ \A a \in Words : mem[a] = IF a < 0 THEN Junk
                    ELSE IF ResultSlot(g, v, a) THEN MadeContent(m.mem[a], v, term)
                    ELSE KeptContent(m.mem[a], v, alive)
  BY DEF IsMachine
<1> HIDE DEF n, reg, mem
<1>4. IsMachine(n) /\ n.sp = m.sp /\ n.flags = <<>> /\ n.used = <<>> /\ n.reg = reg /\ n.mem = mem
  BY <1>1, <1>2 DEF IsMachine
<1> QED
  BY <1>3, <1>4 DEF n

LEMMA ContentsKept ==
  ASSUME NEW v, NEW term, NEW alive
  PROVE  /\ KeptContent(ReturnAddress, v, alive) = ReturnAddress
         /\ MadeContent(term, v, term) = Val(v)
  BY DEF KeptContent, MadeContent

LEMMA ValueKept ==
  ASSUME NEW v, NEW alive, NEW w \in alive, w # v
  PROVE  KeptContent(Val(w), v, alive) = Val(w)
<1>1. Val(w)[1] = "value" /\ Val(w)[2] \in alive \ {v}
  BY DEF Val
<1> QED
  BY <1>1, Zenon DEF KeptContent

(* Between two instructions every value is in its place.                   *)
AtRest(m, offset, L) ==
  /\ IsMachine(m) /\ m.sp = 0 /\ m.mem[ReturnSlot] = ReturnAddress
  /\ \A w \in L : InPlace(m, offset, w)
(* ... and every right value in its register.                              *)
Waiting(m, rVal) == \A r \in DOMAIN rVal : m.reg[rVal[r]] = Val(r)

(* The left values, and all values, that are defined then.                 *)
Left(L, v) == (L \cup {v}) \cap LValues
Defined(g, L, v) == Left(L, v) \cup DOMAIN g.rVal

LEMMA SettleRight ==
  ASSUME NEW g, NEW D, NEW v, NEW term, NEW L, NEW made, Ready(g, v, made, L),
         Sound(g, {}, D), ~g.failed, made = term \/ v \notin LValues,
         NEW alive, Left(L, v) \subseteq alive, NEW n, n = Settle(g.m, g, v, term, alive)
  PROVE  /\ AtRest(n, g.offset, Left(L, v))
         /\ made = term /\ DOMAIN g.rVal \subseteq alive => Waiting(n, g.rVal)
<1> DEFINE left == Left(L, v)
<1>0. left = (L \cup {v}) \cap LValues /\ left \subseteq alive
  BY DEF Left
<1>1. /\ IsMachine(n) /\ n.sp = g.m.sp /\ n.flags = <<>>
      /\ \A r \in Regs : n.reg[r] = IF r \in g.pool THEN Junk
             ELSE IF ResultReg(g, v, r) THEN MadeContent(g.m.reg[r], v, term)
             ELSE KeptContent(g.m.reg[r], v, alive)
      /\ \A a \in Words : n.mem[a] = IF a < 0 THEN Junk
             ELSE IF ResultSlot(g, v, a) THEN MadeContent(g.m.mem[a], v, term)
             ELSE KeptContent(g.m.mem[a], v, alive)
  BY SettleFields DEF Ready
<1> HIDE DEF left
<1>2. /\ g.m.sp = 0 /\ Slots(g.offset, g.sp) /\ DOMAIN g.rVal \subseteq RValues
      /\ g.m.mem[ReturnSlot] = ReturnAddress
  BY DEF Ready
<1>3. /\ g.pool \subseteq TempRegs
      /\ \A r \in DOMAIN g.rVal : g.rVal[r] \in TempRegs /\ g.rVal[r] \notin g.pool
      /\ \A r, q \in DOMAIN g.rVal : g.rVal[r] = g.rVal[q] => r = q
  BY DEF Sound, Tidy, Holding
<1>4. n.mem[ReturnSlot] = ReturnAddress
  <2>1. ReturnSlot \in Words /\ ~(ReturnSlot < 0)
    BY FrameType DEF Words
  <2>2. ~ResultSlot(g, v, ReturnSlot)
    BY <1>2, SlotRange DEF ResultSlot
  <2> QED
    <3>1. n.mem[ReturnSlot] = KeptContent(g.m.mem[ReturnSlot], v, alive)
      BY <1>1, <2>1, <2>2
    <3> QED
      BY <1>2, <3>1, ContentsKept
<1>5. ASSUME NEW w \in left  PROVE InPlace(n, g.offset, w)
  <2>1. CASE w = v /\ v \in DOMAIN variableRegs
    <3>1. v \notin DOMAIN g.rVal /\ variableRegs[v] \in Regs /\ variableRegs[v] \notin g.pool
      BY <1>0, <1>2, <1>3, <2>1, RegsOf, Kinds
    <3>2. ResultReg(g, v, variableRegs[v]) /\ g.m.reg[variableRegs[v]] = term
      BY <1>0, <2>1, <3>1 DEF ResultReg, Ready
    <3>3. n.reg[variableRegs[v]] = MadeContent(term, v, term)
      BY <1>1, <3>1, <3>2
    <3> QED
      BY <2>1, <3>3, ContentsKept DEF InPlace
  <2>2. CASE w = v /\ v \notin DOMAIN variableRegs
    <3>1. v \in DOMAIN g.offset /\ g.m.mem[g.offset[v]] = term
      BY <1>0, <2>2 DEF Ready
    <3>2. g.offset[v] \in Words /\ ~(g.offset[v] < 0) /\ ResultSlot(g, v, g.offset[v])
      BY <1>2, <3>1, SlotRange, FrameType DEF ResultSlot, Words
    <3>3. n.mem[g.offset[v]] = MadeContent(term, v, term)
      BY <1>1, <3>1, <3>2
    <3> QED
      BY <2>2, <3>1, <3>3, ContentsKept DEF InPlace
  <2>3. CASE w # v
    <3>1. InPlace(g.m, g.offset, w) /\ w \in alive
      BY <1>0, <2>3 DEF Ready
    <3>2. CASE w \in DOMAIN variableRegs
      <4>1. variableRegs[w] \in Regs /\ variableRegs[w] \notin TempRegs
        BY <3>2, RegsOf
      <4>2. ~ResultReg(g, v, variableRegs[w])
        BY <1>3, <2>3, <3>2, <4>1, ConstantsAssumption DEF ResultReg
      <4>3. n.reg[variableRegs[w]] = KeptContent(Val(w), v, alive)
        <5>1. variableRegs[w] \notin g.pool /\ g.m.reg[variableRegs[w]] = Val(w)
          BY <1>3, <3>1, <3>2, <4>1 DEF InPlace
        <5> QED
          BY <1>1, <4>1, <4>2, <5>1
      <4>4. KeptContent(Val(w), v, alive) = Val(w)
        BY <2>3, <3>1, ValueKept, Zenon
      <4> QED
        BY <3>2, <4>3, <4>4 DEF InPlace
    <3>3. CASE w \notin DOMAIN variableRegs
      <4>1. /\ g.offset[w] \in Words /\ ~(g.offset[w] < 0) /\ w \in DOMAIN g.offset
            /\ \A x \in DOMAIN g.offset : g.offset[w] = g.offset[x] => w = x
        BY <1>2, <3>1, <3>3, SlotRange, FrameType DEF InPlace, Words
      <4>2. ~ResultSlot(g, v, g.offset[w])
        BY <2>3, <4>1 DEF ResultSlot
      <4>3. n.mem[g.offset[w]] = KeptContent(Val(w), v, alive)
        <5>1. g.m.mem[g.offset[w]] = Val(w)
          BY <3>1, <3>3 DEF InPlace
        <5> QED
          BY <1>1, <4>1, <4>2, <5>1
      <4>4. KeptContent(Val(w), v, alive) = Val(w)
        BY <2>3, <3>1, ValueKept, Zenon
      <4> QED
        BY <3>3, <4>1, <4>3, <4>4 DEF InPlace
    <3> QED
      BY <3>2, <3>3
  <2> QED
    BY <2>1, <2>2, <2>3
<1>6. ASSUME made = term, DOMAIN g.rVal \subseteq alive, NEW r \in DOMAIN g.rVal
      PROVE  n.reg[g.rVal[r]] = Val(r)
  <2>1. g.rVal[r] \in Regs /\ g.rVal[r] \notin g.pool
    BY <1>3, RegsOf
  <2>2. CASE r = v
    <3>1. ResultReg(g, v, g.rVal[v]) /\ g.m.reg[g.rVal[v]] = term
      BY <1>6, <2>2 DEF ResultReg, Ready
    <3>2. n.reg[g.rVal[v]] = MadeContent(term, v, term)
      BY <1>1, <2>1, <2>2, <3>1
    <3> QED
      BY <2>2, <3>2, ContentsKept
  <2>3. CASE r # v
    <3>1. ~ResultReg(g, v, g.rVal[r])
      BY <1>3, <2>3, RegsOf DEF ResultReg
    <3>2. g.m.reg[g.rVal[r]] = Val(r) /\ r \in alive
      BY <1>6, <2>3 DEF Ready
    <3>3. n.reg[g.rVal[r]] = KeptContent(Val(r), v, alive)
      BY <1>1, <2>1, <3>1, <3>2
    <3>4. KeptContent(Val(r), v, alive) = Val(r)
      <4>1. r \in alive /\ r # v
        BY <2>3, <3>2
      <4> QED
        BY <4>1, ValueKept, Zenon
    <3> QED
      BY <3>3, <3>4
  <2> QED
    BY <2>2, <2>3
<1>7. AtRest(n, g.offset, left)
  BY <1>1, <1>2, <1>4, <1>5 DEF AtRest
<1>8. made = term /\ DOMAIN g.rVal \subseteq alive => Waiting(n, g.rVal)
  BY <1>6 DEF Waiting
<1> QED
  BY <1>7, <1>8 DEF left

LEMMA AllSettled ==
  ASSUME NEW g, NEW D, NEW v, NEW term, NEW L, Ready(g, v, term, L), Sound(g, {}, D), ~g.failed,
         NEW n, n = Settle(g.m, g, v, term, Defined(g, L, v))
  PROVE  AtRest(n, g.offset, Left(L, v)) /\ Waiting(n, g.rVal)
<1>1. Left(L, v) \subseteq Defined(g, L, v) /\ DOMAIN g.rVal \subseteq Defined(g, L, v)
  BY DEF Defined
<1> QED
  BY <1>1, SettleRight

-----------------------------------------------------------------------------
(* A step of a gen function, if no register has been asked for in vain:    *)
(* what it reads stays readable, and what it has read stays in its place.  *)
Works(g, held, D, L) == Sound(g, held, D) /\ (g.failed \/ Reading(g, L))
(* The operand a contains c.                                               *)
Holds(g, a, c) == g.failed \/ Source(g, a, c)
CanRead(g, L, x) == g.failed \/ x \in Readable(g, L)

(* A temporary register lent to the gen function, as an operand.           *)
Lent(r) == [src |-> Reg(r), free |-> TRUE]

LEMMA LentFacts ==
  ASSUME NEW r
  PROVE  Borrowed(Lent(r)) = {r} /\ Lent(r).src = Reg(r) /\ Lent(r).free
  BY DEF Borrowed, Lent, Reg

LEMMA ReadWorks ==
  ASSUME NEW g, NEW held, NEW D, NEW L, NEW x, NEW regRequired,
         NEW a, a = ReadRegister(g, x, regRequired),
         Works(g, held, D, L), CanRead(g, L, x)
  PROVE  /\ Works(a.g, held \cup Borrowed(a), D, L)
         /\ Apart(a.g, Borrowed(a), held) /\ (g.failed => a.g.failed)
         /\ Holds(a.g, a, Meaning(x))
         /\ \A b, c : Holds(g, b, c) /\ Borrowed(b) \subseteq held => Holds(a.g, b, c)
         /\ \A y : CanRead(g, L, y) /\ (y = x => y \notin RValues) => CanRead(a.g, L, y)
<1>1. /\ Sound(a.g, held \cup Borrowed(a), D)
      /\ Apart(a.g, Borrowed(a), held) /\ (g.failed => a.g.failed)
  BY ReadSound DEF Works
<1>2. CASE a.g.failed
  BY <1>1, <1>2 DEF Works, Holds, CanRead
<1>3. CASE ~a.g.failed
  <2>1. Sound(g, held, D) /\ Reading(g, L) /\ x \in Readable(g, L)
    BY <1>1, <1>3 DEF Works, CanRead
  <2>2. /\ ~g.failed /\ Reading(a.g, L) /\ Source(a.g, a, Meaning(x))
        /\ Touches(g, a.g, Borrowed(a)) /\ Borrowed(a) \subseteq TempRegs
        /\ DOMAIN a.g.rVal = DOMAIN g.rVal \ {x} /\ Fewer(g, a.g)
    BY <1>3, <2>1, ReadRight
  <2>3. IsMachine(g.m) /\ DOMAIN g.rVal \subseteq RValues
    BY <2>1 DEF Reading, LeftKept
  <2>4. Borrowed(a) \cap held = {}
    BY <1>1, <1>3 DEF Apart
  <2>5. ASSUME NEW b, NEW c, Holds(g, b, c), Borrowed(b) \subseteq held  PROVE Holds(a.g, b, c)
    <3>1. Source(g, b, c) /\ Borrowed(a) \cap Borrowed(b) = {}
      BY <2>2, <2>4, <2>5 DEF Holds
    <3>2. Source(a.g, b, c)
      BY <2>2, <2>3, <3>1, SourceStays
    <3> QED
      BY <3>2 DEF Holds
  <2>6. ASSUME NEW y, CanRead(g, L, y), y = x => y \notin RValues  PROVE CanRead(a.g, L, y)
    <3>1. y \in Readable(g, L) /\ a.g.offset = g.offset
      BY <2>2, <2>6 DEF CanRead, Touches
    <3> QED
      BY <2>2, <2>3, <2>6, <3>1 DEF CanRead, Readable
  <2> QED
    BY <1>1, <2>2, <2>5, <2>6 DEF Works, Holds
<1> QED
  BY <1>2, <1>3

(* The machine is the same, and at most less is borrowed.                  *)
LEMMA ReadingSame ==
  ASSUME NEW g, NEW h, NEW L, Reading(g, L), IsGen(h), SameFrame(g, h), h.rVal = g.rVal
  PROVE  Reading(h, L)
  BY DEF Reading, SameFrame, LeftKept, RightKept

LEMMA SameWorks ==
  ASSUME NEW g, NEW h, NEW held, NEW rest, NEW D, NEW L,
         Works(g, held, D, L), Sound(h, rest, D),
         SameFrame(g, h), h.rVal = g.rVal, g.failed => h.failed
  PROVE  /\ Works(h, rest, D, L)
         /\ \A b, c : Holds(g, b, c) => Holds(h, b, c)
         /\ \A y : CanRead(g, L, y) => CanRead(h, L, y)
         /\ \A A, B : Apart(g, A, B) => Apart(h, A, B)
<1>1. Works(h, rest, D, L)
  BY ReadingSame DEF Works, Sound
<1>2. \A b, c : Holds(g, b, c) => Holds(h, b, c)
  BY SourceSame DEF Holds, SameFrame
<1> QED
  BY <1>1, <1>2 DEF CanRead, Readable, SameFrame, Apart

LEMMA FreeWorks ==
  ASSUME NEW g, NEW held, NEW D, NEW L, NEW a, NEW h, h = Free(g, a),
         Works(g, held \cup Borrowed(a), D, L), Apart(g, Borrowed(a), held)
  PROVE  /\ Works(h, held, D, L) /\ h.failed = g.failed /\ h.m = g.m
         /\ \A b, c : Holds(g, b, c) => Holds(h, b, c)
         /\ \A y : CanRead(g, L, y) => CanRead(h, L, y)
         /\ \A A, B : Apart(g, A, B) => Apart(h, A, B)
<1>1. Sound(h, held, D) /\ h.failed = g.failed
  BY FreeSound DEF Works
<1>2. SameFrame(g, h) /\ h.rVal = g.rVal
  BY FreeFields DEF Works, Sound
<1>3. h.m = g.m
  BY <1>2 DEF SameFrame
<1> QED
  BY <1>1, <1>2, <1>3, SameWorks

LEMMA ReleaseWorks ==
  ASSUME NEW g, NEW held, NEW D, NEW L, NEW r, NEW h, h = ReleaseTempRegister(g, r),
         Works(g, held \cup {r}, D, L), Apart(g, {r}, held)
  PROVE  /\ Works(h, held, D, L) /\ h.failed = g.failed /\ h.m = g.m
         /\ \A b, c : Holds(g, b, c) => Holds(h, b, c)
         /\ \A y : CanRead(g, L, y) => CanRead(h, L, y)
         /\ \A A, B : Apart(g, A, B) => Apart(h, A, B)
<1>1. Sound(h, held, D) /\ h.failed = g.failed
  BY ReleaseSound DEF Works
<1>2. SameFrame(g, h) /\ h.rVal = g.rVal
  BY ReleaseFields DEF Works, Sound
<1>3. h.m = g.m
  BY <1>2 DEF SameFrame
<1> QED
  BY <1>1, <1>2, <1>3, SameWorks

LEMMA AllocWorks ==
  ASSUME NEW g, NEW held, NEW D, NEW L, NEW t, t = AllocTempRegister(g), Works(g, held, D, L)
  PROVE  /\ Works(t.g, held \cup {t.reg}, D, L)
         /\ Apart(t.g, {t.reg}, held) /\ (g.failed => t.g.failed)
         /\ t.g.failed \/ t.reg \in TempRegs
         /\ \A b, c : Holds(g, b, c) => Holds(t.g, b, c)
         /\ \A y : CanRead(g, L, y) => CanRead(t.g, L, y)
<1>1. /\ Sound(t.g, held \cup {t.reg}, D)
      /\ Apart(t.g, {t.reg}, held) /\ (g.failed => t.g.failed)
  BY AllocSound DEF Works
<1>2. CASE t.g.failed
  BY <1>1, <1>2 DEF Works, Holds, CanRead
<1>3. CASE ~t.g.failed
  <2>1. SameFrame(g, t.g) /\ t.g.rVal = g.rVal /\ t.reg \in TempRegs
    BY <1>3, AllocFields DEF Works
  <2> DEFINE k == t.g
  <2>2. Sound(k, held \cup {t.reg}, D) /\ SameFrame(g, k) /\ k.rVal = g.rVal /\ (g.failed => k.failed)
    BY <1>1, <2>1
  <2> HIDE DEF k
  <2>3. /\ Works(k, held \cup {t.reg}, D, L)
        /\ \A b, c : Holds(g, b, c) => Holds(k, b, c)
        /\ \A y : CanRead(g, L, y) => CanRead(k, L, y)
    BY <2>2, SameWorks
  <2> QED
    BY <1>1, <2>1, <2>3 DEF k
<1> QED
  BY <1>2, <1>3

(* An instruction whose result goes to a register that is lent.            *)
LEMMA EmitWorks ==
  ASSUME NEW g, NEW held, NEW D, NEW L, NEW r \in held, NEW ins, NEW c,
         NEW h, h = Emit(g, ins), Works(g, held, D, L),
         g.failed \/ Execute(g.m, ins) = SetReg(g.m, r, c)
  PROVE  /\ Works(h, held, D, L) /\ h.failed = g.failed
         /\ Holds(h, Lent(r), c)
         /\ \A b, d : Holds(g, b, d) /\ Borrowed(b) \subseteq held \ {r} => Holds(h, b, d)
         /\ \A y : CanRead(g, L, y) => CanRead(h, L, y)
<1>1. Sound(g, held, D)
  BY DEF Works
<1>2. Sound(h, held, D) /\ h.failed = g.failed /\ h.rVal = g.rVal
  BY <1>1, EmitSound
<1>3. CASE g.failed
  BY <1>2, <1>3 DEF Works, Holds, CanRead
<1>4. CASE ~g.failed
  <2>1. Reading(g, L) /\ IsGen(g) /\ IsMachine(g.m) /\ Execute(g.m, ins) = SetReg(g.m, r, c)
    BY <1>1, <1>4 DEF Works, Reading, LeftKept
  <2>2. r \in TempRegs /\ r \in Regs /\ held \subseteq TempRegs
    BY <1>1, <1>4, RegsOf DEF Sound, Tidy
  <2>3. Touches(g, h, {r}) /\ h.m.reg[r] = c
    BY <2>1, <2>2, EmitSet
  <2>4. Fewer(g, h) /\ ~h.failed
    BY <1>2, <1>4 DEF Fewer
  <2>5. Reading(h, L)
    <3>1. {r} \subseteq held \cup h.pool
      OBVIOUS
    <3> QED
      BY <1>2, <2>1, <2>3, <2>4, <3>1, TouchKeeps
  <2>6. Source(h, Lent(r), c)
    <3>1. Lent(r).src.kind = "reg" /\ Lent(r).src.at = r /\ Lent(r).free
      BY DEF Lent, Reg
    <3>2. Content(h.m, Lent(r).src) = c
      <4>1. h.m.reg = [q \in Regs |-> h.m.reg[q]]
        BY <2>3 DEF Touches, IsMachine
      <4> QED
        BY <2>2, <2>3, <3>1, <4>1 DEF Content, Read
    <3> QED
      BY <2>2, <3>1, <3>2 DEF Source
  <2>7. ASSUME NEW b, NEW d, Holds(g, b, d), Borrowed(b) \subseteq held \ {r}  PROVE Holds(h, b, d)
    <3>1. Source(g, b, d) /\ {r} \subseteq TempRegs /\ {r} \cap Borrowed(b) = {}
      BY <1>4, <2>2, <2>7 DEF Holds
    <3>2. Source(h, b, d)
      BY <2>1, <2>3, <3>1, SourceStays
    <3> QED
      BY <3>2 DEF Holds
  <2>8. ASSUME NEW y, CanRead(g, L, y)  PROVE CanRead(h, L, y)
    BY <1>2, <1>4, <2>3, <2>8 DEF CanRead, Readable, Touches
  <2> QED
    BY <1>2, <2>5, <2>6, <2>7, <2>8 DEF Works, Holds
<1> QED
  BY <1>3, <1>4

(* An instruction without a result.                                        *)
Passive(m, n) ==
  IsMachine(m) => IsMachine(n) /\ n.sp = m.sp /\ n.reg = m.reg /\ n.mem = m.mem

LEMMA PassiveWorks ==
  ASSUME NEW g, NEW held, NEW D, NEW L, NEW ins,
         NEW h, h = Emit(g, ins), Works(g, held, D, L), Passive(g.m, Execute(g.m, ins))
  PROVE  /\ Works(h, held, D, L) /\ h.failed = g.failed /\ h.m = Execute(g.m, ins)
         /\ \A b, d : Holds(g, b, d) => Holds(h, b, d)
         /\ \A A, B : Apart(g, A, B) => Apart(h, A, B)
<1>1. Sound(g, held, D)
  BY DEF Works
<1>2. Sound(h, held, D) /\ h.failed = g.failed /\ h.rVal = g.rVal
  BY <1>1, EmitSound
<1>3. h.m = Execute(g.m, ins) /\ h.offset = g.offset /\ h.sp = g.sp
  BY <1>1, EmitFields DEF Sound
<1>4. CASE g.failed
  BY <1>2, <1>3, <1>4 DEF Works, Holds, Apart
<1>5. CASE ~g.failed
  <2>1. Reading(g, L)
    BY <1>5 DEF Works
  <2>2. IsMachine(h.m) /\ h.m.sp = g.m.sp /\ h.m.reg = g.m.reg /\ h.m.mem = g.m.mem
    BY <1>3, <2>1 DEF Passive, Reading, LeftKept
  <2>3. Reading(h, L)
    BY <1>2, <1>3, <2>1, <2>2 DEF Reading, LeftKept, RightKept, InPlace, Sound
  <2>4. ASSUME NEW b, NEW d, Holds(g, b, d)  PROVE Holds(h, b, d)
    BY <1>5, <2>2, <2>4 DEF Holds, Source, Content
  <2> QED
    BY <1>2, <1>3, <2>3, <2>4 DEF Works, Apart
<1> QED
  BY <1>4, <1>5

LEMMA ChangesPassive ==
  ASSUME NEW m, NEW c
  PROVE  /\ Passive(m, [m EXCEPT !.flags = c]) /\ Passive(m, [m EXCEPT !.used = c])
         /\ IsMachine(m) => [m EXCEPT !.flags = c].flags = c /\ [m EXCEPT !.used = c].used = c
  BY DEF Passive, IsMachine

-----------------------------------------------------------------------------
(* The index of an element.                                                *)
LEMMA ReadElementWorks ==
  ASSUME NEW g, NEW held, NEW D, NEW L, NEW x,
         NEW a, a = ReadElementIndex(g, x),
         Works(g, held, D, L), CanRead(g, L, x)
  PROVE  /\ Works(a.g, held \cup Borrowed(a), D, L)
         /\ Apart(a.g, Borrowed(a), held) /\ (g.failed => a.g.failed)
         /\ Holds(a.g, a, Meaning(x))
         /\ \A b, c : Holds(g, b, c) /\ Borrowed(b) \subseteq held => Holds(a.g, b, c)
         /\ \A y : CanRead(g, L, y) /\ (y = x => y \notin RValues) => CanRead(a.g, L, y)
<1>1. CASE x = Small
  <2> DEFINE t == AllocTempRegister(g)
             k == t.g
             r == t.reg
             h == ReleaseTempRegister(k, r)
  <2>1. a.g = h /\ a.src = Imm(Val(x)) /\ a.free = FALSE
    BY <1>1 DEF ReadElementIndex
  <2>2. /\ Works(k, held \cup {r}, D, L)
        /\ Apart(k, {r}, held) /\ (g.failed => k.failed)
        /\ \A b, c : Holds(g, b, c) => Holds(k, b, c)
        /\ \A y : CanRead(g, L, y) => CanRead(k, L, y)
    BY AllocWorks
  <2> HIDE DEF t, k, r
  <2>3. /\ Works(h, held, D, L) /\ h.failed = k.failed
        /\ \A b, c : Holds(k, b, c) => Holds(h, b, c)
        /\ \A y : CanRead(k, L, y) => CanRead(h, L, y)
    BY <2>2, ReleaseWorks
  <2> HIDE DEF h
  <2>4. Borrowed(a) = {} /\ held \cup Borrowed(a) = held
    BY <2>1 DEF Borrowed
  <2>5. Holds(h, a, Meaning(x))
    <3>1. Meaning(x) = Val(x)
      BY <1>1, ValuesAssumption DEF Meaning
    <3> QED
      BY <2>1, <3>1 DEF Holds, Source, Content, Imm
  <2> QED
    BY <2>1, <2>2, <2>3, <2>4, <2>5 DEF Apart
<1>2. CASE x # Small
  <2>1. a = ReadRegister(g, x, x \notin Numbers)
    BY <1>2 DEF ReadElementIndex, ReadIndex
  <2> QED
    BY <2>1, ReadWorks
<1> QED
  BY <1>1, <1>2

-----------------------------------------------------------------------------
(* The instruction that makes the result.                                  *)
LEMMA MakesMove ==
  ASSUME NEW g, NEW a, NEW c, g.failed \/ Content(g.m, a) = c
  PROVE  g.failed \/ Makes(g, Move(Result, a), c)
<1>1. \A r : [Move(Result, a) EXCEPT !.rd = r] = Move(r, a)
  BY DEF Move
<1> QED
  BY <1>1, ExecMove DEF Makes

LEMMA MakesLdr ==
  ASSUME NEW g, NEW n, NEW c, g.failed \/ Read(g.m.mem, g.m.sp + n) = c
  PROVE  g.failed \/ Makes(g, Ldr(Result, Imm(Offset(n))), c)
<1>1. \A r : [Ldr(Result, Imm(Offset(n))) EXCEPT !.rd = r] = Ldr(r, Imm(Offset(n)))
  BY DEF Ldr
<1>2. Content(g.m, Imm(Offset(n))) = Offset(n)
  BY DEF Content, Imm
<1> QED
  BY <1>1, <1>2, ExecLdr DEF Makes

LEMMA MakesSetIf ==
  ASSUME NEW g, NEW cond, NEW a, NEW b, g.failed \/ g.m.flags = <<a, b>>
  PROVE  g.failed \/ Makes(g, SetIf(Result, cond), <<cond, a, b>>)
<1>1. \A r : [SetIf(Result, cond) EXCEPT !.rd = r] = SetIf(r, cond)
  BY DEF SetIf
<1>2. <<cond>> \o <<a, b>> = <<cond, a, b>>
  BY Prefixed2
<1>3. \A r : g.m.flags = <<a, b>> => Execute(g.m, SetIf(r, cond)) = SetReg(g.m, r, <<cond, a, b>>)
  BY <1>2, ExecSetIf
<1> QED
  BY <1>1, <1>3 DEF Makes

LEMMA MakesCompute1 ==
  ASSUME NEW g, NEW f, NEW a, NEW c, Holds(g, a, c)
  PROVE  g.failed \/ Makes(g, Compute(Result, f, <<a.src>>), <<f, c>>)
<1>1. \A r : [Compute(Result, f, <<a.src>>) EXCEPT !.rd = r] = Compute(r, f, <<a.src>>)
  BY DEF Compute
<1> QED
  BY <1>1, ExecCompute1 DEF Makes, Holds, Source

LEMMA MakesCompute2 ==
  ASSUME NEW g, NEW f, NEW a, NEW c, NEW b, NEW d, Holds(g, a, c), Holds(g, b, d)
  PROVE  g.failed \/ Makes(g, Compute(Result, f, <<a.src, b.src>>), <<f, c, d>>)
<1>1. \A r : [Compute(Result, f, <<a.src, b.src>>) EXCEPT !.rd = r] = Compute(r, f, <<a.src, b.src>>)
  BY DEF Compute
<1> QED
  BY <1>1, ExecCompute2 DEF Makes, Holds, Source

LEMMA MakesCompute3 ==
  ASSUME NEW g, NEW f, NEW a, NEW x, NEW b, NEW y, NEW c, NEW z,
         Holds(g, a, x), Holds(g, b, y), Holds(g, c, z)
  PROVE  g.failed \/ Makes(g, Compute(Result, f, <<a.src, b.src, c.src>>), <<f, x, y, z>>)
<1>1. \A r : [Compute(Result, f, <<a.src, b.src, c.src>>) EXCEPT !.rd = r]
               = Compute(r, f, <<a.src, b.src, c.src>>)
  BY DEF Compute
<1> QED
  BY <1>1, ExecCompute3 DEF Makes, Holds, Source

LEMMA ProduceWorks ==
  ASSUME NEW g, NEW held, NEW D, NEW L, NEW v, NEW instruction, NEW term,
         NEW p, p = Produce(g, v, instruction),
         Works(g, held, D, L), g.failed \/ Makes(g, instruction, term),
         v \in LValues \ ToSet(Params) \/ v \in RValues \ D
  PROVE  Sound(p, held, D \cup {v}) /\ (p.failed \/ Ready(p, v, term, L))
<1>1. v \in LValues \/ v \notin D
  OBVIOUS
<1>2. Sound(p, held, D \cup {v}) /\ (g.failed => p.failed)
  BY <1>1, ProduceSound DEF Works
<1>3. CASE p.failed
  BY <1>2, <1>3
<1>4. CASE ~p.failed
  <2>1. Sound(g, held, D) /\ Reading(g, L) /\ Makes(g, instruction, term)
    BY <1>2, <1>4 DEF Works
  <2> QED
    BY <1>2, <1>4, <2>1, ProduceRight
<1> QED
  BY <1>3, <1>4

(* An instruction without a result leaves everything where it is.          *)
LEMMA NothingReady ==
  ASSUME NEW g, NEW L, NEW term, Reading(g, L)
  PROVE  Ready(g, Nothing, term, L)
<1>1. Nothing \notin LValues /\ Nothing \notin RValues
  BY ValuesAssumption DEF Nothing
<1> QED
  BY <1>1 DEF Reading, LeftKept, RightKept, Ready

-----------------------------------------------------------------------------
(* The next instruction finds everything in its place again.               *)
LEMMA GenFields ==
  /\ IsGen(Gen) /\ Gen.pool = tempRegPool /\ Gen.rVal = rValRegMap /\ Gen.offset = var2offset
  /\ Gen.sp = stackPointer /\ Gen.m = machine /\ Gen.failed = FALSE
  BY DEF Gen, IsGen

LEMMA GenReads ==
  ASSUME ValInv, pc = "block"
  PROVE  Reading(Gen, live)
  BY GenFields DEF ValInv, Reading

LEMMA GenWorks ==
  ASSUME IInv, ~exhausted, ValInv, pc = "block"
  PROVE  /\ Works(Gen, {}, DOMAIN rValRegMap, live)
         /\ \A x \in Operands : CanRead(Gen, live, x)
         /\ \A x \in Values \cup Numbers : x \in Operands
<1>1. Works(Gen, {}, DOMAIN rValRegMap, live)
  BY GenSound, GenReads DEF Works
<1>2. \A x \in Operands : CanRead(Gen, live, x)
  BY GenFields DEF CanRead, Readable, Operands, Values
<1> QED
  BY <1>1, <1>2 DEF Operands

LEMMA ResultKind ==
  ASSUME NEW operands, NEW v \in Results(operands)
  PROVE  v \in LValues \ ToSet(Params) \/ v \in RValues \ DOMAIN rValRegMap
<1>1. CASE v \in LValues \ ToSet(Params)
  BY <1>1
<1>2. CASE ~(RValues \subseteq DOMAIN rValRegMap) /\ v = NewRValue
  <2>1. \E r \in RValues : r \notin DOMAIN rValRegMap
    BY <1>2
  <2> QED
    BY <1>2, <2>1 DEF NewRValue
<1> QED
  BY <1>1, <1>2 DEF Results

LEMMA DoneRight ==
  ASSUME NEW g, NEW D, NEW v, NEW term, NEW kind, NEW wanted, NEW alive,
         Sound(g, {}, D), Ready(g, v, term, alive), ~g.failed,
         Done(g, v, term, kind, wanted, alive), pc' = "block"
  PROVE  ValInv'
<1> DEFINE left == Left(alive, v)
           n == Settle(g.m, g, v, term, Defined(g, alive, v))
<1>1. /\ rValRegMap' = g.rVal /\ var2offset' = g.offset /\ stackPointer' = g.sp
      /\ live' = left /\ machine' = n
  BY DEF Done, Left, Defined
<1>3. AtRest(n, g.offset, left) /\ Waiting(n, g.rVal)
  BY AllSettled
<1> HIDE DEF n
<1>4. DOMAIN g.rVal \subseteq RValues /\ Slots(g.offset, g.sp) /\ left \subseteq LValues
  BY DEF Ready, Left
<1> HIDE DEF left
<1>5. /\ Gen'.rVal = g.rVal /\ Gen'.offset = g.offset /\ Gen'.sp = g.sp /\ Gen'.m = n
  BY <1>1 DEF Gen
<1>6. LeftKept(Gen', live')
  BY <1>1, <1>3, <1>4, <1>5 DEF LeftKept, AtRest
<1>7. RightKept(Gen')
  BY <1>3, <1>5 DEF RightKept, Waiting
<1> QED
  BY <1>1, <1>3, <1>4, <1>6, <1>7 DEF ValInv, AtRest

LEMMA ObservedKind ==
  ASSUME NEW kind, NEW got, NEW wanted
  PROVE  /\ Observed(kind, got, wanted).kind \in {"none", kind}
         /\ got = wanted => Observed(kind, got, wanted).kind = "none"
  BY DEF Observed, None

LEMMA FlagsKept ==
  ASSUME FlagInv, UNCHANGED <<pc, true_cmp, cmp_op, branchOn, compared>>,
         effect'.kind = "none" \/ UNCHANGED effect
  PROVE  FlagInv'
  BY DEF FlagInv, Opposite

LEMMA MadeRight ==
  ASSUME CodeInv, ~exhausted', pc = "block",
         NEW D, NEW v, NEW term, NEW p, Sound(p, {}, D),
         p.failed \/ Ready(p, v, term, live), Made(p, v, term)
  PROVE  CodeInv'
<1>1. /\ Done(p, v, term, "none", <<>>, live)
      /\ UNCHANGED <<pc, true_cmp, cmp_op, branchOn, compared>>
  BY DEF Made
<1>2. ~p.failed /\ effect'.kind = "none"
  BY <1>1, ObservedKind DEF Done
<1>3. ValInv'
  BY <1>1, <1>2, DoneRight
<1>4. FlagInv'
  BY <1>1, <1>2, FlagsKept DEF CodeInv
<1> QED
  BY <1>3, <1>4 DEF CodeInv

LEMMA ProducedRight ==
  ASSUME CodeInv, ~exhausted', pc = "block",
         NEW g, NEW v, NEW instruction, NEW term, NEW operands, v \in Results(operands),
         Works(g, {}, DOMAIN rValRegMap, live), g.failed \/ Makes(g, instruction, term),
         Made(Produce(g, v, instruction), v, term)
  PROVE  CodeInv'
<1> DEFINE p == Produce(g, v, instruction)
<1>1. Sound(p, {}, DOMAIN rValRegMap \cup {v}) /\ (p.failed \/ Ready(p, v, term, live))
  BY ResultKind, ProduceWorks
<1> HIDE DEF p
<1> QED
  BY <1>1, MadeRight DEF p

-----------------------------------------------------------------------------
(* The operands of an instruction, read one after the other.               *)
LEMMA OneRight ==
  ASSUME NEW g, NEW D, NEW L, NEW x, NEW regRequired, Works(g, {}, D, L), CanRead(g, L, x),
         NEW a, a = ReadRegister(g, x, regRequired), NEW h, h = Free(a.g, a)
  PROVE  Works(h, {}, D, L) /\ Holds(h, a, Meaning(x))
<1>1. /\ Works(a.g, {} \cup Borrowed(a), D, L)
      /\ Apart(a.g, Borrowed(a), {}) /\ Holds(a.g, a, Meaning(x))
  BY ReadWorks
<1> QED
  BY <1>1, FreeWorks

LEMMA FirstRight ==
  ASSUME NEW g, NEW D, NEW L, NEW x, NEW regRequired, Works(g, {}, D, L), CanRead(g, L, x),
         NEW a, a = ReadRegister(g, x, regRequired)
  PROVE  /\ Works(a.g, Borrowed(a), D, L) /\ Holds(a.g, a, Meaning(x))
         /\ \A y : CanRead(g, L, y) /\ (y = x => y \notin RValues) => CanRead(a.g, L, y)
<1>1. {} \cup Borrowed(a) = Borrowed(a)
  OBVIOUS
<1>2. /\ Works(a.g, {} \cup Borrowed(a), D, L) /\ Holds(a.g, a, Meaning(x))
      /\ \A y : CanRead(g, L, y) /\ (y = x => y \notin RValues) => CanRead(a.g, L, y)
  BY ReadWorks
<1> QED
  BY <1>1, <1>2

LEMMA TwoRight ==
  ASSUME NEW g, NEW D, NEW L, NEW x, NEW y, NEW p, NEW q, Works(g, {}, D, L),
         CanRead(g, L, x), CanRead(g, L, y), y = x => y \notin RValues,
         NEW a, a = ReadRegister(g, x, p), NEW b, b = ReadRegister(a.g, y, q)
  PROVE  /\ Works(b.g, Borrowed(a) \cup Borrowed(b), D, L)
         /\ Apart(b.g, Borrowed(b), Borrowed(a))
         /\ Holds(b.g, a, Meaning(x)) /\ Holds(b.g, b, Meaning(y))
         /\ \A z : CanRead(g, L, z) /\ (z = x => z \notin RValues) /\ (z = y => z \notin RValues)
                     => CanRead(b.g, L, z)
<1>1. /\ Works(a.g, Borrowed(a), D, L) /\ Holds(a.g, a, Meaning(x))
      /\ \A z : CanRead(g, L, z) /\ (z = x => z \notin RValues) => CanRead(a.g, L, z)
  BY FirstRight
<1>2. CanRead(a.g, L, y)
  BY <1>1
<1>3. /\ Works(b.g, Borrowed(a) \cup Borrowed(b), D, L)
      /\ Apart(b.g, Borrowed(b), Borrowed(a))
      /\ Holds(b.g, b, Meaning(y))
      /\ \A d, c : Holds(a.g, d, c) /\ Borrowed(d) \subseteq Borrowed(a) => Holds(b.g, d, c)
      /\ \A z : CanRead(a.g, L, z) /\ (z = y => z \notin RValues) => CanRead(b.g, L, z)
  <2> DEFINE k == a.g
             held == Borrowed(a)
  <2>1. b = ReadRegister(k, y, q) /\ Works(k, held, D, L) /\ CanRead(k, L, y)
    BY <1>1, <1>2
  <2> HIDE DEF k, held
  <2>2. /\ Works(b.g, held \cup Borrowed(b), D, L)
        /\ Apart(b.g, Borrowed(b), held)
        /\ Holds(b.g, b, Meaning(y))
        /\ \A d, c : Holds(k, d, c) /\ Borrowed(d) \subseteq held => Holds(b.g, d, c)
        /\ \A z : CanRead(k, L, z) /\ (z = y => z \notin RValues) => CanRead(b.g, L, z)
    BY <2>1, ReadWorks
  <2> QED
    BY <2>2 DEF k, held
<1> QED
  BY <1>1, <1>3

LEMMA FreeTwoRight ==
  ASSUME NEW g, NEW D, NEW L, NEW a, NEW b,
         Works(g, Borrowed(a) \cup Borrowed(b), D, L), Apart(g, Borrowed(b), Borrowed(a)),
         NEW k, k = Free(g, b), NEW h, h = Free(k, a)
  PROVE  /\ Works(h, {}, D, L) /\ h.failed = g.failed /\ h.m = g.m
         /\ \A d, c : Holds(g, d, c) => Holds(h, d, c)
         /\ \A y : CanRead(g, L, y) => CanRead(h, L, y)
<1>1. /\ Works(k, Borrowed(a), D, L) /\ k.failed = g.failed /\ k.m = g.m
      /\ \A d, c : Holds(g, d, c) => Holds(k, d, c)
      /\ \A y : CanRead(g, L, y) => CanRead(k, L, y)
  BY FreeWorks
<1>2. Works(k, {} \cup Borrowed(a), D, L) /\ Apart(k, Borrowed(a), {})
  <2>1. {} \cup Borrowed(a) = Borrowed(a)
    OBVIOUS
  <2> QED
    BY <1>1, <2>1 DEF Apart
<1>3. /\ Works(h, {}, D, L) /\ h.failed = k.failed /\ h.m = k.m
      /\ \A d, c : Holds(k, d, c) => Holds(h, d, c)
      /\ \A y : CanRead(k, L, y) => CanRead(h, L, y)
  BY <1>2, FreeWorks
<1> QED
  BY <1>1, <1>3

LEMMA PairsRead ==
  ASSUME NEW p \in Pairs
  PROVE  p[1] \in Operands /\ p[2] \in Operands /\ (p[2] = p[1] => p[2] \notin RValues)
  BY DEF Pairs

-----------------------------------------------------------------------------
(* The gen functions, one after the other.                                 *)
LEMMA NegateRight ==
  ASSUME IInv, CodeInv, ~exhausted, ~exhausted', Negate
  PROVE  CodeInv'
<1> DEFINE D == DOMAIN rValRegMap
<1>1. PICK x \in Operands : \E v \in Results({x}) :
          LET a == ReadRegister(Gen, x, TRUE)
              neg == Compute(Result, "neg", <<a.src>>)
          IN  Made(Produce(Free(a.g, a), v, neg), v, <<"neg", Meaning(x)>>)
  BY DEF Negate
<1>2. PICK v \in Results({x}) :
          LET a == ReadRegister(Gen, x, TRUE)
              neg == Compute(Result, "neg", <<a.src>>)
          IN  Made(Produce(Free(a.g, a), v, neg), v, <<"neg", Meaning(x)>>)
  BY <1>1
<1> DEFINE a == ReadRegister(Gen, x, TRUE)
           g == Free(a.g, a)
           neg == Compute(Result, "neg", <<a.src>>)
           term == <<"neg", Meaning(x)>>
<1>3. pc = "block" /\ Made(Produce(g, v, neg), v, term)
  BY <1>2 DEF Negate
<1>4. Works(Gen, {}, D, live) /\ CanRead(Gen, live, x)
  BY <1>3, GenWorks DEF CodeInv
<1>5. Works(g, {}, D, live) /\ Holds(g, a, Meaning(x))
  BY <1>4, OneRight
<1> HIDE DEF a, g
<1>6. g.failed \/ Makes(g, neg, term)
  BY <1>5, MakesCompute1
<1> HIDE DEF neg, term
<1> QED
  BY <1>3, <1>5, <1>6, ProducedRight

LEMMA NotRight ==
  ASSUME IInv, CodeInv, ~exhausted, ~exhausted', Not
  PROVE  CodeInv'
<1> DEFINE D == DOMAIN rValRegMap
<1>1. PICK x \in Operands : \E v \in Results({x}) :
          LET a == ReadRegister(Gen, x, TRUE)
              setIf == SetIf(Result, "EQ")
              g == Emit(Free(a.g, a), Compare(a.src, Imm(Val(Zero))))
          IN  Made(Produce(g, v, setIf), v, <<"EQ", Meaning(x), Val(Zero)>>)
  BY DEF Not
<1>2. PICK v \in Results({x}) :
          LET a == ReadRegister(Gen, x, TRUE)
              setIf == SetIf(Result, "EQ")
              g == Emit(Free(a.g, a), Compare(a.src, Imm(Val(Zero))))
          IN  Made(Produce(g, v, setIf), v, <<"EQ", Meaning(x), Val(Zero)>>)
  BY <1>1
<1> DEFINE a == ReadRegister(Gen, x, TRUE)
           f == Free(a.g, a)
           compare == Compare(a.src, Imm(Val(Zero)))
           g == Emit(f, compare)
           setIf == SetIf(Result, "EQ")
           term == <<"EQ", Meaning(x), Val(Zero)>>
<1>3. pc = "block" /\ Made(Produce(g, v, setIf), v, term)
  BY <1>2 DEF Not
<1>4. Works(Gen, {}, D, live) /\ CanRead(Gen, live, x)
  BY <1>3, GenWorks DEF CodeInv
<1>5. Works(f, {}, D, live) /\ Holds(f, a, Meaning(x))
  BY <1>4, OneRight
<1> HIDE DEF a, f
<1> DEFINE c == <<Content(f.m, a.src), Content(f.m, Imm(Val(Zero)))>>
           n == [f.m EXCEPT !.flags = c]
<1>6. Execute(f.m, compare) = n /\ Passive(f.m, n) /\ (IsMachine(f.m) => n.flags = c)
  BY ExecCompare, ChangesPassive
<1>7. f.failed \/ c = <<Meaning(x), Val(Zero)>>
  BY <1>5 DEF Holds, Source, Content, Imm
<1>8. f.failed \/ IsMachine(f.m)
  BY <1>5 DEF Works, Reading, LeftKept
<1> HIDE DEF c, n, compare
<1>9. Works(g, {}, D, live) /\ g.failed = f.failed /\ g.m = n
  BY <1>5, <1>6, PassiveWorks
<1>10. g.failed \/ g.m.flags = <<Meaning(x), Val(Zero)>>
  BY <1>6, <1>7, <1>8, <1>9
<1> HIDE DEF g
<1>11. g.failed \/ Makes(g, setIf, term)
  BY <1>10, MakesSetIf
<1> HIDE DEF setIf, term
<1> QED
  BY <1>3, <1>9, <1>11, ProducedRight

LEMMA PhiMovRight ==
  ASSUME IInv, CodeInv, ~exhausted, ~exhausted', PhiMov
  PROVE  CodeInv'
<1> DEFINE D == DOMAIN rValRegMap
<1>1. PICK x \in Operands : \E v \in Results({x}) \cap LValues :
          LET a == ReadRegister(Gen, x, TRUE)
              mov == Move(Result, a.src)
          IN  pc = "block" /\ Made(Produce(Free(a.g, a), v, mov), v, Meaning(x))
  BY DEF PhiMov
<1>2. PICK v \in Results({x}) :
          LET a == ReadRegister(Gen, x, TRUE)
              mov == Move(Result, a.src)
          IN  pc = "block" /\ Made(Produce(Free(a.g, a), v, mov), v, Meaning(x))
  BY <1>1
<1> DEFINE a == ReadRegister(Gen, x, TRUE)
           g == Free(a.g, a)
           mov == Move(Result, a.src)
           term == Meaning(x)
<1>3. pc = "block" /\ Made(Produce(g, v, mov), v, term)
  BY <1>2
<1>4. Works(Gen, {}, D, live) /\ CanRead(Gen, live, x)
  BY <1>3, GenWorks DEF CodeInv
<1>5. Works(g, {}, D, live) /\ Holds(g, a, term)
  BY <1>4, OneRight
<1> HIDE DEF a, g, term
<1>6. g.failed \/ Makes(g, mov, term)
  BY <1>5, MakesMove DEF Holds, Source
<1> HIDE DEF mov
<1> QED
  BY <1>3, <1>5, <1>6, ProducedRight

LEMMA ArithmeticRight ==
  ASSUME IInv, CodeInv, ~exhausted, ~exhausted', Arithmetic
  PROVE  CodeInv'
<1> DEFINE D == DOMAIN rValRegMap
<1>1. PICK p \in Pairs, f \in {"add", "mul"} : \E v \in Results({p[1], p[2]}) :
          LET a == ReadRegister(Gen, p[1], TRUE)
              b == ReadRegister(a.g, p[2], f = "mul")
              ins == Compute(Result, f, <<a.src, b.src>>)
          IN  /\ pc = "block"
              /\ Made(Produce(Free(Free(b.g, b), a), v, ins), v, <<f, Meaning(p[1]), Meaning(p[2])>>)
  BY DEF Arithmetic
<1> DEFINE a == ReadRegister(Gen, p[1], TRUE)
           b == ReadRegister(a.g, p[2], f = "mul")
           ins == Compute(Result, f, <<a.src, b.src>>)
           j == b.g
           k == Free(j, b)
           g == Free(k, a)
           term == <<f, Meaning(p[1]), Meaning(p[2])>>
<1>2. PICK v \in Results({p[1], p[2]}) : pc = "block" /\ Made(Produce(g, v, ins), v, term)
  BY <1>1
<1>3. /\ Works(Gen, {}, D, live) /\ CanRead(Gen, live, p[1]) /\ CanRead(Gen, live, p[2])
      /\ p[2] = p[1] => p[2] \notin RValues
  BY <1>2, GenWorks, PairsRead DEF CodeInv
<1>4. /\ Works(b.g, Borrowed(a) \cup Borrowed(b), D, live)
      /\ Apart(b.g, Borrowed(b), Borrowed(a))
      /\ Holds(b.g, a, Meaning(p[1])) /\ Holds(b.g, b, Meaning(p[2]))
  BY <1>3, TwoRight
<1>7. /\ Works(j, Borrowed(a) \cup Borrowed(b), D, live)
      /\ Apart(j, Borrowed(b), Borrowed(a))
      /\ Holds(j, a, Meaning(p[1])) /\ Holds(j, b, Meaning(p[2]))
      /\ k = Free(j, b) /\ g = Free(k, a)
  BY <1>4
<1> HIDE DEF a, b, j, k, g
<1>5. Works(g, {}, D, live) /\ Holds(g, a, Meaning(p[1])) /\ Holds(g, b, Meaning(p[2]))
  BY <1>7, FreeTwoRight
<1>6. g.failed \/ Makes(g, ins, term)
  BY <1>5, MakesCompute2
<1> HIDE DEF ins, term
<1> QED
  BY <1>2, <1>5, <1>6, ProducedRight DEF g, k, j

-----------------------------------------------------------------------------
(* Where the result is does not depend on the registers that are free.     *)
LEMMA ReadySame ==
  ASSUME NEW g, NEW h, NEW v, NEW term, NEW L, Ready(g, v, term, L),
         IsGen(h), SameFrame(g, h), h.rVal = g.rVal
  PROVE  Ready(h, v, term, L)
  BY DEF Ready, SameFrame

LEMMA PhiRight ==
  ASSUME IInv, CodeInv, ~exhausted, ~exhausted', Phi
  PROVE  CodeInv'
<1> DEFINE D == DOMAIN rValRegMap
<1>1. PICK x \in live : \E v \in Results({x}) \cap LValues :
          LET a == ReadRegister(Gen, x, TRUE)
              mov == Move(Result, a.src)
          IN  pc = "block" /\ Made(Free(Produce(a.g, v, mov), a), v, Meaning(x))
  BY DEF Phi
<1> DEFINE a == ReadRegister(Gen, x, TRUE)
           mov == Move(Result, a.src)
           term == Meaning(x)
<1>2. PICK v \in Results({x}) : pc = "block" /\ Made(Free(Produce(a.g, v, mov), a), v, term)
  BY <1>1
<1> DEFINE k == a.g
           p == Produce(k, v, mov)
           h == Free(p, a)
<1>3. Works(Gen, {}, D, live) /\ CanRead(Gen, live, x)
  BY <1>2, GenWorks DEF CodeInv, Operands, Values
<1>4. Works(k, Borrowed(a), D, live) /\ Holds(k, a, term)
  BY <1>3, FirstRight
<1>5. pc = "block" /\ Made(h, v, term) /\ p = Produce(k, v, mov) /\ h = Free(p, a)
  BY <1>2
<1> HIDE DEF a, k, term, p, h
<1>6. k.failed \/ Makes(k, mov, term)
  BY <1>4, MakesMove DEF Holds, Source
<1> HIDE DEF mov
<1>7. Sound(p, Borrowed(a), D \cup {v}) /\ (p.failed \/ Ready(p, v, term, live))
  BY <1>4, <1>5, <1>6, ResultKind, ProduceWorks
<1>8. Sound(h, {}, D \cup {v}) /\ h.failed = p.failed
  <2>1. Sound(p, {} \cup Borrowed(a), D \cup {v}) /\ Apart(p, Borrowed(a), {})
    <3>1. {} \cup Borrowed(a) = Borrowed(a) /\ Borrowed(a) \cap {} = {}
      OBVIOUS
    <3> QED
      BY <1>7, <3>1 DEF Apart
  <2> QED
    BY <1>5, <2>1, FreeSound
<1>9. IsGen(p) /\ IsGen(h) /\ SameFrame(p, h) /\ h.rVal = p.rVal
  BY <1>5, <1>7, FreeFields DEF Sound
<1>10. h.failed \/ Ready(h, v, term, live)
  BY <1>7, <1>8, <1>9, ReadySame
<1> QED
  BY <1>5, <1>8, <1>10, MadeRight

(* A register is asked for, and an instruction puts c into it.             *)
Puts(g, ins, r, c) == g.failed \/ Execute(g.m, ins) = SetReg(g.m, r, c)

(* What has been read, and what can be read, stays so.                     *)
Keeping(g, h, held, L) ==
  /\ g.failed => h.failed
  /\ \A b, d : Holds(g, b, d) /\ Borrowed(b) \subseteq held => Holds(h, b, d)
  /\ \A y : CanRead(g, L, y) => CanRead(h, L, y)
  /\ \A A, B : Apart(g, A, B) => Apart(h, A, B)

LEMMA IntoWorks ==
  ASSUME NEW g, NEW held, NEW D, NEW L, Works(g, held, D, L),
         NEW k, k = AllocTempRegister(g).g, NEW r, r = AllocTempRegister(g).reg,
         NEW ins, NEW c, Puts(k, ins, r, c), NEW h, h = Emit(k, ins)
  PROVE  /\ Works(h, held \cup {r}, D, L) /\ Apart(h, {r}, held)
         /\ Holds(h, Lent(r), c) /\ Keeping(g, h, held, L)
<1> DEFINE all == held \cup {r}
<1>1. /\ Works(k, all, D, L)
      /\ Apart(k, {r}, held) /\ (g.failed => k.failed)
      /\ \A b, c1 : Holds(g, b, c1) => Holds(k, b, c1)
      /\ \A y : CanRead(g, L, y) => CanRead(k, L, y)
  BY AllocWorks
<1>2. r \in all /\ h = Emit(k, ins) /\ (k.failed \/ Execute(k.m, ins) = SetReg(k.m, r, c))
  BY DEF Puts
<1>3. \A b : Borrowed(b) \subseteq held /\ {r} \cap held = {} => Borrowed(b) \subseteq all \ {r}
  OBVIOUS
<1> HIDE DEF all
<1>4. /\ Works(h, all, D, L) /\ h.failed = k.failed
      /\ Holds(h, Lent(r), c)
      /\ \A b, d : Holds(k, b, d) /\ Borrowed(b) \subseteq all \ {r} => Holds(h, b, d)
      /\ \A y : CanRead(k, L, y) => CanRead(h, L, y)
  BY <1>1, <1>2, EmitWorks
<1>5. ASSUME NEW b, NEW d, Holds(g, b, d), Borrowed(b) \subseteq held
      PROVE  Holds(h, b, d)
  <2>1. CASE h.failed
    BY <2>1 DEF Holds
  <2>2. CASE ~h.failed
    BY <1>1, <1>3, <1>4, <1>5, <2>2 DEF Apart
  <2> QED
    BY <2>1, <2>2
<1>6. Apart(h, {r}, held) /\ \A A, B : Apart(g, A, B) => Apart(h, A, B)
  BY <1>1, <1>4 DEF Apart
<1> QED
  BY <1>1, <1>4, <1>5, <1>6 DEF all, Keeping

LEMMA ComputeInto ==
  ASSUME NEW g, NEW a, NEW b, NEW x, NEW y, NEW f, NEW r, Holds(g, a, x), Holds(g, b, y)
  PROVE  Puts(g, Compute(r, f, <<a.src, b.src>>), r, <<f, x, y>>)
  BY ExecCompute2 DEF Puts, Holds, Source

LEMMA RemainderRight ==
  ASSUME IInv, CodeInv, ~exhausted, ~exhausted', Remainder
  PROVE  CodeInv'
<1> DEFINE D == DOMAIN rValRegMap
<1>1. PICK p \in Pairs : \E v \in Results({p[1], p[2]}) :
          /\ pc = "block"
          /\ Made(RemainderCode(p, v), v,
                  <<"mls", <<"div", Meaning(p[1]), Meaning(p[2])>>, Meaning(p[2]), Meaning(p[1])>>)
  BY DEF Remainder
<1> DEFINE x == Meaning(p[1])
           y == Meaning(p[2])
           term == <<"mls", <<"div", x, y>>, y, x>>
<1>2. PICK v \in Results({p[1], p[2]}) : pc = "block" /\ Made(RemainderCode(p, v), v, term)
  BY <1>1
<1> DEFINE a == ReadRegister(Gen, p[1], TRUE)
           b == ReadRegister(a.g, p[2], TRUE)
           j == b.g
           o == AllocTempRegister(j).g
           q == AllocTempRegister(j).reg
           div == Compute(q, "div", <<a.src, b.src>>)
           e == Emit(o, div)
           r == ReleaseTempRegister(e, q)
           k == Free(r, b)
           g == Free(k, a)
           mls == Compute(Result, "mls", <<Lent(q).src, b.src, a.src>>)
           both == Borrowed(a) \cup Borrowed(b)
<1>3. /\ Works(Gen, {}, D, live) /\ CanRead(Gen, live, p[1]) /\ CanRead(Gen, live, p[2])
      /\ p[2] = p[1] => p[2] \notin RValues
  BY <1>2, GenWorks, PairsRead DEF CodeInv
<1>4. /\ Works(b.g, Borrowed(a) \cup Borrowed(b), D, live)
      /\ Apart(b.g, Borrowed(b), Borrowed(a))
      /\ Holds(b.g, a, Meaning(p[1])) /\ Holds(b.g, b, Meaning(p[2]))
  BY <1>3, TwoRight
<1>5. RemainderCode(p, v) = Produce(g, v, mls)
  BY LentFacts DEF RemainderCode
<1>6. /\ Works(j, both, D, live) /\ Apart(j, Borrowed(b), Borrowed(a))
      /\ Holds(j, a, x) /\ Holds(j, b, y)
      /\ Borrowed(a) \subseteq both /\ Borrowed(b) \subseteq both
      /\ o = AllocTempRegister(j).g /\ q = AllocTempRegister(j).reg
      /\ e = Emit(o, div) /\ r = ReleaseTempRegister(e, q)
      /\ k = Free(r, b) /\ g = Free(k, a)
  BY <1>4
<1> HIDE DEF a, b, j, k, g, e, r, x, y
<1>7. Puts(o, div, q, <<"div", x, y>>)
  <2>1. Holds(o, a, x) /\ Holds(o, b, y)
    BY <1>6, AllocWorks
  <2> QED
    BY <2>1, ComputeInto
<1> HIDE DEF o, q, div, both
<1>8. /\ Works(e, both \cup {q}, D, live) /\ Apart(e, {q}, both)
      /\ Holds(e, Lent(q), <<"div", x, y>>)
      /\ Holds(e, a, x) /\ Holds(e, b, y) /\ Apart(e, Borrowed(b), Borrowed(a))
  <2>1. /\ Works(e, both \cup {q}, D, live) /\ Apart(e, {q}, both)
        /\ Holds(e, Lent(q), <<"div", x, y>>) /\ Keeping(j, e, both, live)
    BY <1>6, <1>7, IntoWorks
  <2> QED
    BY <1>6, <2>1 DEF Keeping
<1>9. /\ Works(r, both, D, live) /\ Apart(r, Borrowed(b), Borrowed(a))
      /\ Holds(r, Lent(q), <<"div", x, y>>) /\ Holds(r, a, x) /\ Holds(r, b, y)
  <2>1. /\ Works(r, both, D, live)
        /\ \A d, c : Holds(e, d, c) => Holds(r, d, c)
        /\ \A A, B : Apart(e, A, B) => Apart(r, A, B)
    BY <1>6, <1>8, ReleaseWorks
  <2> QED
    BY <1>8, <2>1
<1>10. /\ Works(g, {}, D, live)
       /\ Holds(g, Lent(q), <<"div", x, y>>) /\ Holds(g, a, x) /\ Holds(g, b, y)
  BY <1>6, <1>9, FreeTwoRight DEF both
<1>11. g.failed \/ Makes(g, mls, term)
  BY <1>10, MakesCompute3
<1> HIDE DEF mls, term
<1> QED
  BY <1>2, <1>5, <1>10, <1>11, ProducedRight

-----------------------------------------------------------------------------
(* Comparisons, and the branches on them.                                  *)
LEMMA PairRight ==
  ASSUME IInv, ValInv, ~exhausted, pc = "block", NEW p \in Pairs, NEW q, NEW r
  PROVE  LET a == ReadRegister(Gen, p[1], q)
             b == ReadRegister(a.g, p[2], r)
         IN  /\ Works(b.g, Borrowed(a) \cup Borrowed(b), DOMAIN rValRegMap, live)
             /\ Apart(b.g, Borrowed(b), Borrowed(a))
             /\ Holds(b.g, a, Meaning(p[1])) /\ Holds(b.g, b, Meaning(p[2]))
<1> DEFINE D == DOMAIN rValRegMap
           a == ReadRegister(Gen, p[1], q)
           b == ReadRegister(a.g, p[2], r)
           x == p[1]
           y == p[2]
<1>1. /\ Works(Gen, {}, D, live) /\ CanRead(Gen, live, x) /\ CanRead(Gen, live, y)
      /\ y = x => y \notin RValues
      /\ a = ReadRegister(Gen, x, q) /\ b = ReadRegister(a.g, y, r)
  BY GenWorks, PairsRead
<1> HIDE DEF a, b, x, y, D
<1>2. /\ Works(b.g, Borrowed(a) \cup Borrowed(b), D, live)
      /\ Apart(b.g, Borrowed(b), Borrowed(a))
      /\ Holds(b.g, a, Meaning(x)) /\ Holds(b.g, b, Meaning(y))
  BY <1>1, TwoRight
<1> QED
  BY <1>2 DEF x, y, a, b, D

LEMMA ReadForgets ==
  ASSUME NEW g, NEW held, NEW D, NEW L, NEW x, NEW regRequired,
         NEW a, a = ReadRegister(g, x, regRequired), Works(g, held, D, L), CanRead(g, L, x)
  PROVE  (g.failed => a.g.failed) /\ (a.g.failed \/ DOMAIN a.g.rVal \subseteq DOMAIN g.rVal \ {x})
<1>1. Sound(g, held, D)
  BY DEF Works
<1>2. g.failed => a.g.failed
  BY <1>1, ReadSound
<1>3. CASE ~a.g.failed
  <2>1. Reading(g, L) /\ x \in Readable(g, L)
    BY <1>2, <1>3 DEF Works, CanRead
  <2>2. DOMAIN a.g.rVal = DOMAIN g.rVal \ {x}
    BY <1>1, <1>3, <2>1, ReadRight
  <2> QED
    BY <1>2, <2>2
<1> QED
  BY <1>2, <1>3

(* The flags are what the two operands stand for.                          *)
Flags(g, x, y) == g.failed \/ g.m.flags = <<x, y>>
(* The same for an operand, and which right values wait.                   *)
Is(g, src, c) == g.failed \/ Content(g.m, src) = c
Waits(g, some) == g.failed \/ DOMAIN g.rVal \subseteq some

LEMMA CompareWorks ==
  ASSUME NEW g, NEW held, NEW D, NEW L, Works(g, held, D, L),
         NEW a, NEW x, NEW b, NEW y, Is(g, a, x), Is(g, b, y),
         NEW h, h = Emit(g, Compare(a, b))
  PROVE  /\ Works(h, held, D, L) /\ h.failed = g.failed /\ h.rVal = g.rVal /\ Flags(h, x, y)
         /\ \A d, c : Holds(g, d, c) => Holds(h, d, c)
         /\ \A A, B : Apart(g, A, B) => Apart(h, A, B)
<1> DEFINE cmp == Compare(a, b)
           f == <<Content(g.m, a), Content(g.m, b)>>
           n == [g.m EXCEPT !.flags = f]
<1>1. Execute(g.m, cmp) = n
  BY ExecCompare
<1>2. Passive(g.m, n) /\ (IsMachine(g.m) => n.flags = f)
  BY ChangesPassive
<1>3. g.failed \/ f = <<x, y>>
  BY DEF Is
<1>4. IsGen(g) /\ (g.failed \/ IsMachine(g.m))
  BY DEF Works, Sound, Reading, LeftKept
<1> HIDE DEF cmp, f, n
<1>5. h = Emit(g, cmp)
  BY DEF cmp
<1>6. /\ Works(h, held, D, L) /\ h.failed = g.failed /\ h.m = n
      /\ \A d, c : Holds(g, d, c) => Holds(h, d, c)
      /\ \A A, B : Apart(g, A, B) => Apart(h, A, B)
  BY <1>1, <1>2, <1>5, PassiveWorks
<1>7. h.rVal = g.rVal
  BY <1>4, <1>5, EmitFields DEF SamePool
<1> QED
  BY <1>2, <1>3, <1>4, <1>6, <1>7 DEF Flags

LEMMA FreeTwoWaits ==
  ASSUME NEW c, NEW a, NEW b, NEW some, IsGen(c), Waits(c, some),
         NEW k, k = Free(c, b), NEW g, g = Free(k, a)
  PROVE  Waits(g, some)
<1>1. IsGen(k) /\ k.rVal = c.rVal /\ k.failed = c.failed
  BY FreeFields
<1>2. g.rVal = k.rVal /\ g.failed = k.failed
  BY <1>1, FreeFields
<1> QED
  BY <1>1, <1>2 DEF Waits

LEMMA TwoForgotten ==
  ASSUME NEW g, NEW D, NEW L, NEW x, NEW y, NEW p, NEW q, Works(g, {}, D, L),
         CanRead(g, L, x), CanRead(g, L, y), y = x => y \notin RValues, NEW some,
         DOMAIN g.rVal \subseteq some \cup {x, y},
         NEW a, a = ReadRegister(g, x, p), NEW b, b = ReadRegister(a.g, y, q)
  PROVE  Waits(b.g, some)
<1> DEFINE f == a.g
<1>1. /\ Works(f, Borrowed(a), D, L) /\ CanRead(f, L, y) /\ b = ReadRegister(f, y, q)
  BY FirstRight
<1>2. f.failed \/ DOMAIN f.rVal \subseteq DOMAIN g.rVal \ {x}
  BY ReadForgets
<1> HIDE DEF f
<1>3. (f.failed => b.g.failed) /\ (b.g.failed \/ DOMAIN b.g.rVal \subseteq DOMAIN f.rVal \ {y})
  BY <1>1, ReadForgets
<1> QED
  BY <1>2, <1>3 DEF Waits

(* A comparison of two operands, which are then released.                  *)
LEMMA ComparedRight ==
  ASSUME IInv, ValInv, ~exhausted, pc = "block", NEW p \in Pairs, NEW some,
         DOMAIN rValRegMap \subseteq some \cup {p[1], p[2]}
  PROVE  LET a == ReadRegister(Gen, p[1], TRUE)
             b == ReadRegister(a.g, p[2], FALSE)
             g == Free(Free(Emit(b.g, Compare(a.src, b.src)), b), a)
         IN  /\ Works(g, {}, DOMAIN rValRegMap, live)
             /\ Flags(g, Meaning(p[1]), Meaning(p[2])) /\ Waits(g, some)
<1> DEFINE D == DOMAIN rValRegMap
           a == ReadRegister(Gen, p[1], TRUE)
           b == ReadRegister(a.g, p[2], FALSE)
           both == Borrowed(a) \cup Borrowed(b)
           j == b.g
           x == Meaning(p[1])
           y == Meaning(p[2])
           e == Emit(j, Compare(a.src, b.src))
           h == Free(e, b)
           i == Free(h, a)
<1>1. /\ Works(Gen, {}, D, live) /\ CanRead(Gen, live, p[1]) /\ CanRead(Gen, live, p[2])
      /\ p[2] = p[1] => p[2] \notin RValues
  BY GenWorks, PairsRead
<1>2. /\ Works(b.g, Borrowed(a) \cup Borrowed(b), D, live)
      /\ Apart(b.g, Borrowed(b), Borrowed(a))
      /\ Holds(b.g, a, Meaning(p[1])) /\ Holds(b.g, b, Meaning(p[2]))
  BY PairRight
<1>3. Waits(b.g, some)
  <2>1. DOMAIN Gen.rVal \subseteq some \cup {p[1], p[2]}
    BY GenFields
  <2> QED
    BY <1>1, <2>1, TwoForgotten
<1>4. /\ Works(j, both, D, live) /\ Apart(j, Borrowed(b), Borrowed(a)) /\ Waits(j, some)
      /\ Is(j, a.src, x) /\ Is(j, b.src, y)
      /\ e = Emit(j, Compare(a.src, b.src)) /\ h = Free(e, b) /\ i = Free(h, a)
  BY <1>2, <1>3 DEF Holds, Source, Is
<1> HIDE DEF a, b, both, j, x, y, e, h, i
<1>5. /\ Works(e, both, D, live) /\ e.failed = j.failed /\ e.rVal = j.rVal /\ Flags(e, x, y)
      /\ Apart(e, Borrowed(b), Borrowed(a))
  <2> DEFINE r == a.src
             s == b.src
  <2>1. e = Emit(j, Compare(r, s)) /\ Is(j, r, x) /\ Is(j, s, y)
    BY <1>4
  <2> HIDE DEF r, s
  <2>2. /\ Works(e, both, D, live) /\ e.failed = j.failed /\ e.rVal = j.rVal /\ Flags(e, x, y)
        /\ \A A, B : Apart(j, A, B) => Apart(e, A, B)
    BY <1>4, <2>1, CompareWorks
  <2> QED
    BY <1>4, <2>2
<1>6. /\ Works(i, {}, D, live) /\ i.failed = e.failed /\ i.m = e.m
  BY <1>4, <1>5, FreeTwoRight DEF both
<1>7. Waits(e, some) /\ IsGen(e)
  BY <1>4, <1>5 DEF Waits, Works, Sound
<1>8. Waits(i, some)
  BY <1>4, <1>7, FreeTwoWaits
<1>9. Flags(i, x, y)
  BY <1>5, <1>6 DEF Flags
<1> QED
  BY <1>6, <1>8, <1>9 DEF x, y, i, h, e, j, a, b

LEMMA CompareValueRight ==
  ASSUME IInv, CodeInv, ~exhausted, ~exhausted', CompareValue
  PROVE  CodeInv'
<1> DEFINE D == DOMAIN rValRegMap
<1>1. PICK p \in Pairs, cond \in Comparisons : \E v \in Results({p[1], p[2]}) :
          /\ pc = "block" /\ compared' = TRUE /\ UNCHANGED <<pc, true_cmp, branchOn>>
          /\ Done(CmpCode(p, v, cond, true_cmp), v, <<cond, Meaning(p[1]), Meaning(p[2])>>,
                  "none", <<>>, live)
  BY DEF CompareValue
<1> DEFINE a == ReadRegister(Gen, p[1], TRUE)
           b == ReadRegister(a.g, p[2], FALSE)
           c == Emit(b.g, Compare(a.src, b.src))
           k == Free(c, b)
           g == Free(k, a)
           setIf == SetIf(Result, cond)
           term == <<cond, Meaning(p[1]), Meaning(p[2])>>
<1>2. PICK v \in Results({p[1], p[2]}) : Done(CmpCode(p, v, cond, true_cmp), v, term, "none", <<>>, live)
  BY <1>1
<1>3. true_cmp = FALSE
  BY <1>1 DEF CodeInv, FlagInv
<1> DEFINE q == Produce(g, v, setIf)
<1>4. CmpCode(p, v, cond, true_cmp) = q
  BY <1>3 DEF CmpCode
<1>5. /\ Works(g, {}, D, live)
      /\ Flags(g, Meaning(p[1]), Meaning(p[2]))
  BY <1>1, ComparedRight DEF CodeInv
<1> HIDE DEF a, b, c, k, g
<1>6. g.failed \/ Makes(g, setIf, term)
  BY <1>5, MakesSetIf DEF Flags
<1> HIDE DEF setIf, term
<1>7. Sound(q, {}, D \cup {v}) /\ (q.failed \/ Ready(q, v, term, live))
  BY <1>5, <1>6, ResultKind, ProduceWorks
<1> HIDE DEF q
<1>8. ~q.failed /\ effect'.kind = "none" /\ Done(q, v, term, "none", <<>>, live)
  BY <1>2, <1>4, ObservedKind DEF Done
<1>9. ValInv'
  BY <1>1, <1>7, <1>8, DoneRight
<1>10. FlagInv'
  BY <1>1, <1>8 DEF CodeInv, FlagInv, Opposite
<1> QED
  BY <1>9, <1>10 DEF CodeInv

LEMMA JmpRight ==
  ASSUME IInv, CodeInv, ~exhausted, ~exhausted', Jmp
  PROVE  CodeInv'
<1>1. pc = "block" /\ Done(Gen, Nothing, <<>>, "none", <<>>, live)
  BY DEF Jmp
<1>2. Sound(Gen, {}, DOMAIN rValRegMap) /\ Ready(Gen, Nothing, <<>>, live) /\ ~Gen.failed
  BY <1>1, GenSound, GenReads, GenFields, NothingReady DEF CodeInv
<1>3. ValInv'
  BY <1>1, <1>2, DoneRight DEF Jmp
<1>4. FlagInv'
  BY <1>1, ObservedKind DEF CodeInv, FlagInv, Jmp, Done, Opposite
<1> QED
  BY <1>3, <1>4 DEF CodeInv

LEMMA KeepLast ==
  ASSUME NEW g, NEW D, NEW L, NEW v, NEW r, Works(g, {r}, D, L), v \notin D
  PROVE  Sound(Keep(g, v, r), {}, D \cup {v}) /\ Keep(g, v, r).failed = g.failed
<1> DEFINE none == {}
<1>1. v \notin DOMAIN g.rVal /\ Sound(g, none \cup {r}, D) /\ Apart(g, {r}, none)
  BY DEF Works, Sound, Apart
<1> HIDE DEF none
<1>2. Sound(Keep(g, v, r), none, D \cup {v}) /\ Keep(g, v, r).failed = g.failed
  BY <1>1, KeepSound
<1> QED
  BY <1>2 DEF none

(* The comparison is in the flags, its register contains nothing yet.      *)
LEMMA CmpRight ==
  ASSUME IInv, CodeInv, ~exhausted, ~exhausted', Cmp
  PROVE  CodeInv'
<1> DEFINE r == NewRValue
           D == DOMAIN rValRegMap
<1>1. PICK p \in Pairs, cond \in Comparisons :
        LET g == CmpCode(p, r, cond, TRUE)
            flags == IF g.m.flags = <<Meaning(p[1]), Meaning(p[2])>> THEN <<Val(r)>> ELSE <<Junk>>
        IN  /\ pc = "block"
            /\ ~(RValues \subseteq D) /\ D \subseteq {p[1], p[2]}
            /\ pc' = "compared" /\ true_cmp' = TRUE /\ cmp_op' = Opposite[cond] /\ branchOn' = cond
            /\ rValRegMap' = g.rVal
            /\ exhausted' = (exhausted \/ g.failed)
            /\ machine' = [Settle(g.m, g, r, <<>>, live) EXCEPT !.flags = flags]
            /\ effect' = None
            /\ UNCHANGED <<var2offset, stackPointer, compared, live>>
  BY DEF Cmp
<1>2. r \in RValues \ D /\ r \notin LValues /\ r \notin DOMAIN variableRegs
  <2>1. \E x \in RValues : x \notin D
    BY <1>1
  <2>2. r \in RValues \ D
    BY <2>1 DEF NewRValue
  <2> QED
    BY <2>2, Kinds, RegsOf
<1> HIDE DEF r
<1> DEFINE a == ReadRegister(Gen, p[1], TRUE)
           b == ReadRegister(a.g, p[2], FALSE)
           f == Free(Free(Emit(b.g, Compare(a.src, b.src)), b), a)
           k == AllocTempRegister(f).g
           q == AllocTempRegister(f).reg
           code == Keep(k, r, q)
           x == Meaning(p[1])
           y == Meaning(p[2])
           flags == IF code.m.flags = <<x, y>> THEN <<Val(r)>> ELSE <<Junk>>
           n == Settle(code.m, code, r, <<>>, live)
<1>3. CmpCode(p, r, cond, TRUE) = code
  BY <1>2 DEF CmpCode, WriteRegister
<1>4. Works(f, {}, D, live) /\ Flags(f, x, y) /\ Waits(f, {})
  <2>1. D \subseteq {} \cup {p[1], p[2]}
    BY <1>1
  <2> QED
    BY <1>1, <2>1, ComparedRight DEF CodeInv
<1>5. /\ machine' = [n EXCEPT !.flags = flags] /\ rValRegMap' = code.rVal
      /\ exhausted' = (exhausted \/ code.failed) /\ code = Keep(k, r, q)
      /\ k = AllocTempRegister(f).g /\ q = AllocTempRegister(f).reg
  BY <1>1, <1>3, Zenon
<1> HIDE DEF a, b, f, k, q, code, x, y, D
<1>6. Works(k, {} \cup {q}, D, live) /\ (k.failed \/ q \in TempRegs)
  BY <1>4, <1>5, AllocWorks
<1>7. Sound(code, {}, D \cup {r}) /\ code.failed = k.failed
  <2>1. Works(k, {q}, D, live)
    <3>1. {} \cup {q} = {q}
      OBVIOUS
    <3> QED
      BY <1>6, <3>1
  <2>2. Sound(Keep(k, r, q), {}, D \cup {r}) /\ Keep(k, r, q).failed = k.failed
    BY <1>2, <2>1, KeepLast
  <2> QED
    BY <1>5, <2>2
<1>8. ~code.failed /\ ~k.failed /\ Reading(k, live) /\ q \in TempRegs
  BY <1>5, <1>6, <1>7 DEF Works
<1>9. /\ ~f.failed /\ SameFrame(f, k) /\ k.rVal = f.rVal
  BY <1>4, <1>5, <1>8, AllocFields DEF Works
<1>10. /\ IsGen(code) /\ SameFrame(k, code)
       /\ DOMAIN code.rVal = DOMAIN k.rVal \cup {r}
       /\ \A w \in DOMAIN code.rVal : code.rVal[w] = IF w = r THEN q ELSE k.rVal[w]
  BY <1>5, <1>6, KeepFields DEF Works, Sound
<1>11. DOMAIN code.rVal = {r} /\ r \in DOMAIN code.rVal /\ code.rVal[r] = q
  BY <1>4, <1>9, <1>10 DEF Waits
<1> DEFINE made == code.m.reg[q]
<1>12. Ready(code, r, made, live)
  <2>1. Touches(k, code, {q})
    BY <1>8, <1>10 DEF Touches, SameFrame, Reading, LeftKept
  <2>2. DOMAIN code.rVal \subseteq DOMAIN k.rVal \cup ({r} \cap RValues)
    BY <1>2, <1>11
  <2>3. \A w \in DOMAIN code.rVal \ {r} : code.rVal[w] = k.rVal[w] /\ code.rVal[w] \in TempRegs \ {q}
    BY <1>11
  <2> HIDE DEF made
  <2> QED
    BY <1>8, <1>10, <1>11, <2>1, <2>2, <2>3, ReadyInRegister DEF made
<1>13. live \subseteq LValues
  BY <1>8 DEF Reading, LeftKept
<1>14. Left(live, r) = live
  BY <1>2, <1>13 DEF Left
<1>15. AtRest(n, code.offset, live)
  <2>1. /\ Left(live, r) \subseteq live /\ (made = <<>> \/ r \notin LValues)
        /\ n = Settle(code.m, code, r, <<>>, live)
    BY <1>2, <1>14
  <2> HIDE DEF made, n
  <2>2. AtRest(n, code.offset, Left(live, r))
    BY <1>7, <1>8, <1>12, <2>1, SettleRight
  <2> QED
    BY <1>14, <2>2
<1>16. code.offset = var2offset
  BY <1>8, <1>10 DEF SameFrame, Reading
<1>17. flags = <<Val(r)>>
  BY <1>4, <1>9, <1>10 DEF Flags, SameFrame
<1> HIDE DEF n, flags, made
<1>18. /\ IsMachine(machine') /\ machine'.sp = 0 /\ machine'.reg = n.reg /\ machine'.mem = n.mem
       /\ machine'.flags = flags
  <2>1. Passive(n, machine') /\ (IsMachine(n) => machine'.flags = flags)
    BY <1>5, ChangesPassive
  <2> QED
    BY <1>15, <2>1 DEF Passive, AtRest
<1>19. LeftKept(Gen', live')
  <2>1. Slots(var2offset, stackPointer)
    BY <1>1, GenFields DEF CodeInv, ValInv, LeftKept
  <2>2. machine'.mem[ReturnSlot] = ReturnAddress /\ \A v \in live : InPlace(machine', var2offset, v)
    BY <1>15, <1>16, <1>18 DEF AtRest, InPlace
  <2>3. Gen'.m = machine' /\ Gen'.offset = var2offset /\ Gen'.sp = stackPointer /\ live' = live
    BY <1>1 DEF Gen
  <2> QED
    BY <1>13, <1>18, <2>1, <2>2, <2>3 DEF LeftKept
<1>20. ValInv'
  BY <1>1, <1>2, <1>5, <1>11, <1>17, <1>18, <1>19 DEF ValInv
<1>21. FlagInv'
  BY <1>1, ValuesAssumption DEF CodeInv, FlagInv, Opposite, None
<1> QED
  BY <1>20, <1>21 DEF CodeInv

(* A branch puts its condition before what has been compared.              *)
LEMMA BranchWorks ==
  ASSUME NEW g, NEW held, NEW D, NEW L, Works(g, held, D, L), NEW cond,
         NEW h, h = Emit(g, Branch(cond))
  PROVE  /\ Works(h, held, D, L) /\ h.failed = g.failed
         /\ h.failed \/ h.m.used = <<cond>> \o g.m.flags
         /\ \A A, B : Apart(g, A, B) => Apart(h, A, B)
<1> DEFINE ins == Branch(cond)
           u == <<cond>> \o g.m.flags
           n == [g.m EXCEPT !.used = u]
<1>1. Execute(g.m, ins) = n
  BY ExecBranch
<1>2. Passive(g.m, n) /\ (IsMachine(g.m) => n.used = u)
  BY ChangesPassive
<1>3. g.failed \/ IsMachine(g.m)
  BY DEF Works, Reading, LeftKept
<1> HIDE DEF u, n
<1>4. h = Emit(g, ins)
  OBVIOUS
<1> HIDE DEF ins
<1>5. /\ Works(h, held, D, L) /\ h.failed = g.failed /\ h.m = n
      /\ \A A, B : Apart(g, A, B) => Apart(h, A, B)
  BY <1>1, <1>2, <1>4, PassiveWorks
<1> QED
  BY <1>2, <1>3, <1>5 DEF u

(* What the branch reads is released.                                      *)
LEMMA FreeLast ==
  ASSUME NEW g, NEW D, NEW L, NEW a, Works(g, Borrowed(a), D, L), NEW h, h = Free(g, a)
  PROVE  Works(h, {}, D, L) /\ h.failed = g.failed /\ h.m = g.m
<1>1. {} \cup Borrowed(a) = Borrowed(a) /\ Apart(g, Borrowed(a), {})
  BY DEF Apart
<1>2. Works(g, {} \cup Borrowed(a), D, L)
  BY <1>1
<1> QED
  BY <1>1, <1>2, FreeWorks

(* The branch is done: nothing has been made.                              *)
LEMMA BranchedRight ==
  ASSUME CodeInv, ~exhausted', NEW g, NEW D, NEW wanted, Works(g, {}, D, live),
         Done(g, Nothing, <<>>, "branch", wanted, live),
         pc' = "block", true_cmp' = FALSE, cmp_op' = NON,
         ~Hoisting => g.failed \/ g.m.used = wanted
  PROVE  CodeInv'
<1>1. ~g.failed /\ effect' = Observed("branch", g.m.used, wanted)
  BY DEF Done
<1>2. Sound(g, {}, D) /\ Ready(g, Nothing, <<>>, live)
  BY <1>1, NothingReady DEF Works
<1>3. ValInv'
  BY <1>1, <1>2, DoneRight
<1>4. FlagInv'
  BY <1>1, ObservedKind DEF FlagInv
<1> QED
  BY <1>3, <1>4 DEF CodeInv

LEMMA BrRight ==
  ASSUME IInv, CodeInv, ~exhausted, ~exhausted', Br
  PROVE  CodeInv'
<1> DEFINE D == DOMAIN rValRegMap
<1>1. PICK v \in Operands :
        LET a == ReadRegister(Gen, v, TRUE)
            tested == IF true_cmp THEN a.g ELSE Emit(a.g, Compare(a.src, Imm(Val(Zero))))
            g == Free(Emit(tested, Branch(IF cmp_op = NON THEN "EQ" ELSE cmp_op)), a)
        IN  /\ D \subseteq {v}
            /\ IF pc = "compared" THEN v \in D ELSE pc = "block" /\ ~compared
            /\ pc' = "block" /\ true_cmp' = FALSE /\ cmp_op' = AfterBranch
            /\ Done(g, Nothing, <<>>, "branch",
                    IF pc = "compared" THEN <<Opposite[branchOn], Val(v)>>
                    ELSE <<"EQ", Meaning(v), Val(Zero)>>, live)
  BY DEF Br
<1> DEFINE a == ReadRegister(Gen, v, TRUE)
           cond == IF cmp_op = NON THEN "EQ" ELSE cmp_op
           f == a.g
<1>2. cmp_op' = NON /\ pc' = "block" /\ true_cmp' = FALSE
  BY <1>1 DEF AfterBranch
<1>3. CASE pc = "compared"
  <2> DEFINE e == Emit(f, Branch(cond))
             g == Free(e, a)
             wanted == <<Opposite[branchOn], Val(v)>>
  <2>1. v \in D /\ Done(g, Nothing, <<>>, "branch", wanted, live)
    BY <1>1, <1>3 DEF CodeInv, FlagInv
  <2>2. /\ LeftKept(Gen, live) /\ machine.sp = 0 /\ D \subseteq RValues
        /\ D = {v} /\ machine.flags = <<Val(v)>>
    BY <1>1, <1>3, <2>1 DEF CodeInv, ValInv
  <2>3. cond = Opposite[branchOn]
    BY <1>3 DEF CodeInv, FlagInv, Opposite, NON
  <2>4. f = Forget(Gen, v)
    BY <2>1, GenFields DEF ReadRegister
  <2>5. /\ IsGen(f) /\ SameFrame(Gen, f) /\ DOMAIN f.rVal \subseteq D \ {v}
    <3> DEFINE h == Forget(Gen, v)
    <3>1. IsGen(h) /\ SameFrame(Gen, h) /\ DOMAIN h.rVal = DOMAIN Gen.rVal \ {v}
      BY GenFields, ForgetFields
    <3> HIDE DEF h
    <3> QED
      BY <2>4, <3>1, GenFields DEF h
  <2>6. f.m.flags = <<Val(v)>> /\ f.m = machine
    BY <2>2, <2>5, GenFields DEF SameFrame
  <2>7. Reading(f, live)
    BY <2>2, <2>5, <2>6, GenFields DEF Reading, LeftKept, RightKept, SameFrame
  <2>8. Works(f, Borrowed(a), D, live)
    <3>1. Sound(f, {} \cup Borrowed(a), D)
      BY GenSound, ReadSound
    <3>2. {} \cup Borrowed(a) = Borrowed(a)
      OBVIOUS
    <3> QED
      BY <2>7, <3>1, <3>2 DEF Works
  <2>9. e = Emit(f, Branch(cond)) /\ g = Free(e, a)
    OBVIOUS
  <2> HIDE DEF a, f, e, g, cond, D
  <2>10. /\ Works(e, Borrowed(a), D, live) /\ (e.failed \/ e.m.used = <<cond>> \o f.m.flags)
    BY <2>8, <2>9, BranchWorks
  <2>11. Works(g, {}, D, live) /\ g.failed = e.failed /\ g.m = e.m
    BY <2>9, <2>10, FreeLast
  <2>12. <<cond>> \o f.m.flags = wanted
    BY <2>3, <2>6, Prefixed1
  <2>13. g.failed \/ g.m.used = wanted
    BY <2>10, <2>11, <2>12
  <2> HIDE DEF wanted
  <2> QED
    BY <1>2, <2>1, <2>11, <2>13, BranchedRight
<1>4. CASE pc # "compared"
  <2> DEFINE zero == Imm(Val(Zero))
             c == Emit(f, Compare(a.src, zero))
             e == Emit(c, Branch(cond))
             g == Free(e, a)
             wanted == <<"EQ", Meaning(v), Val(Zero)>>
  <2>1. /\ pc = "block" /\ ~compared /\ Done(g, Nothing, <<>>, "branch", wanted, live)
    BY <1>1, <1>4 DEF CodeInv, FlagInv
  <2>2. Hoisting \/ cond = "EQ"
    BY <1>4, <2>1 DEF CodeInv, FlagInv
  <2>3. Works(f, Borrowed(a), D, live) /\ Holds(f, a, Meaning(v))
    <3>1. Works(Gen, {}, D, live) /\ CanRead(Gen, live, v)
      BY <2>1, GenWorks DEF CodeInv
    <3> QED
      BY <3>1, FirstRight
  <2>4. Is(f, a.src, Meaning(v)) /\ Is(f, zero, Val(Zero))
    BY <2>3 DEF Is, Holds, Source, Content, Imm
  <2> DEFINE s == a.src
             x == Meaning(v)
             z == Val(Zero)
  <2>5. /\ c = Emit(f, Compare(s, zero)) /\ Is(f, s, x) /\ Is(f, zero, z)
        /\ e = Emit(c, Branch(cond)) /\ g = Free(e, a)
    BY <2>4
  <2> HIDE DEF a, f, c, e, g, cond, D, zero, s, x, z
  <2>6. Works(c, Borrowed(a), D, live) /\ Flags(c, x, z)
    BY <2>3, <2>5, CompareWorks
  <2>7. /\ Works(e, Borrowed(a), D, live) /\ (e.failed \/ e.m.used = <<cond>> \o c.m.flags)
        /\ e.failed = c.failed
    BY <2>5, <2>6, BranchWorks
  <2>8. Works(g, {}, D, live) /\ g.failed = e.failed /\ g.m = e.m
    BY <2>5, <2>7, FreeLast
  <2>9. ~Hoisting => <<cond>> \o <<x, z>> = wanted
    BY <2>2, Prefixed2 DEF x, z
  <2>10. ~Hoisting => g.failed \/ g.m.used = wanted
    BY <2>6, <2>7, <2>8, <2>9 DEF Flags
  <2> HIDE DEF wanted
  <2> QED
    BY <1>2, <2>1, <2>8, <2>10, BranchedRight
<1> QED
  BY <1>3, <1>4

-----------------------------------------------------------------------------
(* A local array.                                                          *)
LEMMA AllocRight ==
  ASSUME IInv, CodeInv, ~exhausted, ~exhausted', Alloc
  PROVE  CodeInv'
<1> DEFINE offset == With(var2offset, Array, stackPointer)
           g == [Gen EXCEPT !.sp = @ + 1, !.offset = With(@, Array, stackPointer)]
<1>1. pc = "block" /\ Array \notin DOMAIN var2offset /\ Made(g, Nothing, <<>>)
  BY DEF Alloc
<1>2. Reading(Gen, live) /\ Slots(var2offset, stackPointer)
  BY <1>1, GenReads, GenFields DEF CodeInv, Reading, LeftKept
<1>3. /\ Slots(offset, stackPointer + 1)
      /\ \A w \in DOMAIN var2offset : w \in DOMAIN offset /\ offset[w] = var2offset[w]
  <2>1. LET new == With(var2offset, Array, stackPointer)
        IN  /\ Slots(new, stackPointer + 1)
            /\ DOMAIN new = DOMAIN var2offset \cup {Array}
            /\ \A w \in DOMAIN var2offset : new[w] = var2offset[w]
    BY <1>1, <1>2, NewSlot
  <2> QED
    BY <2>1
<1>4. Sound(Gen, {}, DOMAIN rValRegMap)
  BY GenSound
<1>5. g = Placed(Gen, Gen.sp + 1, offset)
  BY GenFields DEF Placed
<1> HIDE DEF offset
<1>6. Sound(g, {}, DOMAIN rValRegMap)
  BY <1>4, <1>5, PlaceSound
<1>7. g.m = machine /\ g.offset = offset /\ g.sp = stackPointer + 1 /\ g.rVal = rValRegMap
  BY <1>5 DEF Gen, Placed
<1> HIDE DEF g
<1>8. \A v \in live : InPlace(g.m, g.offset, v)
  BY <1>2, <1>3, <1>7, GenFields DEF Reading, LeftKept, InPlace
<1>9. Nothing \notin LValues /\ Nothing \notin RValues
  BY ValuesAssumption DEF Nothing
<1>10. Ready(g, Nothing, <<>>, live)
  BY <1>2, <1>3, <1>6, <1>7, <1>8, <1>9, GenFields DEF Reading, LeftKept, RightKept, Ready, Sound
<1> QED
  BY <1>1, <1>6, <1>10, MadeRight

-----------------------------------------------------------------------------
(* Loads and stores of elements.                                           *)
Elements(g, x, y, D, L) ==
  LET base == ReadRegister(g, x, TRUE)
      off == ReadElementIndex(base.g, y)
  IN  /\ Works(off.g, Borrowed(base) \cup Borrowed(off), D, L)
      /\ Apart(off.g, Borrowed(off), Borrowed(base))
      /\ Holds(off.g, base, Meaning(x)) /\ Holds(off.g, off, Meaning(y))

LEMMA ElementWorks ==
  ASSUME NEW g, NEW D, NEW L, NEW x, NEW y, Works(g, {}, D, L),
         CanRead(g, L, x), CanRead(g, L, y), y = x => y \notin RValues
  PROVE  Elements(g, x, y, D, L)
<1> DEFINE base == ReadRegister(g, x, TRUE)
           k == base.g
           off == ReadElementIndex(k, y)
           held == Borrowed(base)
<1>1. /\ Works(k, held, D, L) /\ Holds(k, base, Meaning(x)) /\ CanRead(k, L, y)
      /\ off = ReadElementIndex(k, y) /\ Borrowed(base) \subseteq held
  BY FirstRight
<1> HIDE DEF base, k, off, held
<1>2. /\ Works(off.g, held \cup Borrowed(off), D, L)
      /\ Apart(off.g, Borrowed(off), held)
      /\ Holds(off.g, off, Meaning(y))
      /\ \A d, c : Holds(k, d, c) /\ Borrowed(d) \subseteq held => Holds(off.g, d, c)
  BY <1>1, ReadElementWorks
<1>3. Holds(off.g, base, Meaning(x))
  BY <1>1, <1>2
<1> QED
  BY <1>2, <1>3 DEF Elements, base, k, off, held

LEMMA LoadElementRight ==
  ASSUME IInv, CodeInv, ~exhausted, ~exhausted', LoadElement
  PROVE  CodeInv'
<1> DEFINE D == DOMAIN rValRegMap
<1>1. PICK p \in Pairs : \E v \in Results({p[1], p[2]}) :
        /\ pc = "block" /\ p[1] # Array
        /\ LET base == ReadRegister(Gen, p[1], TRUE)
               off == ReadElementIndex(base.g, p[2])
               load == Compute(Result, "element", <<base.src, off.src>>)
           IN  Made(Produce(Free(Free(off.g, off), base), v, load), v, Element(Val(p[1]), p[2]))
  BY DEF LoadElement
<1> DEFINE a == ReadRegister(Gen, p[1], TRUE)
           b == ReadElementIndex(a.g, p[2])
           ins == Compute(Result, "element", <<a.src, b.src>>)
           j == b.g
           k == Free(j, b)
           g == Free(k, a)
           term == <<"element", Meaning(p[1]), Meaning(p[2])>>
<1>2. PICK v \in Results({p[1], p[2]}) : pc = "block" /\ Made(Produce(g, v, ins), v, term)
  BY <1>1 DEF Element, Meaning
<1>3. /\ Works(Gen, {}, D, live) /\ CanRead(Gen, live, p[1]) /\ CanRead(Gen, live, p[2])
      /\ p[2] = p[1] => p[2] \notin RValues
  BY <1>2, GenWorks, PairsRead DEF CodeInv
<1>4. Elements(Gen, p[1], p[2], D, live)
  <2> DEFINE x == p[1]
             y == p[2]
             E == D
  <2>1. /\ Works(Gen, {}, E, live) /\ CanRead(Gen, live, x) /\ CanRead(Gen, live, y)
        /\ y = x => y \notin RValues
    BY <1>3
  <2> HIDE DEF x, y, E
  <2>2. Elements(Gen, x, y, E, live)
    BY <2>1, ElementWorks
  <2> QED
    BY <2>2 DEF x, y, E
<1>5. /\ Works(j, Borrowed(a) \cup Borrowed(b), D, live)
      /\ Apart(j, Borrowed(b), Borrowed(a))
      /\ Holds(j, a, Meaning(p[1])) /\ Holds(j, b, Meaning(p[2]))
      /\ k = Free(j, b) /\ g = Free(k, a)
  BY <1>4 DEF Elements
<1> HIDE DEF a, b, j, k, g
<1>6. Works(g, {}, D, live) /\ Holds(g, a, Meaning(p[1])) /\ Holds(g, b, Meaning(p[2]))
  BY <1>5, FreeTwoRight
<1>7. g.failed \/ Makes(g, ins, term)
  BY <1>6, MakesCompute2
<1> HIDE DEF ins, term
<1> QED
  BY <1>2, <1>6, <1>7, ProducedRight DEF g, k, j

(* The address of an element of the local array.                           *)
LEMMA FreeLent ==
  ASSUME NEW g, NEW r
  PROVE  Free(g, Lent(r)) = ReleaseTempRegister(g, r)
  BY DEF Lent, Reg, Free

LEMMA IntoFirst ==
  ASSUME NEW g, NEW D, NEW L, Works(g, {}, D, L),
         NEW k, k = AllocTempRegister(g).g, NEW r, r = AllocTempRegister(g).reg,
         NEW ins, NEW c, Puts(k, ins, r, c), NEW h, h = Emit(k, ins)
  PROVE  /\ Works(h, Borrowed(Lent(r)), D, L) /\ Holds(h, Lent(r), c)
         /\ \A y : CanRead(g, L, y) => CanRead(h, L, y)
<1> DEFINE none == {}
<1>1. Works(g, none, D, L) /\ none \cup {r} = Borrowed(Lent(r))
  BY LentFacts
<1> HIDE DEF none
<1>2. Works(h, none \cup {r}, D, L) /\ Holds(h, Lent(r), c) /\ Keeping(g, h, none, L)
  BY <1>1, IntoWorks
<1> QED
  BY <1>1, <1>2 DEF Keeping

LEMMA IndexRight ==
  ASSUME NEW g, NEW D, NEW L, NEW i, NEW at, Works(g, {}, D, L), CanRead(g, L, i),
         NEW k, k = AllocTempRegister(g).g, NEW r, r = AllocTempRegister(g).reg,
         NEW e, e = Emit(k, Move(r, Imm(at))), NEW off, off = ReadIndex(e, i)
  PROVE  /\ Works(off.g, Borrowed(Lent(r)) \cup Borrowed(off), D, L)
         /\ Apart(off.g, Borrowed(off), Borrowed(Lent(r)))
         /\ Holds(off.g, Lent(r), at) /\ Holds(off.g, off, Meaning(i))
         /\ \A y : CanRead(g, L, y) /\ (y = i => y \notin RValues) => CanRead(off.g, L, y)
<1> DEFINE ins == Move(r, Imm(at))
           held == Borrowed(Lent(r))
<1>1. Puts(k, ins, r, at)
  BY ExecMove DEF Puts, Content, Imm
<1>2. e = Emit(k, ins)
  OBVIOUS
<1> HIDE DEF ins, held
<1>3. /\ Works(e, held, D, L) /\ Holds(e, Lent(r), at)
      /\ \A y : CanRead(g, L, y) => CanRead(e, L, y)
  BY <1>1, <1>2, IntoFirst DEF held
<1>4. off = ReadRegister(e, i, i \notin Numbers) /\ CanRead(e, L, i)
  BY <1>3 DEF ReadIndex
<1>5. /\ Works(off.g, held \cup Borrowed(off), D, L)
      /\ Apart(off.g, Borrowed(off), held)
      /\ Holds(off.g, off, Meaning(i))
      /\ \A b, c : Holds(e, b, c) /\ Borrowed(b) \subseteq held => Holds(off.g, b, c)
      /\ \A y : CanRead(e, L, y) /\ (y = i => y \notin RValues) => CanRead(off.g, L, y)
  BY <1>3, <1>4, ReadWorks
<1>6. Borrowed(Lent(r)) \subseteq held
  BY DEF held
<1> QED
  BY <1>3, <1>5, <1>6 DEF held

LEMMA LocalIndex ==
  ASSUME IInv, CodeInv, ~exhausted, pc = "block", NEW i \in Values \cup Numbers, NEW at
  PROVE  LET k == AllocTempRegister(Gen).g
             r == AllocTempRegister(Gen).reg
             off == ReadIndex(Emit(k, Move(r, Imm(at))), i)
         IN  /\ Works(off.g, Borrowed(Lent(r)) \cup Borrowed(off), DOMAIN rValRegMap, live)
             /\ Apart(off.g, Borrowed(off), Borrowed(Lent(r)))
             /\ Holds(off.g, Lent(r), at) /\ Holds(off.g, off, Meaning(i))
             /\ \A y \in Values \cup Numbers : (y = i => y \notin RValues) => CanRead(off.g, live, y)
<1> DEFINE D == DOMAIN rValRegMap
           k == AllocTempRegister(Gen).g
           r == AllocTempRegister(Gen).reg
           e == Emit(k, Move(r, Imm(at)))
           off == ReadIndex(e, i)
           V == Values \cup Numbers
<1>1. /\ Works(Gen, {}, D, live) /\ CanRead(Gen, live, i) /\ \A y \in V : CanRead(Gen, live, y)
      /\ k = AllocTempRegister(Gen).g /\ r = AllocTempRegister(Gen).reg
      /\ e = Emit(k, Move(r, Imm(at))) /\ off = ReadIndex(e, i)
  BY GenWorks DEF CodeInv
<1> HIDE DEF D, k, r, e, off, V
<1>2. /\ Works(off.g, Borrowed(Lent(r)) \cup Borrowed(off), D, live)
      /\ Apart(off.g, Borrowed(off), Borrowed(Lent(r)))
      /\ Holds(off.g, Lent(r), at) /\ Holds(off.g, off, Meaning(i))
      /\ \A y : CanRead(Gen, live, y) /\ (y = i => y \notin RValues) => CanRead(off.g, live, y)
  BY <1>1, IndexRight
<1>3. \A y \in V : (y = i => y \notin RValues) => CanRead(off.g, live, y)
  BY <1>1, <1>2
<1> QED
  BY <1>2, <1>3 DEF D, k, r, e, off, V

LEMMA LoadLocalRight ==
  ASSUME IInv, CodeInv, ~exhausted, ~exhausted', LoadLocal
  PROVE  CodeInv'
<1> DEFINE D == DOMAIN rValRegMap
           at == Offset(var2offset[Array])
<1>0. PICK i \in Values \cup Numbers : \E v \in Results({i}) :
        /\ pc = "block"
        /\ LET pre == AllocTempRegister(Gen)
               off == ReadIndex(Emit(pre.g, Move(pre.reg, Imm(at))), i)
               aft == AllocTempRegister(ReleaseTempRegister(Free(off.g, off), pre.reg))
               g == Emit(aft.g, Compute(aft.reg, "element", <<Reg(pre.reg), off.src>>))
               load == Move(Result, Reg(aft.reg))
           IN  Made(Produce(ReleaseTempRegister(g, aft.reg), v, load), v, Element(at, i))
  BY DEF LoadLocal
<1>1. PICK v \in Results({i}) :
        /\ pc = "block"
        /\ LET pre == AllocTempRegister(Gen)
               off == ReadIndex(Emit(pre.g, Move(pre.reg, Imm(at))), i)
               aft == AllocTempRegister(ReleaseTempRegister(Free(off.g, off), pre.reg))
               g == Emit(aft.g, Compute(aft.reg, "element", <<Reg(pre.reg), off.src>>))
               load == Move(Result, Reg(aft.reg))
           IN  Made(Produce(ReleaseTempRegister(g, aft.reg), v, load), v, Element(at, i))
  BY <1>0, Zenon
<1> DEFINE r == AllocTempRegister(Gen).reg
           off == ReadIndex(Emit(AllocTempRegister(Gen).g, Move(r, Imm(at))), i)
           j == off.g
           l == Free(j, off)
           h == Free(l, Lent(r))
           k == AllocTempRegister(h).g
           q == AllocTempRegister(h).reg
           ins == Compute(q, "element", <<Lent(r).src, off.src>>)
           e == Emit(k, ins)
           g == Free(e, Lent(q))
           load == Move(Result, Lent(q).src)
           term == <<"element", at, Meaning(i)>>
<1>2. pc = "block" /\ Made(Produce(g, v, load), v, term)
  <2>1. /\ h = ReleaseTempRegister(l, r) /\ g = ReleaseTempRegister(e, q)
        /\ Lent(r).src = Reg(r) /\ Lent(q).src = Reg(q)
    BY FreeLent, LentFacts
  <2> HIDE DEF at, r, off, j, l, h, k, q, ins, e, g, load
  <2>2. /\ g = ReleaseTempRegister(e, q) /\ load = Move(Result, Reg(q))
        /\ e = Emit(k, Compute(q, "element", <<Reg(r), off.src>>))
        /\ k = AllocTempRegister(h).g /\ q = AllocTempRegister(h).reg
        /\ h = ReleaseTempRegister(Free(off.g, off), r)
    BY <2>1 DEF e, ins, k, q, l, j, load
  <2> QED
    BY <1>1, <2>2, Zenon DEF off, r, Element
<1>3. /\ Works(j, Borrowed(Lent(r)) \cup Borrowed(off), D, live)
      /\ Apart(j, Borrowed(off), Borrowed(Lent(r)))
      /\ Holds(j, Lent(r), at) /\ Holds(j, off, Meaning(i))
      /\ l = Free(j, off) /\ h = Free(l, Lent(r))
      /\ k = AllocTempRegister(h).g /\ q = AllocTempRegister(h).reg
      /\ e = Emit(k, ins) /\ g = Free(e, Lent(q))
  BY <1>2, LocalIndex
<1> HIDE DEF D, at, r, off, j, l, h, k, q, e, g
<1> DEFINE a == Lent(r)
<1>4. /\ Works(j, Borrowed(a) \cup Borrowed(off), D, live)
      /\ Apart(j, Borrowed(off), Borrowed(a)) /\ Holds(j, a, at)
      /\ h = Free(l, a) /\ ins = Compute(q, "element", <<a.src, off.src>>)
  BY <1>3
<1> HIDE DEF a, ins
<1>5. Works(h, {}, D, live) /\ Holds(h, a, at) /\ Holds(h, off, Meaning(i))
  BY <1>3, <1>4, FreeTwoRight
<1>6. Puts(k, ins, q, term)
  <2>1. Holds(k, a, at) /\ Holds(k, off, Meaning(i))
    BY <1>3, <1>5, AllocWorks
  <2> QED
    BY <1>4, <2>1, ComputeInto
<1> HIDE DEF term
<1>7. Works(e, Borrowed(Lent(q)), D, live) /\ Holds(e, Lent(q), term)
  BY <1>3, <1>5, <1>6, IntoFirst
<1> DEFINE b == Lent(q)
<1>8. Works(e, Borrowed(b), D, live) /\ Holds(e, b, term) /\ g = Free(e, b) /\ load = Move(Result, b.src)
  BY <1>3, <1>7
<1> HIDE DEF b, load
<1>9. Works(g, {}, D, live) /\ g.failed = e.failed /\ g.m = e.m
  BY <1>8, FreeLast
<1>10. g.failed \/ Makes(g, load, term)
  <2>1. g.failed \/ Content(g.m, b.src) = term
    BY <1>8, <1>9 DEF Holds, Source
  <2> QED
    BY <1>8, <2>1, MakesMove
<1> QED
  BY <1>2, <1>9, <1>10, ProducedRight DEF D

-----------------------------------------------------------------------------
(* What is stored is what should have been stored.                         *)
LEMMA StoredRight ==
  ASSUME CodeInv, ~exhausted', NEW g, NEW D, NEW operands, NEW wanted, Works(g, {}, D, live),
         g.failed \/ g.m.used = wanted, Stored(g, operands, wanted)
  PROVE  CodeInv'
<1>1. /\ Done(g, Nothing, <<>>, "use", wanted, live) /\ pc' = "block"
      /\ UNCHANGED <<pc, true_cmp, cmp_op, branchOn, compared>>
  BY DEF Stored
<1>2. ~g.failed /\ effect' = Observed("use", g.m.used, wanted)
  BY <1>1 DEF Done
<1>3. effect'.kind = "none"
  BY <1>2, ObservedKind
<1>4. Sound(g, {}, D) /\ Ready(g, Nothing, <<>>, live)
  BY <1>2, NothingReady DEF Works
<1>5. ValInv'
  BY <1>1, <1>2, <1>4, DoneRight
<1>6. FlagInv'
  BY <1>1, <1>3, FlagsKept DEF CodeInv
<1> QED
  BY <1>5, <1>6 DEF CodeInv

(* An instruction has used what the IR wants.                              *)
Using(g, h, held, D, L, wanted) ==
  /\ Works(h, held, D, L) /\ h.failed = g.failed /\ (h.failed \/ h.m.used = wanted)
  /\ \A A, B : Apart(g, A, B) => Apart(h, A, B)

LEMMA UseWorks ==
  ASSUME NEW g, NEW held, NEW D, NEW L, Works(g, held, D, L), NEW ins, NEW u, NEW wanted,
         Execute(g.m, ins) = [g.m EXCEPT !.used = u], g.failed \/ u = wanted
  PROVE  Using(g, Emit(g, ins), held, D, L, wanted)
<1> DEFINE n == [g.m EXCEPT !.used = u]
           h == Emit(g, ins)
<1>1. Passive(g.m, n) /\ (IsMachine(g.m) => n.used = u)
  BY ChangesPassive
<1>2. g.failed \/ IsMachine(g.m)
  BY DEF Works, Reading, LeftKept
<1>3. Execute(g.m, ins) = n /\ h = Emit(g, ins)
  OBVIOUS
<1> HIDE DEF n, h
<1>4. /\ Works(h, held, D, L) /\ h.failed = g.failed /\ h.m = n
      /\ \A A, B : Apart(g, A, B) => Apart(h, A, B)
  BY <1>1, <1>3, PassiveWorks
<1> QED
  BY <1>1, <1>2, <1>4 DEF Using, h

LEMMA UseTwo ==
  ASSUME NEW g, NEW held, NEW D, NEW L, Works(g, held, D, L),
         NEW a, NEW x, NEW b, NEW y, Holds(g, a, x), Holds(g, b, y)
  PROVE  Using(g, Emit(g, Use(<<a.src, b.src>>)), held, D, L, <<x, y>>)
<1> DEFINE u == <<Content(g.m, a.src), Content(g.m, b.src)>>
           ins == Use(<<a.src, b.src>>)
           wanted == <<x, y>>
<1>1. Execute(g.m, ins) = [g.m EXCEPT !.used = u]
  BY ExecUse2
<1>2. g.failed \/ u = wanted
  BY DEF Holds, Source
<1> HIDE DEF u, ins, wanted
<1>3. Using(g, Emit(g, ins), held, D, L, wanted)
  BY <1>1, <1>2, UseWorks
<1> QED
  BY <1>3 DEF ins, wanted

LEMMA UseThree ==
  ASSUME NEW g, NEW held, NEW D, NEW L, Works(g, held, D, L),
         NEW a, NEW x, NEW b, NEW y, NEW c, NEW z, Holds(g, a, x), Holds(g, b, y), Holds(g, c, z)
  PROVE  Using(g, Emit(g, Use(<<a.src, b.src, c.src>>)), held, D, L, <<x, y, z>>)
<1> DEFINE u == <<Content(g.m, a.src), Content(g.m, b.src), Content(g.m, c.src)>>
           ins == Use(<<a.src, b.src, c.src>>)
           wanted == <<x, y, z>>
<1>1. Execute(g.m, ins) = [g.m EXCEPT !.used = u]
  BY ExecUse3
<1>2. g.failed \/ u = wanted
  BY DEF Holds, Source
<1> HIDE DEF u, ins, wanted
<1>3. Using(g, Emit(g, ins), held, D, L, wanted)
  BY <1>1, <1>2, UseWorks
<1> QED
  BY <1>3 DEF ins, wanted

LEMMA ValMeaning ==
  ASSUME ValInv, pc = "block", NEW x \in Values \cup Numbers
  PROVE  Meaning(x) = Val(x)
<1>1. live \subseteq LValues /\ DOMAIN rValRegMap \subseteq RValues
  BY DEF ValInv, LeftKept
<1> QED
  BY <1>1, Kinds DEF Values, Meaning

LEMMA StoreLocalRight ==
  ASSUME IInv, CodeInv, ~exhausted, ~exhausted', StoreLocal
  PROVE  CodeInv'
<1> DEFINE D == DOMAIN rValRegMap
           at == Offset(var2offset[Array])
<1>1. PICK i \in Values \cup Numbers, x \in Values \cup Numbers :
        /\ Distinct(i, x, Nothing)
        /\ LET pre == AllocTempRegister(Gen)
               off == ReadIndex(Emit(pre.g, Move(pre.reg, Imm(at))), i)
               aft == AllocTempRegister(Free(ReleaseTempRegister(off.g, pre.reg), off))
               g == Emit(aft.g, Compute(aft.reg, "element", <<Reg(pre.reg), off.src>>))
               obj == ReadRegister(g, x, TRUE)
               stored == Emit(obj.g, Use(<<Reg(aft.reg), obj.src>>))
           IN  Stored(ReleaseTempRegister(Free(stored, obj), aft.reg), {i, x}, <<Element(at, i), Val(x)>>)
  BY Zenon DEF StoreLocal
<1> DEFINE r == AllocTempRegister(Gen).reg
           off == ReadIndex(Emit(AllocTempRegister(Gen).g, Move(r, Imm(at))), i)
           j == off.g
           l == Free(j, Lent(r))
           h == Free(l, off)
           k == AllocTempRegister(h).g
           q == AllocTempRegister(h).reg
           ins == Compute(q, "element", <<Lent(r).src, off.src>>)
           e == Emit(k, ins)
           obj == ReadRegister(e, x, TRUE)
           o == obj.g
           s == Emit(o, Use(<<Lent(q).src, obj.src>>))
           t == Free(s, obj)
           g == Free(t, Lent(q))
           term == <<"element", at, Meaning(i)>>
           wanted == <<term, Meaning(x)>>
<1>2. pc = "block"
  BY <1>1, SMTT(30) DEF Stored
<1>3. Stored(g, {i, x}, wanted)
  <2>1. Stored(g, {i, x}, <<Element(at, i), Val(x)>>)
    <3>1. /\ l = ReleaseTempRegister(j, r) /\ g = ReleaseTempRegister(t, q)
          /\ Lent(r).src = Reg(r) /\ Lent(q).src = Reg(q)
      BY FreeLent, LentFacts, ZenonT(30)
    <3> HIDE DEF at, r, off, j, l, h, k, q, ins, e, obj, o, s, t, g
    <3>2. /\ g = ReleaseTempRegister(t, q) /\ t = Free(s, obj)
          /\ s = Emit(obj.g, Use(<<Reg(q), obj.src>>)) /\ obj = ReadRegister(e, x, TRUE)
          /\ e = Emit(k, Compute(q, "element", <<Reg(r), off.src>>))
          /\ k = AllocTempRegister(h).g /\ q = AllocTempRegister(h).reg
          /\ h = Free(ReleaseTempRegister(off.g, r), off)
      BY <3>1, Zenon DEF t, s, o, obj, e, ins, k, q, h, l, j
    <3> QED
      BY <1>1, <3>2, Zenon DEF off, r
  <2>2. Meaning(x) = Val(x)
    BY <1>2, ValMeaning DEF CodeInv
  <2> QED
    BY <2>1, <2>2, Zenon DEF Element
<1>4. x = i => x \notin RValues
  BY <1>1, SMTT(30) DEF Distinct
<1>5. /\ Works(j, Borrowed(Lent(r)) \cup Borrowed(off), D, live)
      /\ Apart(j, Borrowed(off), Borrowed(Lent(r)))
      /\ Holds(j, Lent(r), at) /\ Holds(j, off, Meaning(i)) /\ CanRead(j, live, x)
      /\ l = Free(j, Lent(r)) /\ h = Free(l, off)
      /\ k = AllocTempRegister(h).g /\ q = AllocTempRegister(h).reg
      /\ e = Emit(k, ins) /\ obj = ReadRegister(e, x, TRUE)
      /\ s = Emit(o, Use(<<Lent(q).src, obj.src>>)) /\ t = Free(s, obj) /\ g = Free(t, Lent(q))
  BY <1>2, <1>4, LocalIndex, Zenon
<1> DEFINE a == Lent(r)
           b == Lent(q)
<1> HIDE DEF D, at, r, off, j, l, h, k, q, e, s, t, g
<1>6. /\ Works(j, Borrowed(off) \cup Borrowed(a), D, live)
      /\ Apart(j, Borrowed(a), Borrowed(off)) /\ Holds(j, a, at)
      /\ l = Free(j, a) /\ ins = Compute(q, "element", <<a.src, off.src>>)
  <2>1. Borrowed(off) \cup Borrowed(a) = Borrowed(a) \cup Borrowed(off)
    OBVIOUS
  <2> QED
    BY <1>5, <2>1 DEF Apart
<1>7. s = Emit(o, Use(<<b.src, obj.src>>)) /\ g = Free(t, b)
  BY <1>5
<1> HIDE DEF a, ins
<1>8. Works(h, {}, D, live) /\ Holds(h, a, at) /\ Holds(h, off, Meaning(i)) /\ CanRead(h, live, x)
  BY <1>5, <1>6, FreeTwoRight
<1>9. Puts(k, ins, q, term)
  <2>1. Holds(k, a, at) /\ Holds(k, off, Meaning(i))
    BY <1>5, <1>8, AllocWorks
  <2> QED
    BY <1>6, <2>1, ComputeInto
<1> HIDE DEF term
<1>10. Works(e, Borrowed(b), D, live) /\ Holds(e, b, term) /\ CanRead(e, live, x)
  BY <1>5, <1>8, <1>9, IntoFirst
<1> DEFINE held == Borrowed(b)
<1>11. Works(e, held, D, live) /\ Borrowed(b) \subseteq held
  BY <1>10
<1> HIDE DEF b, obj, o, held
<1>12. /\ Works(obj.g, held \cup Borrowed(obj), D, live) /\ Apart(obj.g, Borrowed(obj), held)
       /\ Holds(obj.g, obj, Meaning(x))
       /\ \A d, c : Holds(e, d, c) /\ Borrowed(d) \subseteq held => Holds(obj.g, d, c)
  BY <1>5, <1>10, <1>11, ReadWorks DEF b
<1>13. /\ Works(o, held \cup Borrowed(obj), D, live) /\ Apart(o, Borrowed(obj), held)
       /\ Holds(o, b, term) /\ Holds(o, obj, Meaning(x))
  BY <1>10, <1>11, <1>12 DEF o
<1>14. Using(o, s, held \cup Borrowed(obj), D, live, wanted)
  <2> DEFINE all == held \cup Borrowed(obj)
             y == Meaning(x)
  <2>1. Works(o, all, D, live) /\ Holds(o, b, term) /\ Holds(o, obj, y)
    BY <1>13
  <2> HIDE DEF all, y
  <2>2. Using(o, Emit(o, Use(<<b.src, obj.src>>)), all, D, live, <<term, y>>)
    BY <2>1, UseTwo
  <2> QED
    BY <1>7, <2>2 DEF all, y
<1>15. /\ Works(s, Borrowed(b) \cup Borrowed(obj), D, live) /\ Apart(s, Borrowed(obj), Borrowed(b))
       /\ s.failed \/ s.m.used = wanted
  BY <1>13, <1>14 DEF Using, held
<1>16. Works(g, {}, D, live) /\ g.failed = s.failed /\ g.m = s.m
  <2>1. /\ Works(s, Borrowed(b) \cup Borrowed(obj), D, live) /\ Apart(s, Borrowed(obj), Borrowed(b))
        /\ t = Free(s, obj) /\ g = Free(t, b)
    BY <1>5, <1>7, <1>15
  <2> QED
    BY <2>1, FreeTwoRight
<1>17. g.failed \/ g.m.used = wanted
  BY <1>15, <1>16
<1> HIDE DEF wanted
<1> QED
  BY <1>3, <1>16, <1>17, StoredRight

LEMMA StoreElementRight ==
  ASSUME IInv, CodeInv, ~exhausted, ~exhausted', StoreElement
  PROVE  CodeInv'
<1> DEFINE D == DOMAIN rValRegMap
<1>1. PICK p \in Pairs, x \in Values \cup Numbers :
        /\ p[1] # Array /\ Distinct(p[1], p[2], x)
        /\ LET base == ReadRegister(Gen, p[1], TRUE)
               rd == ReadRegister(base.g, x, TRUE)
               off == ReadElementIndex(rd.g, p[2])
               g == Emit(off.g, Use(<<base.src, off.src, rd.src>>))
           IN  Stored(Free(Free(Free(g, off), rd), base), {p[1], p[2], x},
                      <<Val(p[1]), Meaning(p[2]), Val(x)>>)
  BY DEF StoreElement
<1> DEFINE y == p[1]
           i == p[2]
           base == ReadRegister(Gen, y, TRUE)
           rd == ReadRegister(base.g, x, TRUE)
           k == rd.g
           off == ReadElementIndex(k, i)
           o == off.g
           s == Emit(o, Use(<<base.src, off.src, rd.src>>))
           t == Free(s, off)
           u == Free(t, rd)
           g == Free(u, base)
           both == Borrowed(base) \cup Borrowed(rd)
           wanted == <<Meaning(y), Meaning(i), Meaning(x)>>
<1>2. pc = "block"
  BY <1>1 DEF Stored
<1>3. Stored(g, {y, i, x}, wanted)
  <2>1. Meaning(x) = Val(x)
    BY <1>2, ValMeaning DEF CodeInv
  <2> QED
    BY <1>1, <2>1 DEF Meaning
<1>4. /\ Works(Gen, {}, D, live) /\ CanRead(Gen, live, y) /\ CanRead(Gen, live, i)
      /\ CanRead(Gen, live, x)
  BY <1>2, GenWorks, PairsRead DEF CodeInv
<1>5. /\ x = y => x \notin RValues
      /\ i = y => i \notin RValues
      /\ i = x => i \notin RValues
  BY <1>1 DEF Distinct
<1>6. /\ base = ReadRegister(Gen, y, TRUE) /\ rd = ReadRegister(base.g, x, TRUE)
      /\ off = ReadElementIndex(k, i) /\ s = Emit(o, Use(<<base.src, off.src, rd.src>>))
      /\ t = Free(s, off) /\ u = Free(t, rd) /\ g = Free(u, base)
      /\ Borrowed(base) \subseteq both /\ Borrowed(rd) \subseteq both
  OBVIOUS
<1> HIDE DEF D, y, i, base, rd, off, s, t, u, g
<1>7. /\ Works(rd.g, Borrowed(base) \cup Borrowed(rd), D, live)
      /\ Apart(rd.g, Borrowed(rd), Borrowed(base))
      /\ Holds(rd.g, base, Meaning(y)) /\ Holds(rd.g, rd, Meaning(x))
      /\ \A z : CanRead(Gen, live, z) /\ (z = y => z \notin RValues) /\ (z = x => z \notin RValues)
                  => CanRead(rd.g, live, z)
  BY <1>4, <1>5, <1>6, TwoRight
<1>8. /\ Works(k, both, D, live) /\ Apart(k, Borrowed(rd), Borrowed(base))
      /\ Holds(k, base, Meaning(y)) /\ Holds(k, rd, Meaning(x)) /\ CanRead(k, live, i)
  BY <1>4, <1>5, <1>7
<1> HIDE DEF k, both
<1>9. /\ Works(off.g, both \cup Borrowed(off), D, live)
      /\ Apart(off.g, Borrowed(off), both) /\ (k.failed => off.g.failed)
      /\ Holds(off.g, off, Meaning(i))
      /\ \A b, c : Holds(k, b, c) /\ Borrowed(b) \subseteq both => Holds(off.g, b, c)
  BY <1>6, <1>8, ReadElementWorks
<1> DEFINE all == both \cup Borrowed(off)
<1>10. /\ Works(o, all, D, live) /\ Apart(o, Borrowed(off), both)
       /\ Apart(o, Borrowed(rd), Borrowed(base))
       /\ Holds(o, off, Meaning(i)) /\ Holds(o, base, Meaning(y)) /\ Holds(o, rd, Meaning(x))
  BY <1>6, <1>8, <1>9 DEF Apart
<1> HIDE DEF o, all
<1>11. Using(o, s, all, D, live, wanted)
  <2>1. Using(o, Emit(o, Use(<<base.src, off.src, rd.src>>)), all, D, live, wanted)
    <3> DEFINE a == Meaning(y)
               b == Meaning(i)
               c == Meaning(x)
    <3>1. Holds(o, off, b) /\ Holds(o, base, a) /\ Holds(o, rd, c)
      BY <1>10
    <3> HIDE DEF a, b, c
    <3>2. Using(o, Emit(o, Use(<<base.src, off.src, rd.src>>)), all, D, live, <<a, b, c>>)
      BY <1>10, <3>1, UseThree
    <3> QED
      BY <3>2 DEF a, b, c
  <2> QED
    BY <1>6, <2>1
<1> HIDE DEF wanted
<1>12. /\ Works(s, both \cup Borrowed(off), D, live) /\ Apart(s, Borrowed(off), both)
       /\ Apart(s, Borrowed(rd), Borrowed(base)) /\ (s.failed \/ s.m.used = wanted)
  BY <1>10, <1>11 DEF Using, all
<1>13. /\ Works(t, both, D, live) /\ t.failed = s.failed /\ t.m = s.m
       /\ \A A, B : Apart(s, A, B) => Apart(t, A, B)
  <2>1. t = Free(s, off) /\ Works(s, both \cup Borrowed(off), D, live) /\ Apart(s, Borrowed(off), both)
    BY <1>6, <1>12
  <2> QED
    BY <2>1, FreeWorks
<1>14. Works(g, {}, D, live) /\ g.failed = t.failed /\ g.m = t.m
  <2>1. /\ Works(t, Borrowed(base) \cup Borrowed(rd), D, live) /\ Apart(t, Borrowed(rd), Borrowed(base))
        /\ u = Free(t, rd) /\ g = Free(u, base)
    BY <1>6, <1>12, <1>13 DEF both
  <2> QED
    BY <2>1, FreeTwoRight
<1>15. g.failed \/ g.m.used = wanted
  BY <1>12, <1>13, <1>14
<1> QED
  BY <1>3, <1>14, <1>15, StoredRight

-----------------------------------------------------------------------------
(* A function returns its value, to its caller.                            *)
LEMMA AddressFound ==
  ASSUME NEW m, IsMachine(m), m.sp = 0, m.mem[ReturnSlot] = ReturnAddress,
         NEW x, m.reg[0] = x,
         NEW left, left = Execute(m, MoveSp(FrameWords + StackParams)),
         NEW n, n = Execute(left, Ldr(LR, Imm(Offset(-5 - StackParams))))
  PROVE  Execute(n, Use(<<Reg(0), Reg(LR)>>)).used = <<x, ReturnAddress>>
<1>1. left = [m EXCEPT !.sp = m.sp + (FrameWords + StackParams)]
  BY ExecMoveSp
<1>2. IsMachine(left) /\ left.sp = FrameWords + StackParams /\ left.mem = m.mem /\ left.reg = m.reg
  BY <1>1, FrameType, SMTT(30) DEF IsMachine
<1>3. left.sp + (-5 - StackParams) = ReturnSlot /\ ReturnSlot \in Words
  BY <1>2, FrameType DEF Words
<1>4. Read(left.mem, left.sp + (-5 - StackParams)) = ReturnAddress
  BY <1>2, <1>3 DEF Read, IsMachine
<1>5. Content(left, Imm(Offset(-5 - StackParams))) = Offset(-5 - StackParams)
  BY DEF Content, Imm
<1>6. n = SetReg(left, LR, ReturnAddress)
  BY <1>4, <1>5, ExecLdr
<1>7. IsMachine(n) /\ \A q \in Regs : n.reg[q] = IF q = LR THEN ReturnAddress ELSE left.reg[q]
  BY <1>2, <1>6, SetRegFacts
<1>8. Content(n, Reg(0)) = x /\ Content(n, Reg(LR)) = ReturnAddress
  BY <1>2, <1>7 DEF Content, Reg, Read, IsMachine, Regs, LR
<1> DEFINE u == <<Content(n, Reg(0)), Content(n, Reg(LR))>>
           k == [n EXCEPT !.used = u]
<1>9. Execute(n, Use(<<Reg(0), Reg(LR)>>)) = k
  BY ExecUse2
<1>10. k.used = u
  BY <1>7, ChangesPassive
<1> QED
  BY <1>8, <1>9, <1>10

LEMMA RetRight ==
  ASSUME IInv, CodeInv, ~exhausted, ~exhausted', Ret
  PROVE  CodeInv'
<1> DEFINE D == DOMAIN rValRegMap
<1>1. PICK x \in Values \cup Numbers :
        LET loaded == LoadVal2Reg(Gen, x, 0, 0, 3)
            g == IF x \in DOMAIN rValRegMap
                 THEN ReleaseTempRegister(Forget(loaded, x), rValRegMap[x])
                 ELSE loaded
            left == Emit(g, MoveSp(FrameWords + StackParams))
            returned == Emit(left, Ldr(LR, Imm(Offset(-5 - StackParams))))
        IN  /\ pc = "block" /\ rValRegMap' = g.rVal
            /\ effect' = Observed("use", Emit(returned, Use(<<Reg(0), Reg(LR)>>)).m.used,
                                  <<Val(x), ReturnAddress>>)
            /\ UNCHANGED <<pc, var2offset, stackPointer, true_cmp, cmp_op, branchOn,
                           compared, live, machine, exhausted>>
  BY DEF Ret
<1> DEFINE l == LoadVal2Reg(Gen, x, 0, 0, 3)
           f == Forget(l, x)
           r == ReleaseTempRegister(f, rValRegMap[x])
           g == IF x \in D THEN r ELSE l
           left == Emit(g, MoveSp(FrameWords + StackParams))
           returned == Emit(left, Ldr(LR, Imm(Offset(-5 - StackParams))))
           used == Emit(returned, Use(<<Reg(0), Reg(LR)>>)).m.used
           wanted == <<Val(x), ReturnAddress>>
<1>2. Reading(Gen, live) /\ machine.mem[ReturnSlot] = ReturnAddress /\ machine.sp = 0
  BY <1>1, GenReads, GenFields DEF CodeInv, Reading, LeftKept
<1>3. Located(Gen, x)
  <2>1. x \in D => x \in RValues /\ rValRegMap[x] \in Regs /\ machine.reg[rValRegMap[x]] = Val(x)
    BY <1>2, GenFields, RegsOf DEF IInv, PoolPartition, Holding, Reading, RightKept
  <2> QED
    BY <1>2, <2>1, GenFields DEF Located, Values, Reading, LeftKept
<1>4. /\ IsGen(l) /\ SamePool(Gen, l) /\ Touches(Gen, l, {0, 3})
      /\ l.m.reg[0] = MeaningIn(var2offset, x)
  <2>1. /\ IsGen(Gen) /\ IsMachine(Gen.m) /\ Slots(Gen.offset, Gen.sp)
        /\ DOMAIN Gen.rVal \subseteq RValues
    BY <1>2, GenFields DEF Reading, LeftKept
  <2>2. Gen.m.sp + 0 = 0 /\ 0 \in Regs /\ 3 \in Regs /\ 0 \in Int
    BY <1>2, GenFields DEF Regs
  <2> DEFINE h == Gen
             zero == 0
             three == 3
  <2>3. /\ IsGen(h) /\ IsMachine(h.m) /\ Slots(h.offset, h.sp) /\ Located(h, x)
        /\ DOMAIN h.rVal \subseteq RValues /\ h.m.sp + zero = 0 /\ zero \in Regs /\ three \in Regs
        /\ zero \in Int
    BY <1>3, <2>1, <2>2
  <2> HIDE DEF h, zero, three
  <2>4. LET k == LoadVal2Reg(h, x, zero, zero, three)
        IN  /\ IsGen(k) /\ SamePool(h, k) /\ Touches(h, k, {zero, three})
            /\ k.m.reg[zero] = MeaningIn(h.offset, x)
    BY <2>3, LoadRight
  <2> QED
    BY <2>4, GenFields DEF h, zero, three
<1>5. l.m.reg[0] = Val(x)
  BY <1>1, <1>4, ValMeaning DEF CodeInv, MeaningIn, Meaning
<1> HIDE DEF l
<1>6. IsGen(f) /\ SameFrame(l, f) /\ DOMAIN f.rVal = DOMAIN l.rVal \ {x}
      /\ \A w \in DOMAIN f.rVal : f.rVal[w] = l.rVal[w]
  BY <1>4, ForgetFields
<1> HIDE DEF f
<1>7. IsGen(r) /\ SameFrame(f, r) /\ r.rVal = f.rVal
  BY <1>6, ReleaseFields
<1> HIDE DEF r
<1>8. /\ IsGen(g) /\ g.m = l.m
      /\ DOMAIN g.rVal \subseteq D /\ \A w \in DOMAIN g.rVal : g.rVal[w] = rValRegMap[w]
  BY <1>4, <1>6, <1>7, GenFields DEF SameFrame, SamePool
<1>9. rValRegMap' = g.rVal /\ effect' = Observed("use", used, wanted)
  BY <1>1 DEF l, f, r
<1> HIDE DEF g
<1>10. used = wanted
  <2>1. IsGen(left) /\ left.m = Execute(l.m, MoveSp(FrameWords + StackParams))
    BY <1>8, EmitFields
  <2> HIDE DEF left
  <2>2. IsGen(returned) /\ returned.m = Execute(left.m, Ldr(LR, Imm(Offset(-5 - StackParams))))
    BY <2>1, EmitFields
  <2> HIDE DEF returned
  <2>3. used = Execute(returned.m, Use(<<Reg(0), Reg(LR)>>)).used
    BY <2>2, EmitFields
  <2>4. IsMachine(l.m) /\ l.m.sp = 0 /\ l.m.mem[ReturnSlot] = ReturnAddress
    BY <1>2, <1>4, GenFields DEF Touches
  <2> DEFINE m == l.m
             c == left.m
             n == returned.m
             y == Val(x)
  <2>5. /\ IsMachine(m) /\ m.sp = 0 /\ m.mem[ReturnSlot] = ReturnAddress /\ m.reg[0] = y
        /\ c = Execute(m, MoveSp(FrameWords + StackParams))
        /\ n = Execute(c, Ldr(LR, Imm(Offset(-5 - StackParams))))
    BY <1>5, <2>1, <2>2, <2>4
  <2> HIDE DEF m, c, n, y
  <2>6. Execute(n, Use(<<Reg(0), Reg(LR)>>)).used = <<y, ReturnAddress>>
    BY <2>5, AddressFound
  <2> QED
    BY <2>3, <2>6 DEF n, y
<1>11. effect'.kind = "none"
  BY <1>9, <1>10, ObservedKind
<1>12. FlagInv'
  BY <1>1, <1>11, FlagsKept DEF CodeInv
<1>13. LeftKept(Gen', live') /\ RightKept(Gen') /\ DOMAIN rValRegMap' \subseteq RValues
  <2>1. /\ Gen'.m = machine /\ Gen'.offset = var2offset /\ Gen'.sp = stackPointer
        /\ Gen'.rVal = rValRegMap' /\ live' = live
    BY <1>1 DEF Gen
  <2>2. LeftKept(Gen', live')
    BY <1>2, <2>1, GenFields DEF Reading, LeftKept
  <2>3. RightKept(Gen') /\ DOMAIN rValRegMap' \subseteq RValues
    BY <1>2, <1>8, <1>9, <2>1, GenFields DEF Reading, RightKept
  <2> QED
    BY <2>2, <2>3
<1>14. ValInv'
  BY <1>1, <1>2, <1>13 DEF ValInv
<1> QED
  BY <1>12, <1>14 DEF CodeInv

-----------------------------------------------------------------------------
(* The function begins: while its parameters arrive, nothing else has a    *)
(* slot.                                                                   *)
LEMMA ParamSlots ==
  ASSUME NEW offset, offset = [v \in DOMAIN offset |-> offset[v]],
         DOMAIN offset \subseteq ToSet(Params) \cap (LValues \ DOMAIN variableRegs),
         \A i \in DOMAIN Params : Params[i] \in DOMAIN offset => offset[Params[i]] = ParamSlot(i)
  PROVE  Slots(offset, 0)
<1>1. Own(offset) = {}
  BY DEF Own
<1>2. Cardinality(Own(offset)) = 0
  BY <1>1, FS_EmptySet
<1> QED
  BY <1>1, <1>2 DEF Slots

LEMMA InitRight == Init => CodeInv
<1> SUFFICES ASSUME Init PROVE CodeInv
  OBVIOUS
<1> DEFINE reg == [r \in Regs |-> IF r = LR THEN ReturnAddress
                                  ELSE IF r < 4 /\ r < Len(Params) THEN Val(Params[r + 1]) ELSE Junk]
           mem == [a \in Words |-> IF a >= FrameWords THEN Val(Params[a - FrameWords + 5]) ELSE Junk]
<1>1. machine = [sp |-> FrameWords, flags |-> <<>>, used |-> <<>>, reg |-> reg, mem |-> mem]
  BY DEF Init, Regs, Words
<1>2. reg = [r \in Regs |-> reg[r]] /\ mem = [a \in Words |-> mem[a]] /\ reg[LR] = ReturnAddress
  BY DEF Regs
<1>3. ASSUME NEW i \in DOMAIN Params, i <= 4  PROVE reg[i - 1] = Val(Params[i])
  <2>1. i - 1 \in Regs /\ i - 1 # LR /\ i - 1 < 4 /\ i - 1 < Len(Params) /\ (i - 1) + 1 = i
    BY <1>3, FrameType DEF Regs, LR
  <2> QED
    BY <2>1
<1>4. ASSUME NEW i \in DOMAIN Params, i > 4  PROVE mem[ParamSlot(i)] = Val(Params[i])
  <2>1. ParamSlot(i) \in Words /\ ParamSlot(i) >= FrameWords /\ ParamSlot(i) - FrameWords + 5 = i
    BY <1>4, ParamRange, FrameType DEF ParamSlot
  <2> QED
    BY <2>1
<1> HIDE DEF reg, mem
<1>5. /\ IsMachine(machine) /\ machine.sp = FrameWords /\ machine.reg = reg /\ machine.mem = mem
  BY <1>1, <1>2, FrameType DEF IsMachine
<1>6. \A i \in DOMAIN Params : IF i <= 4 THEN machine.reg[i - 1] = Val(Params[i])
                               ELSE machine.mem[ParamSlot(i)] = Val(Params[i])
  BY <1>3, <1>4, <1>5, FrameType
<1>7. Slots(var2offset, 0)
  <2>1. var2offset = <<>> /\ DOMAIN var2offset = {}
    BY DEF Init
  <2>2. var2offset = [v \in DOMAIN var2offset |-> var2offset[v]]
    BY <2>1
  <2> QED
    BY <2>1, <2>2, ParamSlots
<1>8. Entry
  <2>1. machine.reg[LR] = ReturnAddress
    BY <1>2, <1>5
  <2>2. live = {} /\ DOMAIN var2offset = {}
    BY DEF Init
  <2>3. rValRegMap = <<>> /\ tempRegPool = TempRegs /\ stackPointer = 0
    BY DEF Init
  <2>4. live \subseteq ToSet(Params) /\ DOMAIN var2offset \subseteq live
        /\ \A v \in live : InPlace(machine, var2offset, v)
    BY <2>2
  <2> QED
    BY <1>5, <1>6, <1>7, <2>1, <2>3, <2>4 DEF Entry
<1>9. ValInv
  BY <1>8 DEF ValInv, Init
<1>10. FlagInv
  BY DEF FlagInv, Init, None, NON
<1> QED
  BY <1>9, <1>10 DEF CodeInv

LEMMA ArriveRight ==
  ASSUME CodeInv, Arrive
  PROVE  CodeInv'
<1>1. PICK i \in DOMAIN Params :
        LET v == Params[i]
        IN  /\ pc = "entry" /\ v \notin live /\ live' = live \cup {v}
            /\ machine' = IF v \notin DOMAIN variableRegs /\ i > 4 THEN machine
                          ELSE Execute(machine, Arrival(i))
            /\ var2offset' = IF v \in DOMAIN variableRegs THEN var2offset
                             ELSE With(var2offset, v, ParamSlot(i))
            /\ UNCHANGED <<pc, tempRegPool, rValRegMap, stackPointer, true_cmp, cmp_op, branchOn,
                           compared, effect, exhausted>>
  BY DEF Arrive
<1> DEFINE v == Params[i]
           n == ParamSlot(i)
<1>2. Entry
  BY <1>1 DEF CodeInv, ValInv
<1>3. /\ IsMachine(machine) /\ machine.sp = FrameWords /\ machine.reg[LR] = ReturnAddress
      /\ \A j \in DOMAIN Params : IF j <= 4 THEN machine.reg[j - 1] = Val(Params[j])
                                  ELSE machine.mem[ParamSlot(j)] = Val(Params[j])
      /\ live \subseteq ToSet(Params)
      /\ \A w \in live : InPlace(machine, var2offset, w)
      /\ DOMAIN var2offset \subseteq live
      /\ Slots(var2offset, 0)
  BY <1>2 DEF Entry
<1>4. v \in LValues /\ v \in ToSet(Params) /\ i \in 1 .. Len(Params) /\ Len(Params) \in Nat
  BY ConstantsAssumption, ParamIndex, FrameType
<1>5. i > 4 => machine.mem[n] = Val(v)
  BY <1>3, <1>4
<1>6. i <= 4 => Content(machine, Reg(i - 1)) = Val(v)
  <2>1. i <= 4 => i - 1 \in Regs
    BY <1>4 DEF Regs
  <2> QED
    BY <1>3, <1>4, <2>1 DEF Content, Reg, Read, IsMachine
<1>7. machine.sp + (i - 5) = n /\ n \in Words
  BY <1>3, <1>4, ParamRange, FrameType DEF ParamSlot
<1>8. Content(machine, Imm(Offset(i - 5))) = Offset(i - 5)
  BY DEF Content, Imm
<1>9. v \in LValues => v \notin live /\ live' = live \cup {v}
  BY <1>1
<1>10. CASE v \in DOMAIN variableRegs
  <2> DEFINE r == variableRegs[v]
  <2>1. machine' = SetReg(machine, r, Val(v))
    <3>1. CASE i > 4
      <4>1. machine' = Execute(machine, Ldr(r, Imm(Offset(i - 5))))
        BY <1>1, <1>10, <3>1 DEF Arrival
      <4>2. Read(machine.mem, machine.sp + (i - 5)) = Val(v)
        BY <1>3, <1>5, <1>7, <3>1 DEF Read, IsMachine
      <4> QED
        BY <1>8, <4>1, <4>2, ExecLdr
    <3>2. CASE i <= 4
      <4>1. machine' = Execute(machine, Move(r, Reg(i - 1)))
        BY <1>1, <1>4, <1>10, <3>2 DEF Arrival
      <4> QED
        BY <1>6, <3>2, <4>1, ExecMove
    <3> QED
      BY <1>4, <3>1, <3>2
  <2>2. /\ IsMachine(machine') /\ machine'.sp = machine.sp /\ machine'.mem = machine.mem
        /\ \A q \in Regs : machine'.reg[q] = IF q = r THEN Val(v) ELSE machine.reg[q]
    BY <1>3, <2>1, SetRegFacts
  <2>3. r \in 4 .. 12 /\ r \in Regs /\ LR \in Regs /\ r # LR
    BY <1>10, RegsOf DEF Regs, LR
  <2>4. var2offset' = var2offset /\ live' = live \cup {v}
    BY <1>1, <1>10
  <2>5. ASSUME NEW j \in DOMAIN Params
        PROVE  IF j <= 4 THEN machine'.reg[j - 1] = Val(Params[j])
               ELSE machine'.mem[ParamSlot(j)] = Val(Params[j])
    <3>1. j \in 1 .. Len(Params) /\ Len(Params) \in Nat
      BY FrameType
    <3>2. j <= 4 => j - 1 \in Regs /\ j - 1 # r
      BY <2>3, <3>1 DEF Regs
    <3> QED
      BY <1>3, <2>2, <3>2
  <2>6. ASSUME NEW w \in live'  PROVE InPlace(machine', var2offset', w)
    <3>1. CASE w = v
      BY <1>10, <2>2, <2>3, <3>1 DEF InPlace
    <3>2. CASE w # v
      <4>1. InPlace(machine, var2offset, w)
        BY <1>3, <2>4, <3>2
      <4>2. w \in DOMAIN variableRegs => variableRegs[w] # r /\ variableRegs[w] \in Regs
        BY <1>10, <3>2, RegsOf, ConstantsAssumption
      <4> QED
        BY <2>2, <2>4, <4>1, <4>2 DEF InPlace
    <3> QED
      BY <3>1, <3>2
  <2>7. live' \subseteq ToSet(Params) /\ DOMAIN var2offset' \subseteq live' /\ Slots(var2offset', 0)
    BY <1>3, <1>4, <2>4
  <2>8. Entry'
    BY <1>1, <1>2, <1>3, <2>2, <2>3, <2>5, <2>6, <2>7 DEF Entry
  <2>9. ValInv'
    BY <1>1, <2>8 DEF CodeInv, ValInv
  <2> QED
    BY <1>1, <2>9, FlagsKept DEF CodeInv
<1>11. CASE v \notin DOMAIN variableRegs
  <2>1. /\ IsMachine(machine') /\ machine'.sp = machine.sp /\ machine'.reg = machine.reg
        /\ \A a \in Words : machine'.mem[a] = IF a = n THEN Val(v) ELSE machine.mem[a]
    <3>1. CASE i > 4
      <4>1. machine' = machine
        BY <1>1, <1>11, <3>1
      <4> QED
        BY <1>3, <1>5, <3>1, <4>1
    <3>2. CASE i <= 4
      <4>1. machine' = Execute(machine, Str(i - 1, Imm(Offset(i - 5))))
        BY <1>1, <1>4, <1>11, <3>2 DEF Arrival
      <4>2. Execute(machine, Str(i - 1, Imm(Offset(i - 5)))) = SetWord(machine, n, Val(v))
        BY <1>6, <1>7, <1>8, <3>2, ExecStr
      <4> QED
        BY <1>3, <4>1, <4>2, SetWordFacts
    <3> QED
      BY <1>4, <3>1, <3>2
  <2>2. /\ DOMAIN var2offset' = DOMAIN var2offset \cup {v} /\ live' = live \cup {v}
        /\ var2offset' = [w \in DOMAIN var2offset' |-> var2offset'[w]]
        /\ \A w \in DOMAIN var2offset' : var2offset'[w] = IF w = v THEN n ELSE var2offset[w]
    BY <1>1, <1>11 DEF With
  <2>3. ASSUME NEW j \in DOMAIN Params
        PROVE  IF j <= 4 THEN machine'.reg[j - 1] = Val(Params[j])
               ELSE machine'.mem[ParamSlot(j)] = Val(Params[j])
    <3>1. ParamSlot(j) \in Words /\ (ParamSlot(j) = n => Params[j] = v)
      BY ParamRange
    <3> QED
      BY <1>3, <2>1, <3>1
  <2>4. \A j \in DOMAIN Params : Params[j] \in DOMAIN var2offset' => var2offset'[Params[j]] = ParamSlot(j)
    <3>1. ASSUME NEW j \in DOMAIN Params, Params[j] \in DOMAIN var2offset'
          PROVE  var2offset'[Params[j]] = ParamSlot(j)
      <4>1. CASE Params[j] = v
        <5>1. j = i
          BY <4>1, ConstantsAssumption
        <5> QED
          BY <2>2, <4>1, <5>1, <3>1
      <4>2. CASE Params[j] # v
        BY <1>3, <2>2, <3>1, <4>2 DEF Slots
      <4> QED
        BY <4>1, <4>2
    <3> QED
      BY <3>1
  <2>5. ASSUME NEW w \in live'  PROVE InPlace(machine', var2offset', w)
    <3>1. CASE w = v
      BY <1>7, <1>11, <2>1, <2>2, <3>1 DEF InPlace
    <3>2. CASE w # v
      <4>1. InPlace(machine, var2offset, w) /\ w \in ToSet(Params)
        BY <1>3, <2>2, <3>2
      <4>2. w \in DOMAIN var2offset => var2offset[w] \in Words /\ var2offset[w] # n
        <5>1. PICK j \in DOMAIN Params : Params[j] = w
          BY <4>1, ParamIndex
        <5>2. w \in DOMAIN var2offset => var2offset[w] = ParamSlot(j)
          BY <1>3, <5>1 DEF Slots
        <5>3. ParamSlot(j) \in Words /\ (ParamSlot(j) = n => Params[j] = v)
          BY ParamRange
        <5> QED
          BY <3>2, <5>1, <5>2, <5>3
      <4> QED
        BY <2>1, <2>2, <3>2, <4>1, <4>2 DEF InPlace
    <3> QED
      BY <3>1, <3>2
  <2>6. live' \subseteq ToSet(Params) /\ DOMAIN var2offset' \subseteq live'
    BY <1>3, <1>4, <2>2
  <2>7. Slots(var2offset', 0)
    <3>1. DOMAIN var2offset' \subseteq ToSet(Params) \cap (LValues \ DOMAIN variableRegs)
      BY <1>3, <1>4, <1>11, <2>2, <2>6, ConstantsAssumption, Kinds DEF Slots, ToSet
    <3> QED
      BY <2>2, <2>4, <3>1, ParamSlots
  <2>8. Entry'
    BY <1>1, <1>2, <1>3, <2>1, <2>3, <2>5, <2>6, <2>7 DEF Entry
  <2>9. ValInv'
    BY <1>1, <2>8 DEF CodeInv, ValInv
  <2> QED
    BY <1>1, <2>9, FlagsKept DEF CodeInv
<1> QED
  BY <1>10, <1>11

LEMMA EnterFrameRight ==
  ASSUME IInv, CodeInv, ~exhausted, EnterFrame
  PROVE  CodeInv'
<1> DEFINE D == DOMAIN rValRegMap
           saved == Emit(Gen, Str(LR, Imm(Offset(-5))))
           g == Emit(saved, MoveSp(-FrameWords))
           term == <<>>
           made == Settle(g.m, Gen, Nothing, term, live)
<1>1. /\ pc = "entry" /\ pc' = "block" /\ machine' = made
      /\ UNCHANGED <<tempRegPool, rValRegMap, var2offset, stackPointer, true_cmp, cmp_op, branchOn,
                     compared, live, effect, exhausted>>
  BY DEF EnterFrame
<1>2. Entry
  BY <1>1 DEF CodeInv, ValInv
<1>3. /\ IsMachine(machine) /\ machine.sp = FrameWords /\ machine.reg[LR] = ReturnAddress
      /\ live \subseteq ToSet(Params) /\ rValRegMap = <<>>
      /\ \A w \in live : InPlace(machine, var2offset, w)
      /\ DOMAIN var2offset \subseteq live
      /\ Slots(var2offset, stackPointer)
  BY <1>2 DEF Entry
<1>4. Sound(Gen, {}, D)
  BY GenSound
<1>5. /\ IsGen(saved) /\ SamePool(Gen, saved) /\ saved.m = SetWord(machine, ReturnSlot, ReturnAddress)
      /\ saved.offset = var2offset /\ saved.sp = stackPointer
  <2>1. Content(machine, Imm(Offset(-5))) = Offset(-5) /\ Content(machine, Reg(LR)) = ReturnAddress
    BY <1>3 DEF Content, Imm, Reg, Read, IsMachine, Regs
  <2>2. machine.sp + (-5) = ReturnSlot
    BY <1>3, FrameType
  <2>3. Execute(machine, Str(LR, Imm(Offset(-5)))) = SetWord(machine, ReturnSlot, ReturnAddress)
    BY <2>1, <2>2, ExecStr
  <2> QED
    BY <2>3, GenFields, EmitFields
<1>6. Sound(g, {}, D)
  BY <1>4, EmitSound
<1> HIDE DEF saved
<1>7. LET n == saved.m
      IN  /\ IsMachine(n) /\ n.sp = FrameWords /\ n.reg = machine.reg
          /\ \A a \in Words : n.mem[a] = IF a = ReturnSlot THEN ReturnAddress ELSE machine.mem[a]
  BY <1>3, <1>5, SetWordFacts
<1>8. /\ IsGen(g) /\ SamePool(saved, g) /\ g.m = [saved.m EXCEPT !.sp = saved.m.sp + (-FrameWords)]
      /\ g.offset = saved.offset /\ g.sp = saved.sp
  BY <1>5, EmitFields, ExecMoveSp
<1>9. /\ IsMachine(g.m) /\ g.m.sp = 0 /\ g.m.reg = machine.reg
      /\ \A a \in Words : g.m.mem[a] = IF a = ReturnSlot THEN ReturnAddress ELSE machine.mem[a]
  BY <1>7, <1>8, FrameType DEF IsMachine
<1>10. g.pool = Gen.pool /\ g.rVal = Gen.rVal /\ g.offset = Gen.offset /\ g.sp = Gen.sp /\ ~g.failed
  BY <1>5, <1>8, GenFields DEF SamePool
<1>11. made = Settle(g.m, g, Nothing, term, live)
  BY <1>10, ZenonT(30) DEF Settle
<1> HIDE DEF g, term, made
<1>12. ReturnSlot \in Words /\ live \subseteq LValues
  BY <1>3, FrameType, ConstantsAssumption DEF Words, ToSet
<1>13. ASSUME NEW w \in live  PROVE InPlace(g.m, g.offset, w)
  <2>1. InPlace(machine, var2offset, w)
    BY <1>3
  <2>2. w \in DOMAIN var2offset => var2offset[w] \in Words /\ var2offset[w] # ReturnSlot
    BY <1>3, SlotRange
  <2> QED
    BY <1>9, <1>10, <2>1, <2>2, GenFields DEF InPlace
<1>14. Nothing \notin LValues
  BY ValuesAssumption DEF Nothing
<1>15. Ready(g, Nothing, term, live)
  BY <1>3, <1>8, <1>9, <1>10, <1>12, <1>13, <1>14, GenFields DEF Ready
<1>16. Left(live, Nothing) = live
  BY <1>12, <1>14 DEF Left
<1>17. AtRest(made, g.offset, live)
  BY <1>6, <1>10, <1>11, <1>14, <1>15, <1>16, SettleRight
<1>18. LeftKept(Gen', live') /\ machine'.sp = 0
  <2>1. Gen'.m = made /\ Gen'.offset = var2offset /\ Gen'.sp = stackPointer /\ live' = live
    BY <1>1 DEF Gen
  <2> QED
    BY <1>1, <1>3, <1>10, <1>12, <1>17, <2>1, GenFields DEF LeftKept, AtRest
<1>19. RightKept(Gen') /\ DOMAIN rValRegMap' = {}
  <2>1. Gen'.rVal = rValRegMap' /\ rValRegMap' = <<>>
    BY <1>1, <1>3 DEF Gen
  <2>2. DOMAIN rValRegMap' = {}
    BY <2>1
  <2> QED
    BY <2>1, <2>2 DEF RightKept
<1>20. ValInv'
  BY <1>1, <1>18, <1>19 DEF ValInv
<1>21. FlagInv'
  BY <1>1 DEF CodeInv, FlagInv
<1> QED
  BY <1>20, <1>21 DEF CodeInv

-----------------------------------------------------------------------------
(* PUSH and POP.                                                           *)
LEMMA Ranks ==
  ASSUME NEW R \in SUBSET Regs
  PROVE  /\ IsFiniteSet(R) /\ Cardinality(R) \in 0 .. 14
         /\ \A r \in R : Below(R, r) \in 0 .. Cardinality(R) - 1 /\ At(R, Below(R, r)) = r
<1>1. IsFiniteSet(Regs) /\ Cardinality(Regs) = 14
  <2>1. IsFiniteSet(0 .. 12) /\ Cardinality(0 .. 12) = 13
    <3>1. 0 \in Int /\ 12 \in Int /\ (IF 0 > 12 THEN 0 ELSE 12 - 0 + 1) = 13
      OBVIOUS
    <3> QED
      BY <3>1, FS_Interval
  <2>2. LR \notin 0 .. 12
    BY DEF LR
  <2>3. IsFiniteSet(0 .. 12 \cup {LR}) /\ Cardinality(0 .. 12 \cup {LR}) = Cardinality(0 .. 12) + 1
    BY <2>1, <2>2, FS_AddElement
  <2> QED
    BY <2>1, <2>3 DEF Regs
<1>2. IsFiniteSet(R) /\ Cardinality(R) <= Cardinality(Regs)
  BY <1>1, FS_Subset
<1>3. Cardinality(R) \in Nat
  BY <1>2, FS_CardinalityType
<1>4. R \subseteq Int
  BY RegsOf
<1> DEFINE S(r) == {q \in R : q < r}
<1>5. ASSUME NEW r \in R
      PROVE  IsFiniteSet(S(r)) /\ Cardinality(S(r)) \in Nat /\ Cardinality(S(r) \cup {r}) = Cardinality(S(r)) + 1
             /\ IsFiniteSet(S(r) \cup {r})
  <2>1. S(r) \subseteq R /\ r \notin S(r)
    BY <1>4
  <2>2. IsFiniteSet(S(r))
    BY <1>2, <2>1, FS_Subset
  <2> QED
    BY <2>1, <2>2, FS_AddElement, FS_CardinalityType
<1>6. ASSUME NEW r \in R, NEW s \in R, r < s
      PROVE  Cardinality(S(r)) + 1 <= Cardinality(S(s))
  <2>1. ASSUME NEW q \in S(r) \cup {r}  PROVE q \in S(s)
    <3>1. q \in R /\ (q < r \/ q = r)
      OBVIOUS
    <3>2. q \in Int /\ r \in Int /\ s \in Int
      BY <1>4, <3>1
    <3>3. q < s
      BY <1>6, <3>1, <3>2
    <3> QED
      BY <3>1, <3>3
  <2>2. Cardinality(S(r) \cup {r}) <= Cardinality(S(s))
    BY <1>5, <2>1, FS_Subset
  <2> HIDE DEF S
  <2> QED
    BY <1>5, <2>2
<1>7. ASSUME NEW r \in R  PROVE Below(R, r) \in 0 .. Cardinality(R) - 1
  <2>1. S(r) \cup {r} \subseteq R
    OBVIOUS
  <2>2. Cardinality(S(r) \cup {r}) <= Cardinality(R)
    BY <1>2, <2>1, FS_Subset
  <2>3. Below(R, r) = Cardinality(S(r))
    BY DEF Below
  <2> QED
    BY <1>3, <1>5, <2>2, <2>3
<1>8. ASSUME NEW r \in R, NEW s \in R, Below(R, r) = Below(R, s)  PROVE r = s
  <2>1. Cardinality(S(r)) = Cardinality(S(s))
    BY <1>8 DEF Below
  <2>2. Cardinality(S(r)) \in Nat /\ Cardinality(S(s)) \in Nat /\ r \in Int /\ s \in Int
    BY <1>4, <1>5
  <2>3. /\ r < s => Cardinality(S(r)) + 1 <= Cardinality(S(s))
        /\ s < r => Cardinality(S(s)) + 1 <= Cardinality(S(r))
    BY <1>6
  <2> HIDE DEF S
  <2> QED
    BY <2>1, <2>2, <2>3
<1>9. ASSUME NEW r \in R  PROVE At(R, Below(R, r)) = r
  BY <1>8 DEF At
<1> QED
  BY <1>1, <1>2, <1>3, <1>7, <1>9

LEMMA PushFacts ==
  ASSUME NEW m, IsMachine(m), NEW R \in SUBSET Regs,
         m.sp - Cardinality(R) >= -20, m.sp <= FrameWords,
         NEW n, n = Execute(m, Push(R))
  PROVE  /\ IsMachine(n) /\ n.sp = m.sp - Cardinality(R) /\ n.reg = m.reg /\ n.used = m.used
         /\ \A r \in R : n.mem[n.sp + Below(R, r)] = m.reg[r]
         /\ \A a \in Words : a >= m.sp \/ a < n.sp => n.mem[a] = m.mem[a]
<1> DEFINE c == Cardinality(R)
           sp == m.sp - c
           mem == [a \in DOMAIN m.mem |-> IF a \in sp .. m.sp - 1 THEN m.reg[At(R, a - sp)] ELSE m.mem[a]]
<1>1. n = [m EXCEPT !.sp = sp, !.mem = mem]
  BY DEF Execute, Push
<1>2. c \in 0 .. 14 /\ m.sp \in Int /\ sp \in Int /\ sp >= -20
  BY Ranks DEF IsMachine
<1>3. DOMAIN m.mem = Words
  BY DEF IsMachine
<1>4. mem = [a \in Words |-> mem[a]]
      /\ \A a \in Words : mem[a] = IF a \in sp .. m.sp - 1 THEN m.reg[At(R, a - sp)] ELSE m.mem[a]
  BY <1>3
<1>5. ASSUME NEW r \in R  PROVE mem[sp + Below(R, r)] = m.reg[r]
  <2> DEFINE b == Below(R, r)
  <2>1. b \in 0 .. c - 1 /\ At(R, b) = r
    BY Ranks
  <2>2. sp \in Int /\ m.sp \in Int /\ sp >= -20 /\ sp = m.sp - c /\ c \in Nat /\ m.sp <= FrameWords
    BY <1>2
  <2> HIDE DEF b, c, mem, sp
  <2>3. sp + b \in sp .. m.sp - 1 /\ (sp + b) - sp = b
    BY <2>1, <2>2
  <2>4. sp + b \in Words
    <3> DEFINE w == sp + b
    <3>1. FrameWords \in Nat /\ StackParams \in Nat
      BY FrameType
    <3>2. w \in Int /\ w >= sp /\ w <= m.sp - 1
      BY <2>2, <2>3
    <3> HIDE DEF w
    <3>3. -20 <= w /\ w <= FrameWords + StackParams - 1
      BY <2>2, <3>1, <3>2
    <3> QED
      BY <3>2, <3>3 DEF Words, w
  <2> QED
    BY <1>4, <2>1, <2>3, <2>4 DEF b, sp
<1> HIDE DEF mem
<1>6. IsMachine(n) /\ n.sp = sp /\ n.mem = mem /\ n.reg = m.reg /\ n.used = m.used
  BY <1>1, <1>2, <1>4 DEF IsMachine
<1>7. ASSUME NEW a \in Words, a >= m.sp \/ a < sp  PROVE mem[a] = m.mem[a]
  <2>1. a \in Int
    BY FrameType DEF Words
  <2> HIDE DEF c
  <2>2. a \notin sp .. m.sp - 1
    BY <1>2, <1>7, <2>1
  <2> QED
    BY <1>4, <2>2
<1> QED
  BY <1>5, <1>6, <1>7

LEMMA PopFacts ==
  ASSUME NEW m, IsMachine(m), NEW R \in SUBSET Regs, NEW n, n = Execute(m, Pop(R))
  PROVE  /\ IsMachine(n) /\ n.sp = m.sp + Cardinality(R) /\ n.mem = m.mem /\ n.used = m.used
         /\ \A r \in Regs : n.reg[r] = IF r \in R THEN m.mem[m.sp + Below(R, r)] ELSE m.reg[r]
<1> DEFINE sp == m.sp + Cardinality(R)
           reg == [r \in DOMAIN m.reg |-> IF r \in R THEN m.mem[m.sp + Below(R, r)] ELSE m.reg[r]]
<1>1. n = [m EXCEPT !.sp = sp, !.reg = reg]
  BY DEF Execute, Pop
<1>2. sp \in Int
  BY Ranks DEF IsMachine
<1>3. DOMAIN m.reg = Regs
  BY DEF IsMachine
<1>4. reg = [r \in Regs |-> reg[r]]
      /\ \A r \in Regs : reg[r] = IF r \in R THEN m.mem[m.sp + Below(R, r)] ELSE m.reg[r]
  BY <1>3
<1> HIDE DEF reg, sp
<1>5. IsMachine(n) /\ n.sp = sp /\ n.reg = reg /\ n.mem = m.mem /\ n.used = m.used
  BY <1>1, <1>2, <1>4 DEF IsMachine
<1> QED
  BY <1>4, <1>5 DEF sp

(* The callee finds its arguments, and gives the words on the stack up.    *)
LEMMA CallFacts ==
  ASSUME NEW m, IsMachine(m), NEW count \in Nat, NEW returns \in BOOLEAN,
         NEW n, n = Execute(m, Call(count, returns))
  PROVE  /\ IsMachine(n) /\ n.mem = m.mem /\ n.sp = m.sp + (IF count > 4 THEN count - 4 ELSE 0)
         /\ n.used = [i \in 1 .. count |-> IF i <= 4 THEN m.reg[i - 1] ELSE Read(m.mem, m.sp + i - 5)]
         /\ returns => n.reg[0] = <<"call">>
<1> DEFINE used == [i \in 1 .. count |-> IF i <= 4 THEN m.reg[i - 1] ELSE Read(m.mem, m.sp + i - 5)]
           reg == [r \in DOMAIN m.reg |-> IF r = 0 /\ returns THEN <<"call">> ELSE Junk]
           sp == m.sp + count - Least(count, 4)
<1>1. n = [m EXCEPT !.used = used, !.reg = reg, !.sp = sp]
  BY DEF Execute, Call
<1>2. m.sp \in Int
  BY DEF IsMachine
<1>3. sp \in Int /\ sp = m.sp + (IF count > 4 THEN count - 4 ELSE 0)
  BY <1>2 DEF Least
<1>4. DOMAIN m.reg = Regs
  BY DEF IsMachine
<1>5. reg = [r \in Regs |-> reg[r]] /\ (returns => reg[0] = <<"call">>)
  BY <1>4 DEF Regs
<1> HIDE DEF used, reg, sp
<1>6. IsMachine(n) /\ n.sp = sp /\ n.reg = reg /\ n.mem = m.mem /\ n.used = used
  BY <1>1, <1>3, <1>5 DEF IsMachine
<1> QED
  BY <1>3, <1>5, <1>6 DEF used

-----------------------------------------------------------------------------
(* Arguments are found while others are passed: only a single one is a     *)
(* right value.                                                            *)
LEMMA LocatedStays ==
  ASSUME NEW g, NEW h, NEW x, Located(g, x), x \notin RValues, Slots(g.offset, g.sp),
         h.offset = g.offset, \A r \in 4 .. 12 : h.m.reg[r] = g.m.reg[r],
         \A a \in Words : a >= 0 => h.m.mem[a] = g.m.mem[a]
  PROVE  Located(h, x)
<1>1. CASE x \in LValues /\ InPlace(g.m, g.offset, x)
  <2>1. x \in DOMAIN g.offset => g.offset[x] \in Words /\ g.offset[x] >= 0
    BY SlotRange
  <2>2. InPlace(h.m, h.offset, x)
    BY <1>1, <2>1, RegsOf DEF InPlace
  <2> QED
    BY <1>1, <2>2 DEF Located
<1> QED
  BY <1>1 DEF Located

(* At most one argument if it is a right value.                            *)
Arguments(args) ==
  /\ Len(args) \in Nat
  /\ Len(args) > 1 => \A i \in 1 .. Len(args) : args[i] \notin RValues

(* The first i arguments can still be passed.                              *)
Passing(g, args, i, compensate) ==
  /\ IsGen(g) /\ IsMachine(g.m) /\ Slots(g.offset, g.sp) /\ DOMAIN g.rVal \subseteq RValues
  /\ compensate \in Int /\ g.m.sp + compensate = 0
  /\ \A j \in 1 .. i : j <= Len(args) => Located(g, args[j])

(* One argument is in its register.                                        *)
Passed(g, h, args, i, d) ==
  /\ Touches(g, h, {d}) /\ Fewer(g, h) /\ h.failed = g.failed
  /\ i <= Len(args) => h.m.reg[d] = MeaningIn(g.offset, args[i])

LEMMA PassRight ==
  ASSUME NEW g, NEW args, NEW i, i \in 1 .. 4, NEW compensate,
         Arguments(args), Passing(g, args, i, compensate),
         NEW h, h = PassInRegister(g, args, i, compensate), NEW d, d = i - 1
  PROVE  Passing(h, args, d, compensate) /\ Passed(g, h, args, i, d)
<1> DEFINE x == args[i]
           l == LoadVal2Reg(g, x, d, compensate, d)
           f == Forget(l, x)
           r == ReleaseTempRegister(f, g.rVal[x])
<1>1. /\ IsGen(g) /\ IsMachine(g.m) /\ Slots(g.offset, g.sp) /\ DOMAIN g.rVal \subseteq RValues
      /\ compensate \in Int /\ g.m.sp + compensate = 0 /\ Len(args) \in Nat
  BY DEF Passing, Arguments
<1>2. CASE i > Len(args)
  <2>1. h = g
    BY <1>2 DEF PassInRegister
  <2>2. Touches(g, h, {d}) /\ Fewer(g, h) /\ h.failed = g.failed
    BY <1>1, <2>1 DEF Touches, Fewer
  <2>3. Passing(h, args, d, compensate)
    BY <1>2, <2>1 DEF Passing
  <2> QED
    BY <1>1, <1>2, <2>2, <2>3 DEF Passed
<1>3. CASE i <= Len(args)
  <2>1. h = IF x \in DOMAIN g.rVal THEN r ELSE l
    BY <1>1, <1>3 DEF PassInRegister
  <2>2. Located(g, x)
    BY <1>3 DEF Passing
  <2>3. d \in Regs /\ d \in 0 .. 3
    BY DEF Regs
  <2>4. /\ IsGen(l) /\ SamePool(g, l) /\ Touches(g, l, {d}) /\ l.m.reg[d] = MeaningIn(g.offset, x)
    <3> HIDE DEF x
    <3>1. /\ IsGen(l) /\ SamePool(g, l) /\ Touches(g, l, {d, d}) /\ l.m.reg[d] = MeaningIn(g.offset, x)
      BY <1>1, <2>2, <2>3, LoadRight
    <3>2. {d, d} = {d}
      OBVIOUS
    <3> QED
      BY <3>1, <3>2
  <2> HIDE DEF l
  <2>5. IsGen(f) /\ SameFrame(l, f) /\ f.failed = l.failed /\ DOMAIN f.rVal = DOMAIN l.rVal \ {x}
        /\ \A w \in DOMAIN f.rVal : f.rVal[w] = l.rVal[w]
    BY <2>4, ForgetFields
  <2> HIDE DEF f
  <2>6. IsGen(r) /\ SameFrame(f, r) /\ r.rVal = f.rVal /\ r.failed = f.failed
    BY <2>5, ReleaseFields
  <2> HIDE DEF r, x
  <2>7. IsGen(h) /\ h.failed = g.failed /\ Fewer(g, h)
    BY <2>1, <2>4, <2>5, <2>6 DEF SamePool, Fewer
  <2>8. h.m = l.m /\ h.offset = l.offset /\ h.sp = l.sp
    BY <2>1, <2>5, <2>6 DEF SameFrame
  <2>9. Touches(g, h, {d}) /\ h.m.reg[d] = MeaningIn(g.offset, x)
    BY <2>4, <2>8 DEF Touches
  <2>10. ASSUME NEW j \in 1 .. i - 1  PROVE Located(h, args[j])
    <3>1. j \in 1 .. i /\ j \in 1 .. Len(args) /\ j <= Len(args) /\ Len(args) > 1
      BY <1>1, <1>3
    <3>2. Located(g, args[j]) /\ args[j] \notin RValues
      BY <3>1 DEF Passing, Arguments
    <3>3. \A q \in 4 .. 12 : h.m.reg[q] = g.m.reg[q]
      BY <2>3, <2>9 DEF Touches, Regs
    <3> QED
      BY <1>1, <2>9, <3>2, <3>3, LocatedStays, ZenonT(30) DEF Touches
  <2>11. Passing(h, args, d, compensate)
    BY <1>1, <2>7, <2>9, <2>10 DEF Passing, Touches, Fewer
  <2> QED
    BY <2>7, <2>9, <2>11 DEF x, Passed
<1> QED
  BY <1>1, <1>2, <1>3

(* All arguments from the first on, to the fourth, are in theirs.          *)
InRegisters(g, h, args, first) ==
  /\ Touches(g, h, 0 .. 3) /\ Fewer(g, h) /\ h.failed = g.failed
  /\ \A i \in first .. 4 : i <= Len(args) => h.m.reg[i - 1] = MeaningIn(g.offset, args[i])

LEMMA PassNext ==
  ASSUME NEW g, NEW h, NEW args, NEW i \in 1 .. 4, NEW compensate, Arguments(args),
         Passing(h, args, i, compensate), InRegisters(g, h, args, i + 1),
         NEW k, k = PassInRegister(h, args, i, compensate)
  PROVE  Passing(k, args, i - 1, compensate) /\ InRegisters(g, k, args, i)
<1> DEFINE d == i - 1
<1>0. d = i - 1 /\ i \in 1 .. 4
  OBVIOUS
<1> HIDE DEF d
<1>1. /\ Passing(k, args, d, compensate)
      /\ Touches(h, k, {d}) /\ Fewer(h, k) /\ k.failed = h.failed
      /\ i <= Len(args) => k.m.reg[d] = MeaningIn(h.offset, args[i])
  <2>1. Passing(k, args, d, compensate) /\ Passed(h, k, args, i, d)
    BY <1>0, PassRight
  <2> QED
    BY <2>1 DEF Passed
<1>2. /\ Touches(g, h, 0 .. 3) /\ Fewer(g, h) /\ h.failed = g.failed /\ h.offset = g.offset
      /\ \A j \in i + 1 .. 4 : j <= Len(args) => h.m.reg[j - 1] = MeaningIn(g.offset, args[j])
  BY DEF InRegisters, Touches
<1>3. Touches(g, k, 0 .. 3)
  <2>1. Touches(g, k, 0 .. 3 \cup {d}) /\ 0 .. 3 \cup {d} = 0 .. 3
    BY <1>0, <1>1, <1>2, TouchesTwice
  <2> QED
    BY <2>1
<1>4. Fewer(g, k) /\ k.failed = g.failed
  BY <1>1, <1>2 DEF Fewer
<1>5. ASSUME NEW j \in i .. 4, j <= Len(args)  PROVE k.m.reg[j - 1] = MeaningIn(g.offset, args[j])
  <2>1. CASE j = i
    BY <1>0, <1>1, <1>2, <1>5, <2>1
  <2>2. CASE j # i
    <3>1. j \in i + 1 .. 4 /\ j - 1 # d /\ j - 1 \in Regs
      BY <1>0, <2>2 DEF Regs
    <3> QED
      BY <1>1, <1>2, <1>5, <3>1 DEF Touches
  <2> QED
    BY <2>1, <2>2
<1> QED
  BY <1>0, <1>1, <1>3, <1>4, <1>5 DEF InRegisters

LEMMA PassAllRight ==
  ASSUME NEW g, NEW args, NEW compensate, Arguments(args), Passing(g, args, 4, compensate),
         NEW h, h = PassInRegisters(g, args, compensate)
  PROVE  Passing(h, args, 0, compensate) /\ InRegisters(g, h, args, 1)
<1> DEFINE a == PassInRegister(g, args, 4, compensate)
           b == PassInRegister(a, args, 3, compensate)
           c == PassInRegister(b, args, 2, compensate)
           d == PassInRegister(c, args, 1, compensate)
<1>1. h = d
  BY DEF PassInRegisters
<1>2. InRegisters(g, g, args, 4 + 1)
  BY DEF InRegisters, Passing, Touches, Fewer
<1>3. Passing(a, args, 4 - 1, compensate) /\ InRegisters(g, a, args, 4)
  BY <1>2, PassNext
<1> HIDE DEF a
<1>4. Passing(b, args, 3 - 1, compensate) /\ InRegisters(g, b, args, 3)
  <2>1. Passing(a, args, 3, compensate) /\ InRegisters(g, a, args, 3 + 1) /\ 3 \in 1 .. 4
    BY <1>3
  <2> QED
    BY <2>1, PassNext
<1> HIDE DEF b
<1>5. Passing(c, args, 2 - 1, compensate) /\ InRegisters(g, c, args, 2)
  <2>1. Passing(b, args, 2, compensate) /\ InRegisters(g, b, args, 2 + 1) /\ 2 \in 1 .. 4
    BY <1>4
  <2> QED
    BY <2>1, PassNext
<1> HIDE DEF c
<1>6. Passing(d, args, 1 - 1, compensate) /\ InRegisters(g, d, args, 1)
  <2>1. Passing(c, args, 1, compensate) /\ InRegisters(g, c, args, 1 + 1) /\ 1 \in 1 .. 4
    BY <1>5
  <2> QED
    BY <2>1, PassNext
<1> QED
  BY <1>1, <1>6

(* Those on the stack: the last first.                                     *)
Stacking(g, h, args, k) ==
  /\ IsGen(h) /\ SamePool(g, h) /\ Touches(g, h, 0 .. 3)
  /\ \A j \in 1 .. k : j <= Len(args) - 4 => h.m.reg[4 - j] = MeaningIn(g.offset, args[Len(args) + 1 - j])

(* One step of PassOnStack.                                                *)
StackLoad(h, args, compensate, k) ==
  IF k > Len(args) - 4 THEN h
  ELSE LoadVal2Reg(h, args[Len(args) + 1 - k], 4 - k, compensate, 4 - k)

LEMMA StackNext ==
  ASSUME NEW g, NEW h, NEW args, NEW k \in 1 .. 4, NEW compensate, Arguments(args),
         Passing(g, args, 8, compensate), Len(args) <= 8, Stacking(g, h, args, k - 1),
         NEW n, n = StackLoad(h, args, compensate, k)
  PROVE  Stacking(g, n, args, k)
<1> DEFINE i == Len(args) + 1 - k
           x == args[i]
           d == 4 - k
<1>1. /\ IsGen(h) /\ SamePool(g, h) /\ Touches(g, h, 0 .. 3) /\ Len(args) \in Nat
      /\ \A j \in 1 .. k - 1 :
           j <= Len(args) - 4 => h.m.reg[4 - j] = MeaningIn(g.offset, args[Len(args) + 1 - j])
  BY DEF Stacking, Arguments
<1>2. CASE k > Len(args) - 4
  <2>1. n = h
    BY <1>2 DEF StackLoad
  <2> QED
    BY <1>1, <1>2, <2>1 DEF Stacking
<1>3. CASE k <= Len(args) - 4
  <2>1. n = LoadVal2Reg(h, x, d, compensate, d)
    BY <1>1, <1>3 DEF StackLoad
  <2>2. i \in 1 .. Len(args) /\ i \in 1 .. 8 /\ Len(args) > 1 /\ d \in Regs /\ d \in 0 .. 3
    BY <1>1, <1>3 DEF Regs
  <2>3. Located(g, x) /\ x \notin RValues
    BY <2>2 DEF Passing, Arguments
  <2>4. Located(h, x)
    <3>1. \A q \in 4 .. 12 : h.m.reg[q] = g.m.reg[q]
      <4>1. \A q \in 4 .. 12 : q \in Regs /\ q \notin 0 .. 3
        BY DEF Regs
      <4> QED
        BY <1>1, <4>1 DEF Touches
    <3> HIDE DEF x
    <3> QED
      BY <1>1, <2>3, <3>1, LocatedStays DEF Touches, Passing
  <2> HIDE DEF x, d
  <2>5. /\ IsMachine(h.m) /\ Slots(h.offset, h.sp) /\ DOMAIN h.rVal \subseteq RValues
        /\ compensate \in Int /\ h.m.sp + compensate = 0 /\ h.offset = g.offset
    BY <1>1 DEF Passing, Touches, SamePool
  <2>6. /\ IsGen(n) /\ SamePool(h, n) /\ Touches(h, n, {d, d}) /\ n.m.reg[d] = MeaningIn(h.offset, x)
    <3>1. IsGen(h) /\ d \in Regs
      BY <1>1, <2>2
    <3> QED
      BY <2>1, <2>4, <2>5, <3>1, LoadRight
  <2>7. Touches(g, n, 0 .. 3)
    <3>1. Touches(g, n, 0 .. 3 \cup {d, d}) /\ 0 .. 3 \cup {d, d} = 0 .. 3
      BY <1>1, <2>2, <2>6, TouchesTwice
    <3> QED
      BY <3>1
  <2>8. ASSUME NEW j \in 1 .. k, j <= Len(args) - 4
        PROVE  n.m.reg[4 - j] = MeaningIn(g.offset, args[Len(args) + 1 - j])
    <3>1. CASE j = k
      BY <2>5, <2>6, <3>1 DEF x, d
    <3>2. CASE j # k
      <4>1. j \in 1 .. k - 1 /\ 4 - j # d /\ 4 - j \in Regs
        BY <3>2 DEF Regs, d
      <4>2. n.m.reg[4 - j] = h.m.reg[4 - j]
        BY <2>6, <4>1 DEF Touches
      <4> QED
        BY <1>1, <2>8, <4>1, <4>2
    <3> QED
      BY <3>1, <3>2
  <2>9. SamePool(g, n)
    BY <1>1, <2>6 DEF SamePool
  <2> QED
    BY <2>6, <2>7, <2>8, <2>9 DEF Stacking
<1> QED
  BY <1>1, <1>2, <1>3

-----------------------------------------------------------------------------
LEMMA RangeRank ==
  ASSUME NEW rest \in 1 .. 4, NEW R, R = {4 - k : k \in 1 .. rest}
  PROVE  /\ R \in SUBSET Regs /\ Cardinality(R) = rest
         /\ \A j \in 0 .. rest - 1 : 4 - rest + j \in R /\ Below(R, 4 - rest + j) = j
<1>1. R = 4 - rest .. 3
  <2>1. ASSUME NEW q \in 4 - rest .. 3  PROVE q \in R
    <3>1. 4 - q \in 1 .. rest /\ q = 4 - (4 - q)
      OBVIOUS
    <3> QED
      BY <3>1
  <2>2. ASSUME NEW q \in R  PROVE q \in 4 - rest .. 3
    OBVIOUS
  <2> QED
    BY <2>1, <2>2
<1>2. Cardinality(R) = rest
  <2>1. 4 - rest \in Int /\ 3 \in Int /\ ~(4 - rest > 3) /\ 3 - (4 - rest) + 1 = rest
    OBVIOUS
  <2> DEFINE a == 4 - rest
             b == 3
  <2>2. a \in Int /\ b \in Int /\ ~(a > b) /\ b - a + 1 = rest /\ R = a .. b
    BY <1>1, <2>1
  <2> HIDE DEF a, b
  <2> QED
    BY <2>2, FS_Interval
<1>3. ASSUME NEW j \in 0 .. rest - 1
      PROVE  4 - rest + j \in R /\ Below(R, 4 - rest + j) = j
  <2> DEFINE r == 4 - rest + j
             S == {q \in R : q < r}
             a == 4 - rest
             b == r - 1
  <2>1. r \in R
    BY <1>1
  <2>2. S = a .. b
    BY <1>1
  <2>3. a \in Int /\ b \in Int /\ (IF a > b THEN 0 ELSE b - a + 1) = j
    OBVIOUS
  <2> HIDE DEF a, b, S
  <2>4. Cardinality(S) = j
    BY <2>2, <2>3, FS_Interval
  <2> QED
    BY <2>1, <2>4 DEF Below, S
<1>4. R \in SUBSET Regs
  BY <1>1 DEF Regs
<1> QED
  BY <1>2, <1>3, <1>4

LEMMA RestFacts ==
  ASSUME NEW n \in Nat, n <= 8, NEW rest, rest = IF n > 4 THEN n - 4 ELSE 0
  PROVE  /\ n \in 0 .. 8 /\ rest \in 0 .. 4 /\ (n <= 4 \/ n > 4)
         /\ (n <= 4 => rest = 0) /\ (n > 4 => rest \in 1 .. 4 /\ rest = n - 4)
         /\ \A i \in 5 .. n : /\ i - 5 \in 0 .. rest - 1 /\ rest - (i - 5) \in 1 .. 4
                             /\ rest - (i - 5) <= rest /\ n + 1 - (rest - (i - 5)) = i
<1>1. n <= 4 \/ n > 4
  OBVIOUS
<1>2. CASE n <= 4
  BY <1>2
<1>3. CASE n > 4
  <2>1. rest = n - 4
    BY <1>3
  <2> QED
    BY <1>3, <2>1
<1> QED
  BY <1>1, <1>2, <1>3

(* The arguments lie where the callee will look for them, and nothing that *)
(* was on the stack before is lost.                                        *)
Stacked(g, h, args, rest) ==
  /\ IsGen(h) /\ SamePool(g, h) /\ h.offset = g.offset /\ h.sp = g.sp
  /\ IsMachine(h.m) /\ h.m.sp = g.m.sp - rest
  /\ \A r \in 4 .. 12 : h.m.reg[r] = g.m.reg[r]
  /\ \A a \in Words : a >= g.m.sp => h.m.mem[a] = g.m.mem[a]
  /\ \A i \in 5 .. Len(args) : h.m.mem[h.m.sp + i - 5] = MeaningIn(g.offset, args[i])

LEMMA LoadsRight ==
  ASSUME NEW g, NEW args, NEW compensate, Arguments(args), Passing(g, args, 8, compensate),
         Len(args) <= 8,
         NEW h, h = StackLoad(StackLoad(StackLoad(StackLoad(g, args, compensate, 1),
                              args, compensate, 2), args, compensate, 3), args, compensate, 4)
  PROVE  Stacking(g, h, args, 4)
<1> DEFINE a == StackLoad(g, args, compensate, 1)
           b == StackLoad(a, args, compensate, 2)
           c == StackLoad(b, args, compensate, 3)
           d == StackLoad(c, args, compensate, 4)
<1>1. Stacking(g, g, args, 1 - 1)
  BY DEF Stacking, Passing, SamePool, Touches
<1>2. Stacking(g, a, args, 1)
  BY <1>1, StackNext
<1> HIDE DEF a
<1>3. Stacking(g, b, args, 2)
  <2>1. Stacking(g, a, args, 2 - 1) /\ 2 \in 1 .. 4
    BY <1>2
  <2> QED
    BY <2>1, StackNext
<1> HIDE DEF b
<1>4. Stacking(g, c, args, 3)
  <2>1. Stacking(g, b, args, 3 - 1) /\ 3 \in 1 .. 4
    BY <1>3
  <2> QED
    BY <2>1, StackNext
<1> HIDE DEF c
<1>5. Stacking(g, d, args, 4)
  <2>1. Stacking(g, c, args, 4 - 1) /\ 4 \in 1 .. 4
    BY <1>4
  <2> QED
    BY <2>1, StackNext
<1> QED
  BY <1>5 DEF a, b, c

LEMMA PassOnStackRight ==
  ASSUME NEW g, NEW args, NEW compensate, Arguments(args), Passing(g, args, 8, compensate),
         Len(args) <= 8, g.m.sp \in -14 .. 0,
         NEW rest, rest = IF Len(args) > 4 THEN Len(args) - 4 ELSE 0,
         NEW h, h = PassOnStack(g, args, compensate)
  PROVE  Stacked(g, h, args, rest) /\ Passing(h, args, 4, compensate + rest)
<1> DEFINE l == StackLoad(StackLoad(StackLoad(StackLoad(g, args, compensate, 1),
                          args, compensate, 2), args, compensate, 3), args, compensate, 4)
           R == {4 - k : k \in 1 .. rest}
<1>1. /\ IsGen(g) /\ IsMachine(g.m) /\ Slots(g.offset, g.sp) /\ DOMAIN g.rVal \subseteq RValues
      /\ compensate \in Int /\ g.m.sp + compensate = 0 /\ Len(args) \in Nat
      /\ g.m.sp \in -14 .. 0 /\ Len(args) <= 8
  BY DEF Passing, Arguments
<1> DEFINE len == Len(args)
           s == g.m.sp
<1>4. /\ len \in 0 .. 8 /\ rest \in 0 .. 4 /\ (len <= 4 \/ len > 4)
      /\ (len <= 4 => rest = 0) /\ (len > 4 => rest \in 1 .. 4 /\ rest = len - 4)
      /\ \A i \in 5 .. len : /\ i - 5 \in 0 .. rest - 1 /\ rest - (i - 5) \in 1 .. 4
                            /\ rest - (i - 5) <= rest /\ len + 1 - (rest - (i - 5)) = i
  <2>1. len \in Nat /\ len <= 8 /\ rest = IF len > 4 THEN len - 4 ELSE 0
    BY <1>1
  <2> HIDE DEF len
  <2> QED
    BY <2>1, RestFacts, ZenonT(30)
<1>5. s \in -14 .. 0 /\ compensate \in Int /\ s + compensate = 0
  BY <1>1
<1> HIDE DEF len, s
<1>2. CASE Len(args) <= 4
  <2>1. h = g /\ rest = 0
    <3>1. len <= 4
      BY <1>2 DEF len
    <3>2. h = g
      BY <1>1, <1>2 DEF PassOnStack
    <3> QED
      BY <1>4, <3>1, <3>2
  <2>2. Stacked(g, h, args, rest)
    BY <1>1, <1>2, <2>1 DEF Stacked, SamePool
  <2>3. compensate + rest = compensate
    <3>1. rest = 0 /\ compensate \in Int
      BY <1>5, <2>1
    <3>2. \A c \in Int : c + 0 = c
      OBVIOUS
    <3> QED
      BY <3>1, <3>2, Zenon
  <2>4. \A j \in 1 .. 4 : j \in 1 .. 8
    OBVIOUS
  <2> QED
    BY <2>1, <2>2, <2>3, <2>4 DEF Passing
<1>3. CASE Len(args) > 4
  <2>1. rest \in 1 .. 4 /\ rest = Len(args) - 4
    BY <1>3, <1>4 DEF len
  <2>2. h = Emit(l, Push(R))
    <3>1. ~(Len(args) - 4 <= 0)
      BY <1>1, <1>3
    <3>2. h = Emit(l, Push({4 - k : k \in 1 .. (Len(args) - 4)}))
      BY <3>1 DEF PassOnStack, StackLoad
    <3> QED
      BY <2>1, <3>2
  <2>3. Stacking(g, l, args, 4)
    BY LoadsRight
  <2> HIDE DEF l
  <2>4. /\ IsGen(l) /\ SamePool(g, l) /\ Touches(g, l, 0 .. 3)
        /\ \A j \in 1 .. 4 :
             j <= rest => l.m.reg[4 - j] = MeaningIn(g.offset, args[Len(args) + 1 - j])
    BY <2>1, <2>3 DEF Stacking
  <2>5. /\ R \in SUBSET Regs /\ Cardinality(R) = rest
        /\ \A j \in 0 .. rest - 1 : 4 - rest + j \in R /\ Below(R, 4 - rest + j) = j
    BY <2>1, RangeRank
  <2> HIDE DEF R
  <2>6. /\ IsGen(h) /\ SamePool(l, h) /\ h.m = Execute(l.m, Push(R))
        /\ h.offset = l.offset /\ h.sp = l.sp
    BY <2>2, <2>4, EmitFields
  <2>7. /\ IsMachine(h.m) /\ h.m.sp = g.m.sp - rest /\ h.m.reg = l.m.reg
        /\ \A r \in R : h.m.mem[h.m.sp + Below(R, r)] = l.m.reg[r]
        /\ \A a \in Words : a >= g.m.sp => h.m.mem[a] = l.m.mem[a]
    <3> DEFINE m == l.m
               n == h.m
    <3>1. IsMachine(m) /\ m.sp = g.m.sp /\ n = Execute(m, Push(R))
      BY <2>4, <2>6 DEF Touches
    <3>2. m.sp - Cardinality(R) >= -20 /\ m.sp <= FrameWords
      <4>1. m.sp = s
        BY <3>1 DEF s
      <4>2. FrameWords \in Nat
        BY FrameType
      <4> HIDE DEF m
      <4> QED
        BY <1>5, <2>1, <2>5, <4>1, <4>2
    <3> HIDE DEF m, n
    <3>3. /\ IsMachine(n) /\ n.sp = m.sp - Cardinality(R) /\ n.reg = m.reg
          /\ \A r \in R : n.mem[n.sp + Below(R, r)] = m.reg[r]
          /\ \A a \in Words : a >= m.sp \/ a < n.sp => n.mem[a] = m.mem[a]
      BY <2>5, <3>1, <3>2, PushFacts
    <3> QED
      BY <2>5, <3>1, <3>3 DEF m, n
  <2>8. ASSUME NEW r \in 4 .. 12  PROVE h.m.reg[r] = g.m.reg[r]
    <3>1. r \in Regs /\ r \notin 0 .. 3
      BY DEF Regs
    <3> QED
      BY <2>4, <2>7, <3>1 DEF Touches
  <2>9. \A a \in Words : a >= g.m.sp => h.m.mem[a] = g.m.mem[a]
    BY <2>4, <2>7 DEF Touches
  <2>10. ASSUME NEW i \in 5 .. Len(args)
         PROVE  h.m.mem[h.m.sp + i - 5] = MeaningIn(g.offset, args[i])
    <3> DEFINE j == i - 5
               k == rest - j
               t == h.m.sp
    <3>1. j \in 0 .. rest - 1 /\ k \in 1 .. 4 /\ k <= rest /\ Len(args) + 1 - k = i
      <4>1. len > 4 /\ i \in 5 .. len
        BY <1>3 DEF len
      <4>2. j \in 0 .. rest - 1 /\ k \in 1 .. 4 /\ k <= rest /\ len + 1 - k = i
        BY <1>4, <4>1
      <4> QED
        BY <4>2 DEF len
    <3>2. 4 - k = 4 - rest + j /\ h.m.sp + i - 5 = h.m.sp + j
      <4>1. t \in Int /\ rest \in Int /\ i \in Int
        BY <2>1, <2>7 DEF IsMachine
      <4> HIDE DEF t
      <4>2. 4 - k = 4 - rest + j /\ t + i - 5 = t + j
        BY <4>1
      <4> QED
        BY <4>2 DEF t
    <3> HIDE DEF j, k
    <3>3. 4 - k \in R /\ Below(R, 4 - k) = j
      BY <2>5, <3>1, <3>2
    <3>4. h.m.mem[h.m.sp + j] = l.m.reg[4 - k]
      BY <2>7, <3>3
    <3>5. l.m.reg[4 - k] = MeaningIn(g.offset, args[i])
      BY <2>4, <3>1
    <3> QED
      BY <3>2, <3>4, <3>5
  <2>11. SamePool(g, h) /\ h.offset = g.offset /\ h.sp = g.sp
    BY <2>4, <2>6 DEF SamePool, Touches
  <2>12. Stacked(g, h, args, rest)
    BY <2>6, <2>7, <2>8, <2>9, <2>10, <2>11 DEF Stacked
  <2>13. ASSUME NEW i \in 1 .. 4  PROVE Located(h, args[i])
    <3>1. i \in 1 .. 8 /\ i \in 1 .. Len(args) /\ i <= Len(args) /\ Len(args) > 1
      BY <1>1, <1>3
    <3>2. Located(g, args[i]) /\ args[i] \notin RValues
      BY <3>1 DEF Passing, Arguments
    <3>3. \A a \in Words : a >= 0 => h.m.mem[a] = g.m.mem[a]
      <4>1. \A a \in Words : a >= 0 => a >= g.m.sp
        <5>1. Words \subseteq Int
          BY FrameType DEF Words
        <5>2. \A a \in Int : a >= 0 => a >= s
          BY <1>5
        <5> QED
          BY <5>1, <5>2 DEF s
      <4> QED
        BY <2>9, <4>1
    <3> DEFINE x == args[i]
    <3>4. Located(g, x) /\ x \notin RValues
      BY <3>2
    <3> HIDE DEF x
    <3>5. h.offset = g.offset /\ Slots(g.offset, g.sp)
      BY <1>1, <2>11
    <3>6. Located(h, x)
      BY <2>8, <3>3, <3>4, <3>5, LocatedStays
    <3> QED
      BY <3>6 DEF x
  <2>14. compensate + rest \in Int /\ h.m.sp + (compensate + rest) = 0
    <3> DEFINE t == h.m.sp
    <3>1. t = s - rest
      BY <2>7 DEF s
    <3> HIDE DEF t
    <3>2. compensate + rest \in Int /\ t + (compensate + rest) = 0
      BY <1>4, <1>5, <3>1
    <3> QED
      BY <3>2 DEF t
  <2> QED
    BY <1>1, <2>6, <2>7, <2>11, <2>12, <2>13, <2>14 DEF Passing, SamePool
<1> QED
  BY <1>1, <1>2, <1>3

-----------------------------------------------------------------------------
(* The registers are saved.                                                *)
Same(g, h) == h.offset = g.offset /\ h.sp = g.sp /\ h.failed = g.failed

(* n words below the frame contain the registers of context, and the frame *)
(* is as it was.                                                           *)
Saves(g, h, context, n) ==
  /\ IsMachine(h.m) /\ h.m.sp = -n
  /\ \A r \in context : h.m.mem[-n + Below(context, r)] = g.m.reg[r]
  /\ \A a \in Words : a >= 0 => h.m.mem[a] = g.m.mem[a]

LEMMA LowWords ==
  ASSUME NEW w \in Int, -20 <= w, w <= 0
  PROVE  w \in Words
  BY FrameType DEF Words

LEMMA DepthFacts ==
  ASSUME NEW n \in 0 .. 14
  PROVE  /\ -n \in -14 .. 0 /\ (n = 0 => -n = 0) /\ 0 - n = -n /\ 0 - n >= -20 /\ -n + n = 0
         /\ \A b \in 0 .. n - 1 : -n + b \in Int /\ -n + b >= -n /\ -20 <= -n + b /\ -n + b <= 0
         /\ \A rest \in 0 .. 4 : /\ (-n - rest) + rest = -n
                               /\ \A j \in 0 .. rest - 1 : /\ (-n - rest) + j \in Int
                                                           /\ -20 <= (-n - rest) + j
                                                           /\ (-n - rest) + j <= 0
  OBVIOUS

LEMMA PushRight ==
  ASSUME NEW g, IsGen(g), IsMachine(g.m), g.m.sp = 0, Slots(g.offset, g.sp),
         DOMAIN g.rVal \subseteq RValues,
         NEW context \in SUBSET Regs, NEW n, n = Cardinality(context),
         NEW args, \A i \in 1 .. 8 : i <= Len(args) => Located(g, args[i]),
         NEW p, p = IF context = {} THEN g ELSE Emit(g, Push(context))
  PROVE  /\ IsGen(p) /\ SamePool(g, p) /\ Same(g, p) /\ Saves(g, p, context, n)
         /\ n \in 0 .. 14 /\ Passing(p, args, 8, n)
<1>1. n \in 0 .. 14 /\ \A r \in context : Below(context, r) \in 0 .. n - 1
  BY Ranks
<1>2. /\ IsGen(p) /\ SamePool(g, p) /\ Same(g, p) /\ Saves(g, p, context, n)
      /\ p.m.reg = g.m.reg
  <2>1. CASE context = {}
    <3>1. n = 0
      BY <2>1, FS_EmptySet
    <3>2. p = g
      BY <2>1
    <3>3. -n = 0
      BY <1>1, <3>1, DepthFacts
    <3> QED
      BY <2>1, <3>2, <3>3 DEF SamePool, Same, Saves
  <2>2. CASE context # {}
    <3>1. /\ IsGen(p) /\ SamePool(g, p) /\ p.m = Execute(g.m, Push(context))
          /\ p.offset = g.offset /\ p.sp = g.sp
      BY <2>2, EmitFields
    <3> DEFINE m == g.m
               k == p.m
    <3>2. IsMachine(m) /\ m.sp = 0 /\ k = Execute(m, Push(context))
      BY <3>1
    <3> HIDE DEF m, k
    <3>3. m.sp - Cardinality(context) >= -20 /\ m.sp <= FrameWords
      <4>1. 0 - n >= -20 /\ 0 <= FrameWords
        BY <1>1, DepthFacts, FrameType
      <4> QED
        BY <3>2, <4>1
    <3>4. /\ IsMachine(k) /\ k.sp = m.sp - Cardinality(context) /\ k.reg = m.reg
          /\ \A r \in context : k.mem[k.sp + Below(context, r)] = m.reg[r]
          /\ \A a \in Words : a >= m.sp \/ a < k.sp => k.mem[a] = m.mem[a]
      BY <3>2, <3>3, PushFacts
    <3>5. k.sp = -n
      <4>1. n \in Int /\ m.sp = 0 /\ k.sp = m.sp - n
        BY <1>1, <3>2, <3>4
      <4> QED
        BY <4>1
    <3>6. Saves(g, p, context, n)
      BY <3>2, <3>4, <3>5 DEF Saves, m, k
    <3> QED
      BY <3>1, <3>4, <3>6 DEF Same, SamePool, m, k
  <2> QED
    BY <2>1, <2>2
<1>3. ASSUME NEW x, Located(g, x)  PROVE Located(p, x)
  <2>1. /\ p.offset = g.offset /\ p.rVal = g.rVal /\ p.m.reg = g.m.reg
        /\ \A a \in Words : a >= 0 => p.m.mem[a] = g.m.mem[a]
    BY <1>2 DEF SamePool, Same, Saves
  <2>2. CASE x \in RValues /\ x \in DOMAIN g.rVal
    BY <1>3, <2>1, <2>2, Kinds DEF Located
  <2>3. CASE x \notin RValues
    BY <1>3, <2>1, <2>3, LocatedStays
  <2> QED
    BY <1>3, <2>2, <2>3, Kinds DEF Located
<1>4. Passing(p, args, 8, n)
  <2>1. n \in Int /\ p.m.sp + n = 0
    <3>1. p.m.sp = -n /\ n \in Int
      BY <1>1, <1>2 DEF Saves
    <3>2. -n + n = 0
      BY <3>1
    <3> QED
      BY <3>1, <3>2
  <2> QED
    BY <1>2, <1>3, <2>1 DEF Passing, Saves, SamePool, Same
<1> QED
  BY <1>1, <1>2, <1>4

(* The callee has run: it has found its arguments.                         *)
Called(g, h, context, n, args, returns) ==
  /\ IsGen(h) /\ Fewer(g, h) /\ Same(g, h) /\ Saves(g, h, context, n)
  /\ Len(args) \in Nat /\ h.m.used = [i \in 1 .. Len(args) |-> MeaningIn(g.offset, args[i])]
  /\ returns => h.m.reg[0] = <<"call">>

LEMMA CallRight ==
  ASSUME NEW g, NEW context \in SUBSET Regs, NEW n \in 0 .. 14, n = Cardinality(context),
         NEW args, Arguments(args), Len(args) <= 8,
         NEW p, IsGen(p), SamePool(g, p), Same(g, p), Saves(g, p, context, n),
         Passing(p, args, 8, n), NEW rest, rest = IF Len(args) > 4 THEN Len(args) - 4 ELSE 0,
         NEW q, q = PassInRegisters(PassOnStack(p, args, n), args, n + rest),
         NEW returns \in BOOLEAN, NEW h, h = Emit(q, Call(Len(args), returns))
  PROVE  Called(g, h, context, n, args, returns)
<1> DEFINE s == PassOnStack(p, args, n)
           low == n + rest
           len == Len(args)
<1>1. p.m.sp = -n /\ Len(args) \in Nat
  BY DEF Saves, Arguments
<1>2. p.m.sp \in -14 .. 0
  <2>1. -n \in -14 .. 0
    BY DepthFacts
  <2> QED
    BY <1>1, <2>1
<1>3. Stacked(p, s, args, rest) /\ Passing(s, args, 4, low)
  BY <1>2, PassOnStackRight
<1> HIDE DEF s, low
<1>4. q = PassInRegisters(s, args, low)
  BY DEF s, low
<1>5. Passing(q, args, 0, low) /\ InRegisters(s, q, args, 1)
  BY <1>3, <1>4, PassAllRight
<1>6. /\ IsGen(s) /\ SamePool(p, s) /\ s.offset = p.offset /\ s.sp = p.sp
      /\ IsMachine(s.m) /\ s.m.sp = p.m.sp - rest
      /\ \A a \in Words : a >= p.m.sp => s.m.mem[a] = p.m.mem[a]
      /\ \A i \in 5 .. Len(args) : s.m.mem[s.m.sp + i - 5] = MeaningIn(p.offset, args[i])
  BY <1>3 DEF Stacked
<1>7. /\ IsGen(q) /\ Touches(s, q, 0 .. 3) /\ Fewer(s, q) /\ q.failed = s.failed
      /\ \A i \in 1 .. 4 : i <= Len(args) => q.m.reg[i - 1] = MeaningIn(s.offset, args[i])
  BY <1>5 DEF Passing, InRegisters
<1>8. /\ IsMachine(q.m) /\ q.m.sp = s.m.sp /\ q.m.mem = s.m.mem
      /\ q.offset = s.offset /\ q.sp = s.sp
  BY <1>7 DEF Touches
<1>9. len \in 0 .. 8 /\ rest \in 0 .. 4 /\ (len <= 4 => rest = 0) /\ (len > 4 => rest = len - 4)
      /\ (IF len > 4 THEN len - 4 ELSE 0) = rest
      /\ \A i \in 5 .. len : i - 5 \in 0 .. rest - 1
  <2>1. len \in Nat /\ len <= 8 /\ rest = IF len > 4 THEN len - 4 ELSE 0
    BY <1>1
  <2> HIDE DEF len
  <2> QED
    BY <2>1, RestFacts
<1>10. /\ IsGen(h) /\ SamePool(q, h) /\ h.m = Execute(q.m, Call(len, returns))
       /\ h.offset = q.offset /\ h.sp = q.sp
  BY <1>7, EmitFields
<1> DEFINE m == q.m
           k == h.m
           got == [i \in 1 .. len |-> IF i <= 4 THEN m.reg[i - 1] ELSE Read(m.mem, m.sp + i - 5)]
<1>11. /\ IsMachine(k) /\ k.mem = m.mem /\ k.sp = m.sp + (IF len > 4 THEN len - 4 ELSE 0)
       /\ k.used = got
       /\ returns => k.reg[0] = <<"call">>
  <2>1. IsMachine(m) /\ len \in Nat /\ k = Execute(m, Call(len, returns))
    BY <1>8, <1>9, <1>10
  <2> HIDE DEF m, k, len
  <2> QED
    BY <2>1, CallFacts
<1>12. h.m.sp = -n
  <2> DEFINE t == m.sp
  <2>1. t = -n - rest /\ k.sp = t + (IF len > 4 THEN len - 4 ELSE 0)
    BY <1>1, <1>6, <1>8, <1>11
  <2> HIDE DEF t, len
  <2>2. (IF len > 4 THEN len - 4 ELSE 0) = rest
    BY <1>9
  <2>4. (-n - rest) + rest = -n
    BY <1>9, DepthFacts
  <2> QED
    BY <2>1, <2>2, <2>4
<1>13. Saves(g, h, context, n)
  <2>1. \A a \in Words : a >= -n => h.m.mem[a] = p.m.mem[a]
    BY <1>1, <1>6, <1>8, <1>11
  <2>2. ASSUME NEW r \in context  PROVE h.m.mem[-n + Below(context, r)] = g.m.reg[r]
    <3> DEFINE w == -n + Below(context, r)
    <3>1. Below(context, r) \in 0 .. n - 1
      BY Ranks
    <3>2. w \in Int /\ w >= -n /\ -20 <= w /\ w <= 0
      BY <3>1, DepthFacts
    <3>3. w \in Words
      BY <3>2, LowWords
    <3>4. p.m.mem[w] = g.m.reg[r]
      BY DEF Saves
    <3> QED
      BY <2>1, <3>2, <3>3, <3>4
  <2>3. ASSUME NEW a \in Words, a >= 0  PROVE h.m.mem[a] = g.m.mem[a]
    <3>1. a \in Int
      BY FrameType DEF Words
    <3>2. a >= -n
      BY <2>3, <3>1
    <3>3. p.m.mem[a] = g.m.mem[a]
      BY <2>3 DEF Saves
    <3> QED
      BY <2>1, <3>2, <3>3
  <2> QED
    BY <1>11, <1>12, <2>2, <2>3 DEF Saves
<1>14. h.m.used = [i \in 1 .. len |-> MeaningIn(g.offset, args[i])]
  <2>1. ASSUME NEW i \in 1 .. len
        PROVE  (IF i <= 4 THEN m.reg[i - 1] ELSE Read(m.mem, m.sp + i - 5)) = MeaningIn(g.offset, args[i])
    <3>1. CASE i <= 4
      <4>1. i \in 1 .. 4 /\ i <= Len(args)
        BY <1>9, <3>1
      <4>2. q.m.reg[i - 1] = MeaningIn(s.offset, args[i])
        BY <1>7, <4>1
      <4>3. s.offset = g.offset
        BY <1>6 DEF Same
      <4> QED
        BY <3>1, <4>2, <4>3
    <3>2. CASE ~(i <= 4)
      <4>1. i \in 5 .. Len(args)
        BY <1>9, <3>2
      <4>2. s.m.mem[s.m.sp + i - 5] = MeaningIn(g.offset, args[i])
        BY <1>6, <4>1 DEF Same
      <4>3. s.m.sp + i - 5 \in Words
        <5> DEFINE t == s.m.sp
        <5>1. t = -n - rest
          BY <1>1, <1>6
        <5> HIDE DEF t
        <5>2. i - 5 \in 0 .. rest - 1
          BY <1>9, <4>1
        <5> DEFINE j == i - 5
                   w == (-n - rest) + j
        <5>3. w \in Int /\ -20 <= w /\ w <= 0
          BY <1>9, <5>2, DepthFacts
        <5>4. w \in Words
          BY <5>3, LowWords
        <5>5. t + i - 5 = w
          <6>1. n \in Int /\ rest \in Int /\ i \in Int /\ t = -n - rest
            BY <1>9, <5>1
          <6> QED
            BY <6>1
        <5> QED
          BY <5>4, <5>5 DEF t
      <4>4. m.mem = s.m.mem /\ m.sp = s.m.sp /\ DOMAIN m.mem = Words
        BY <1>8 DEF IsMachine
      <4> HIDE DEF m
      <4> QED
        BY <3>2, <4>2, <4>3, <4>4 DEF Read
    <3> QED
      BY <3>1, <3>2
  <2>2. got = [i \in 1 .. len |-> MeaningIn(g.offset, args[i])]
    BY <2>1
  <2> QED
    BY <1>11, <2>2
<1>15. Fewer(g, h) /\ Same(g, h)
  BY <1>6, <1>7, <1>8, <1>10 DEF Fewer, Same, SamePool
<1> QED
  BY <1>1, <1>10, <1>11, <1>13, <1>14, <1>15 DEF Called

-----------------------------------------------------------------------------
(* The registers are restored, and the result is fetched.                  *)
Returned(g, h, context, n, args, returns) ==
  /\ IsGen(h) /\ Fewer(g, h) /\ Same(g, h) /\ IsMachine(h.m) /\ h.m.sp = 0
  /\ \A r \in context : h.m.reg[r] = g.m.reg[r]
  /\ \A a \in Words : a >= 0 => h.m.mem[a] = g.m.mem[a]
  /\ h.m.used = [i \in 1 .. Len(args) |-> MeaningIn(g.offset, args[i])]
  /\ returns => IF 0 \in context THEN h.m.mem[-n - 1] = <<"call">> ELSE h.m.reg[0] = <<"call">>

(* The result waits below the stack if R0 will be restored.                *)
SetAside(h, context, n, returns) ==
  returns /\ 0 \in context => h.m.mem[-n - 1] = <<"call">>

LEMMA StrUsed ==
  ASSUME NEW m, IsMachine(m), NEW r, NEW a
  PROVE  Execute(m, Str(r, a)).used = m.used
<1> DEFINE ins == Str(r, a)
           contents == [i \in DOMAIN ins.srcs |-> Content(m, ins.srcs[i])]
           address(off) == IF off[1] = "offset" THEN m.sp + off[2] ELSE 1000
           mem == [b \in DOMAIN m.mem |-> IF b = address(contents[2]) THEN contents[1] ELSE m.mem[b]]
<1>1. Execute(m, ins) = [m EXCEPT !.mem = mem]
  BY DEF Execute, Str
<1> HIDE DEF mem, ins
<1>2. Execute(m, ins).used = m.used
  BY <1>1 DEF IsMachine
<1> QED
  BY <1>2 DEF ins

LEMMA PutRight ==
  ASSUME NEW g, NEW context \in SUBSET Regs, NEW n \in 0 .. 14, n = Cardinality(context),
         NEW args, NEW returns \in BOOLEAN, NEW h, Called(g, h, context, n, args, returns),
         NEW p, p = IF returns /\ 0 \in context THEN Emit(h, Str(0, Imm(Offset(-1)))) ELSE h
  PROVE  Called(g, p, context, n, args, returns) /\ SetAside(p, context, n, returns)
<1>1. CASE ~(returns /\ 0 \in context)
  BY <1>1 DEF SetAside
<1>2. CASE returns /\ 0 \in context
  <2>1. /\ IsGen(h) /\ Fewer(g, h) /\ Same(g, h) /\ Saves(g, h, context, n) /\ Len(args) \in Nat
        /\ h.m.used = [i \in 1 .. Len(args) |-> MeaningIn(g.offset, args[i])]
        /\ h.m.reg[0] = <<"call">>
    BY <1>2 DEF Called
  <2>2. /\ IsMachine(h.m) /\ h.m.sp = -n
        /\ \A r \in context : h.m.mem[-n + Below(context, r)] = g.m.reg[r]
        /\ \A a \in Words : a >= 0 => h.m.mem[a] = g.m.mem[a]
    BY <2>1 DEF Saves
  <2>3. /\ IsGen(p) /\ SamePool(h, p) /\ p.m = Execute(h.m, Str(0, Imm(Offset(-1))))
        /\ p.offset = h.offset /\ p.sp = h.sp
    BY <1>2, <2>1, EmitFields
  <2> DEFINE call == <<"call">>
             w == -n - 1
  <2>4. Content(h.m, Imm(Offset(-1))) = Offset(-1) /\ Content(h.m, Reg(0)) = call
    BY <2>1, <2>2 DEF Content, Imm, Reg, Read, IsMachine, Regs
  <2>5. h.m.sp + -1 = w
    <3>1. -n + -1 = -n - 1
      OBVIOUS
    <3> QED
      BY <2>2, <3>1
  <2>6. w \in Int /\ -20 <= w /\ w < -n /\ w < 0
    OBVIOUS
  <2>7. w \in Words
    BY <2>6, LowWords
  <2> HIDE DEF call, w
  <2>8. p.m = SetWord(h.m, w, call)
    BY <2>3, <2>4, <2>5, ExecStr
  <2>9. /\ IsMachine(p.m) /\ p.m.sp = h.m.sp /\ p.m.reg = h.m.reg /\ p.m.used = h.m.used
        /\ \A a \in Words : p.m.mem[a] = IF a = w THEN call ELSE h.m.mem[a]
    <3> DEFINE m == h.m
               k == p.m
    <3>1. IsMachine(m) /\ k = SetWord(m, w, call)
      BY <2>2, <2>8
    <3> HIDE DEF m, k
    <3>2. /\ IsMachine(k) /\ k.sp = m.sp /\ k.reg = m.reg /\ k.used = m.used
          /\ \A a \in Words : k.mem[a] = IF a = w THEN call ELSE m.mem[a]
      BY <3>1, SetWordFacts
    <3> QED
      BY <3>2 DEF m, k
  <2>10. ASSUME NEW r \in context  PROVE p.m.mem[-n + Below(context, r)] = g.m.reg[r]
    <3> DEFINE a == -n + Below(context, r)
    <3>1. Below(context, r) \in 0 .. n - 1
      BY Ranks
    <3>2. a \in Int /\ a >= -n /\ -20 <= a /\ a <= 0
      BY <3>1, DepthFacts
    <3>3. a \in Words
      BY <3>2, LowWords
    <3>4. a # w
      BY <2>6, <3>2
    <3>5. h.m.mem[a] = g.m.reg[r]
      BY <2>2
    <3> QED
      BY <2>9, <3>3, <3>4, <3>5
  <2>11. ASSUME NEW a \in Words, a >= 0  PROVE p.m.mem[a] = g.m.mem[a]
    <3>1. a # w
      BY <2>6, <2>11
    <3> QED
      BY <2>2, <2>9, <2>11, <3>1
  <2>12. Saves(g, p, context, n)
    BY <2>2, <2>9, <2>10, <2>11 DEF Saves
  <2>13. Fewer(g, p) /\ Same(g, p)
    BY <2>1, <2>3 DEF Fewer, Same, SamePool
  <2>14. Called(g, p, context, n, args, returns)
    BY <2>1, <2>3, <2>9, <2>12, <2>13 DEF Called
  <2>15. p.m.mem[-n - 1] = <<"call">>
    BY <2>7, <2>9 DEF call, w
  <2> QED
    BY <2>14, <2>15 DEF SetAside
<1> QED
  BY <1>1, <1>2

LEMMA PopRight ==
  ASSUME NEW g, NEW context \in SUBSET Regs, NEW n \in 0 .. 14, n = Cardinality(context),
         NEW args, NEW returns \in BOOLEAN, NEW h, Called(g, h, context, n, args, returns),
         SetAside(h, context, n, returns),
         NEW p, p = IF context = {} THEN h ELSE Emit(h, Pop(context))
  PROVE  Returned(g, p, context, n, args, returns)
<1>1. /\ IsGen(h) /\ Fewer(g, h) /\ Same(g, h) /\ Saves(g, h, context, n)
      /\ h.m.used = [i \in 1 .. Len(args) |-> MeaningIn(g.offset, args[i])]
      /\ returns => h.m.reg[0] = <<"call">>
  BY DEF Called
<1>2. /\ IsMachine(h.m) /\ h.m.sp = -n
      /\ \A r \in context : h.m.mem[-n + Below(context, r)] = g.m.reg[r]
      /\ \A a \in Words : a >= 0 => h.m.mem[a] = g.m.mem[a]
  BY <1>1 DEF Saves
<1>3. CASE context = {}
  <2>1. n = 0
    BY <1>3, FS_EmptySet
  <2>2. h.m.sp = 0
    BY <1>2, <2>1, DepthFacts
  <2> QED
    BY <1>1, <1>2, <1>3, <2>2 DEF Returned
<1>4. CASE context # {}
  <2>1. /\ IsGen(p) /\ SamePool(h, p) /\ p.m = Execute(h.m, Pop(context))
        /\ p.offset = h.offset /\ p.sp = h.sp
    BY <1>1, <1>4, EmitFields
  <2>2. /\ IsMachine(p.m) /\ p.m.sp = h.m.sp + n /\ p.m.mem = h.m.mem /\ p.m.used = h.m.used
        /\ \A r \in Regs : p.m.reg[r] = IF r \in context THEN h.m.mem[h.m.sp + Below(context, r)]
                                        ELSE h.m.reg[r]
    <3> DEFINE m == h.m
               k == p.m
    <3>1. IsMachine(m) /\ k = Execute(m, Pop(context))
      BY <1>2, <2>1
    <3> HIDE DEF m, k
    <3>2. /\ IsMachine(k) /\ k.sp = m.sp + Cardinality(context) /\ k.mem = m.mem /\ k.used = m.used
          /\ \A r \in Regs : k.reg[r] = IF r \in context THEN m.mem[m.sp + Below(context, r)] ELSE m.reg[r]
      BY <3>1, PopFacts
    <3> QED
      BY <3>2 DEF m, k
  <2>3. p.m.sp = 0
    BY <1>2, <2>2, DepthFacts
  <2>4. \A r \in context : p.m.reg[r] = g.m.reg[r]
    BY <1>2, <2>2
  <2>5. returns => IF 0 \in context THEN p.m.mem[-n - 1] = <<"call">> ELSE p.m.reg[0] = <<"call">>
    <3>1. 0 \in Regs
      BY DEF Regs
    <3> QED
      BY <1>1, <2>2, <3>1 DEF SetAside
  <2>6. Fewer(g, p) /\ Same(g, p)
    BY <1>1, <2>1 DEF Fewer, Same, SamePool
  <2>7. \A a \in Words : a >= 0 => p.m.mem[a] = g.m.mem[a]
    BY <1>2, <2>2
  <2> QED
    BY <1>1, <2>1, <2>2, <2>3, <2>4, <2>5, <2>6, <2>7 DEF Returned
<1> QED
  BY <1>3, <1>4

(* Making the result leaves alone what the callee was given.               *)
Sets(g, instruction) ==
  \A r : \E c : Execute(g.m, [instruction EXCEPT !.rd = r]) = SetReg(g.m, r, c)

LEMMA AllocMachine ==
  ASSUME NEW g, IsGen(g)
  PROVE  LET t == AllocTempRegister(g) IN IsGen(t.g) /\ t.g.m = g.m
<1>1. CASE g.pool = {}
  BY <1>1 DEF AllocTempRegister, IsGen
<1>2. CASE g.pool # {}
  <2> DEFINE r == FirstOf(g.pool)
             h == [g EXCEPT !.pool = @ \ {r}]
  <2>1. AllocTempRegister(g) = [g |-> h, reg |-> r]
    BY <1>2 DEF AllocTempRegister
  <2> HIDE DEF r
  <2>2. IsGen(h) /\ h.m = g.m
    BY DEF IsGen
  <2> HIDE DEF h
  <2> QED
    BY <2>1, <2>2
<1> QED
  BY <1>1, <1>2

LEMMA StoreUsed ==
  ASSUME NEW g, IsGen(g), IsMachine(g.m), NEW des, NEW v
  PROVE  Store2Memory(g, des, v).m.used = g.m.used
<1> DEFINE new == v \notin DOMAIN g.offset
           at == IF new THEN g.sp ELSE g.offset[v]
           k == AllocTempRegister(g).g
           r == AllocTempRegister(g).reg
           o == LoadOffset(k, at, r).g
           src == LoadOffset(k, at, r).src
           put == Emit(o, Str(des, src))
           a == ReleaseTempRegister(put, r)
           b == ReleaseTempRegister(a, des)
<1>1. Store2Memory(g, des, v) = IF new THEN [b EXCEPT !.sp = @ + 1, !.offset = With(@, v, at)] ELSE b
  BY DEF Store2Memory
<1>2. IsGen(k) /\ k.m = g.m
  BY AllocMachine
<1> HIDE DEF k, r, at, new
<1>3. IsGen(o) /\ IsMachine(o.m) /\ o.m.used = g.m.used
  <2>1. CASE o = k
    BY <1>2, <2>1
  <2>2. CASE o = Emit(k, Move(r, Imm(Offset(at))))
    <3>1. IsGen(o) /\ o.m = Execute(k.m, Move(r, Imm(Offset(at))))
      BY <1>2, <2>2, EmitFields
    <3> DEFINE c == Content(k.m, Imm(Offset(at)))
    <3>2. o.m = SetReg(k.m, r, c)
      BY <3>1, ExecMove
    <3> HIDE DEF c, o
    <3>3. IsMachine(o.m) /\ o.m.used = k.m.used
      BY <1>2, <3>2, SetRegFacts
    <3> QED
      BY <1>2, <3>1, <3>3
  <2> QED
    BY <2>1, <2>2 DEF LoadOffset
<1> HIDE DEF o, src
<1>4. IsGen(put) /\ put.m.used = o.m.used
  <2>1. IsGen(put) /\ put.m = Execute(o.m, Str(des, src))
    BY <1>3, EmitFields
  <2> QED
    BY <1>3, <2>1, StrUsed
<1> HIDE DEF put
<1>5. IsGen(a) /\ a.m = put.m
  BY <1>4, ReleaseFields DEF SameFrame
<1> HIDE DEF a
<1>6. IsGen(b) /\ b.m = a.m
  BY <1>5, ReleaseFields DEF SameFrame
<1> HIDE DEF b
<1>7. [b EXCEPT !.sp = @ + 1, !.offset = With(@, v, at)].m = b.m
  BY <1>6 DEF IsGen
<1> QED
  BY <1>1, <1>3, <1>4, <1>5, <1>6, <1>7

LEMMA ProduceUsed ==
  ASSUME NEW g, IsGen(g), IsMachine(g.m), NEW v, NEW instruction, Sets(g, instruction)
  PROVE  Produce(g, v, instruction).m.used = g.m.used
<1> DEFINE Ins(r) == [instruction EXCEPT !.rd = r]
           p == Produce(g, v, instruction)
           t == AllocTempRegister(g)
<1>1. ASSUME NEW k, IsGen(k), k.m = g.m, NEW r
      PROVE  /\ IsGen(Emit(k, Ins(r))) /\ IsMachine(Emit(k, Ins(r)).m)
             /\ Emit(k, Ins(r)).m.used = g.m.used
  <2>1. PICK c : Execute(g.m, Ins(r)) = SetReg(g.m, r, c)
    BY DEF Sets
  <2> HIDE DEF Ins
  <2>2. IsGen(Emit(k, Ins(r))) /\ Emit(k, Ins(r)).m = SetReg(g.m, r, c)
    BY <1>1, <2>1, EmitFields
  <2>3. IsMachine(SetReg(g.m, r, c)) /\ SetReg(g.m, r, c).used = g.m.used
    BY SetRegFacts
  <2> QED
    BY <2>2, <2>3
<1>2. IsGen(t.g) /\ t.g.m = g.m
  BY AllocMachine
<1>3. CASE v \in DOMAIN variableRegs
  <2>1. p = Emit(g, Ins(variableRegs[v]))
    BY <1>3 DEF Produce, WriteRegister
  <2> HIDE DEF p, Ins
  <2>2. p.m.used = g.m.used
    BY <1>1, <2>1
  <2> QED
    BY <2>2 DEF p
<1>4. CASE v \notin DOMAIN variableRegs /\ v \in LValues
  <2> DEFINE made == Emit(t.g, Ins(t.reg))
  <2>1. p = Store2Memory(made, t.reg, v)
    BY <1>4 DEF Produce, WriteRegister
  <2>2. IsGen(made) /\ IsMachine(made.m) /\ made.m.used = g.m.used
    <3> HIDE DEF t, Ins
    <3> QED
      BY <1>1, <1>2
  <2> HIDE DEF made, p
  <2>3. p.m.used = g.m.used
    BY <2>1, <2>2, StoreUsed
  <2> QED
    BY <2>3 DEF p
<1>5. CASE v \notin DOMAIN variableRegs /\ v \notin LValues
  <2> DEFINE k == Keep(t.g, v, t.reg)
  <2>1. p = Emit(k, Ins(t.reg))
    BY <1>5 DEF Produce, WriteRegister
  <2> HIDE DEF t
  <2>2. IsGen(k) /\ k.m = g.m
    BY <1>2, KeepFields DEF SameFrame
  <2> HIDE DEF p, k, Ins
  <2>3. p.m.used = g.m.used
    BY <1>1, <2>1, <2>2
  <2> QED
    BY <2>3 DEF p
<1> QED
  BY <1>3, <1>4, <1>5

-----------------------------------------------------------------------------
(* The call as a whole.                                                    *)
Comes(g, h, context, n, args, returns) ==
  n \in 0 .. 14 /\ Returned(g, h, context, n, args, returns)

LEMMA CallReturns ==
  ASSUME NEW g, IsGen(g), IsMachine(g.m), g.m.sp = 0, Slots(g.offset, g.sp),
         DOMAIN g.rVal \subseteq RValues,
         NEW context, context \in SUBSET Regs, NEW n, n = Cardinality(context),
         NEW args, Arguments(args), Len(args) <= 8,
         \A i \in 1 .. Len(args) : Located(g, args[i]),
         NEW rest, rest = IF Len(args) > 4 THEN Len(args) - 4 ELSE 0,
         NEW returns, returns \in BOOLEAN,
         NEW p, p = IF context = {} THEN g ELSE Emit(g, Push(context)),
         NEW q, q = PassInRegisters(PassOnStack(p, args, n), args, n + rest),
         NEW c, c = Emit(q, Call(Len(args), returns)),
         NEW s, s = IF returns /\ 0 \in context THEN Emit(c, Str(0, Imm(Offset(-1)))) ELSE c,
         NEW h, h = IF context = {} THEN s ELSE Emit(s, Pop(context))
  PROVE  Comes(g, h, context, n, args, returns)
<1>1. \A i \in 1 .. 8 : i <= Len(args) => Located(g, args[i])
  BY DEF Arguments
<1>2. /\ IsGen(p) /\ SamePool(g, p) /\ Same(g, p) /\ Saves(g, p, context, n)
      /\ n \in 0 .. 14 /\ Passing(p, args, 8, n)
  BY <1>1, PushRight
<1>3. Called(g, c, context, n, args, returns)
  BY <1>2, CallRight, ZenonT(30)
<1>4. Called(g, s, context, n, args, returns) /\ SetAside(s, context, n, returns)
  BY <1>2, <1>3, PutRight, ZenonT(30)
<1>5. Returned(g, h, context, n, args, returns)
  BY <1>2, <1>4, PopRight
<1> QED
  BY <1>2, <1>5 DEF Comes

(* What was saved, or in memory, is still there.                           *)
LEMMA ReturnedReading ==
  ASSUME NEW g, NEW L, Reading(g, L), NEW h, NEW context \in SUBSET Regs, NEW n, NEW args, NEW returns,
         Returned(g, h, context, n, args, returns),
         NEW alive, alive \subseteq L,
         \A v \in alive : v \in DOMAIN variableRegs => variableRegs[v] \in context,
         \A r \in DOMAIN g.rVal : g.rVal[r] \in context
  PROVE  Reading(h, alive)
<1>1. /\ IsGen(h) /\ Fewer(g, h) /\ Same(g, h) /\ IsMachine(h.m) /\ h.m.sp = 0
      /\ \A r \in context : h.m.reg[r] = g.m.reg[r]
      /\ \A a \in Words : a >= 0 => h.m.mem[a] = g.m.mem[a]
  BY DEF Returned
<1>2. /\ LeftKept(g, L) /\ RightKept(g) /\ DOMAIN g.rVal \subseteq RValues /\ g.offset = var2offset
  BY DEF Reading
<1>3. /\ g.m.mem[ReturnSlot] = ReturnAddress /\ L \subseteq LValues /\ Slots(g.offset, g.sp)
      /\ \A v \in L : InPlace(g.m, g.offset, v)
  BY <1>2 DEF LeftKept
<1>4. h.offset = g.offset /\ h.sp = g.sp
  BY <1>1 DEF Same
<1>5. h.m.mem[ReturnSlot] = ReturnAddress
  <2>1. ReturnSlot \in Words /\ ReturnSlot >= 0
    BY FrameType DEF Words
  <2> QED
    BY <1>1, <1>3, <2>1
<1>6. ASSUME NEW v \in alive  PROVE InPlace(h.m, h.offset, v)
  <2>1. InPlace(g.m, g.offset, v)
    BY <1>3
  <2>2. CASE v \in DOMAIN variableRegs
    BY <1>1, <2>1, <2>2 DEF InPlace
  <2>3. CASE v \notin DOMAIN variableRegs
    <3>1. v \in DOMAIN g.offset /\ g.m.mem[g.offset[v]] = Val(v)
      BY <2>1, <2>3 DEF InPlace
    <3>2. g.offset[v] \in Words /\ g.offset[v] >= 0
      BY <1>3, <3>1, SlotRange
    <3> QED
      BY <1>1, <1>4, <2>3, <3>1, <3>2 DEF InPlace
  <2> QED
    BY <2>2, <2>3
<1>7. LeftKept(h, alive)
  BY <1>1, <1>3, <1>4, <1>5, <1>6 DEF LeftKept
<1>8. RightKept(h) /\ DOMAIN h.rVal \subseteq RValues
  BY <1>1, <1>2 DEF Fewer, RightKept
<1> QED
  BY <1>1, <1>2, <1>4, <1>7, <1>8 DEF Reading

(* The result is fetched from R0, or from below the stack.                 *)
LEMMA GetRight ==
  ASSUME NEW g, NEW h, NEW context \in SUBSET Regs, NEW n \in 0 .. 14, NEW args,
         Returned(g, h, context, n, args, TRUE), n = Cardinality(context),
         NEW get, get = IF 0 \in context THEN Ldr(Result, Imm(Offset(FetchedAt(context))))
                        ELSE Move(Result, Reg(0))
  PROVE  (h.failed \/ Makes(h, get, <<"call">>)) /\ Sets(h, get)
<1>1. /\ IsMachine(h.m) /\ h.m.sp = 0
      /\ IF 0 \in context THEN h.m.mem[-n - 1] = <<"call">> ELSE h.m.reg[0] = <<"call">>
  BY DEF Returned
<1> DEFINE call == <<"call">>
<1>2. CASE 0 \in context
  <2> DEFINE w == -n - 1
  <2>1. w \in Words /\ FetchedAt(context) = w /\ 0 + w = w
    <3>1. w \in Int /\ -20 <= w /\ w <= 0 /\ 0 + w = w
      OBVIOUS
    <3>2. FetchedAt(context) = w
      BY DEF FetchedAt
    <3> HIDE DEF w
    <3> QED
      BY <3>1, <3>2, LowWords
  <2>2. h.m.mem[w] = call
    BY <1>1, <1>2
  <2> HIDE DEF w, call
  <2>3. Read(h.m.mem, h.m.sp + w) = call
    BY <1>1, <2>1, <2>2 DEF Read, IsMachine
  <2>4. get = Ldr(Result, Imm(Offset(w)))
    BY <1>2, <2>1
  <2>5. h.failed \/ Makes(h, get, call)
    BY <2>3, <2>4, MakesLdr
  <2>6. ASSUME NEW r  PROVE Execute(h.m, [get EXCEPT !.rd = r]) = SetReg(h.m, r, call)
    <3>1. [get EXCEPT !.rd = r] = Ldr(r, Imm(Offset(w)))
      BY <2>4 DEF Ldr
    <3>2. Content(h.m, Imm(Offset(w))) = Offset(w)
      BY DEF Content, Imm
    <3> QED
      BY <2>3, <3>1, <3>2, ExecLdr
  <2>7. Sets(h, get)
    BY <2>6 DEF Sets
  <2> QED
    BY <2>5, <2>7 DEF call
<1>3. CASE 0 \notin context
  <2>1. h.m.reg[0] = call
    BY <1>1, <1>3
  <2> HIDE DEF call
  <2>2. Content(h.m, Reg(0)) = call
    BY <1>1, <2>1 DEF Content, Reg, Read, IsMachine, Regs
  <2>3. get = Move(Result, Reg(0))
    BY <1>3
  <2>4. h.failed \/ Makes(h, get, call)
    BY <2>2, <2>3, MakesMove
  <2>5. ASSUME NEW r  PROVE Execute(h.m, [get EXCEPT !.rd = r]) = SetReg(h.m, r, call)
    <3>1. [get EXCEPT !.rd = r] = Move(r, Reg(0))
      BY <2>3 DEF Move
    <3> QED
      BY <2>2, <3>1, ExecMove
  <2>6. Sets(h, get)
    BY <2>5 DEF Sets
  <2> QED
    BY <2>4, <2>6 DEF call
<1> QED
  BY <1>2, <1>3

-----------------------------------------------------------------------------
(* A call: its arguments are what they should be, its result is where it   *)
(* will be looked for, and what is still needed has not been lost.         *)
Context(saved) == {rValRegMap[r] : r \in DOMAIN rValRegMap} \cup {variableRegs[x] : x \in saved}
(* The left values that outlive the call.                                  *)
Alive(saved) == saved \cup (live \ DOMAIN variableRegs)

LEMMA ContextFacts ==
  ASSUME IInv, ~exhausted, NEW saved \in SUBSET (live \cap DOMAIN variableRegs)
  PROVE  /\ Context(saved) \in SUBSET Regs
         /\ (\E r \in DOMAIN rValRegMap : rValRegMap[r] = 0) <=> 0 \in Context(saved)
         /\ \A r \in DOMAIN rValRegMap : rValRegMap[r] \in Context(saved)
         /\ \A v \in Alive(saved) : v \in DOMAIN variableRegs => variableRegs[v] \in Context(saved)
         /\ Alive(saved) \subseteq live
<1>1. \A r \in DOMAIN rValRegMap : rValRegMap[r] \in Regs
  BY RegsOf DEF IInv, PoolPartition, Holding
<1>2. \A v \in saved : variableRegs[v] \in Regs /\ variableRegs[v] # 0
  BY RegsOf
<1> QED
  BY <1>1, <1>2 DEF Context, Alive

LEMMA ArgumentsFacts ==
  ASSUME IInv, CodeInv, ~exhausted, pc = "block",
         NEW args \in ArgumentLists, ToSet(args) \subseteq Operands,
         Len(args) > 1 => ToSet(args) \cap RValues = {}
  PROVE  /\ Arguments(args) /\ Len(args) <= 8 /\ DOMAIN args = 1 .. Len(args)
         /\ \A i \in 1 .. Len(args) : Located(Gen, args[i])
<1>1. Len(args) \in 0 .. 8 /\ DOMAIN args = 1 .. Len(args)
  BY ValuesAssumption
<1>2. \A i \in 1 .. Len(args) : args[i] \in ToSet(args)
  BY <1>1 DEF ToSet
<1>3. Reading(Gen, live)
  BY GenReads DEF CodeInv
<1>4. ASSUME NEW x \in Operands  PROVE Located(Gen, x)
  <2>1. x \in DOMAIN rValRegMap =>
          x \in RValues /\ rValRegMap[x] \in Regs /\ machine.reg[rValRegMap[x]] = Val(x)
    BY <1>3, GenFields, RegsOf DEF IInv, PoolPartition, Holding, Reading, RightKept
  <2>2. x \in Numbers \cup {Global} \/ (x = Array /\ Array \in DOMAIN var2offset)
        \/ x \in DOMAIN rValRegMap \/ x \in live
    BY <1>4 DEF Operands, Values
  <2>3. x \in live => x \in LValues /\ InPlace(Gen.m, Gen.offset, x)
    BY <1>3 DEF Reading, LeftKept
  <2> QED
    BY <2>1, <2>2, <2>3, GenFields DEF Located
<1> QED
  BY <1>1, <1>2, <1>4 DEF Arguments

(* The code of a call before the result is made.                           *)
Popped(args, returns, saved) ==
  LET context == Context(saved)
      n == Cardinality(context)
      rest == IF Len(args) > 4 THEN Len(args) - 4 ELSE 0
      p == IF context = {} THEN Gen ELSE Emit(Gen, Push(context))
      q == PassInRegisters(PassOnStack(p, args, n), args, n + rest)
      c == Emit(q, Call(Len(args), returns))
      s == IF returns /\ 0 \in context THEN Emit(c, Str(0, Imm(Offset(-1)))) ELSE c
  IN  IF context = {} THEN s ELSE Emit(s, Pop(context))

(* The instruction that fetches the result.                                *)
Get(saved) ==
  IF 0 \in Context(saved) THEN Ldr(Result, Imm(Offset(FetchedAt(Context(saved)))))
  ELSE Move(Result, Reg(0))

LEMMA CodeIsPopped ==
  ASSUME IInv, ~exhausted, NEW saved \in SUBSET (live \cap DOMAIN variableRegs), NEW args, NEW v
  PROVE  InvokeCode(args, v, saved)
           = IF v # Nothing THEN Produce(Popped(args, v # Nothing, saved), v, Get(saved))
             ELSE Popped(args, v # Nothing, saved)
<1>1. (\E r \in DOMAIN rValRegMap : rValRegMap[r] = 0) <=> 0 \in Context(saved)
  BY ContextFacts
<1> DEFINE context == {rValRegMap[r] : r \in DOMAIN rValRegMap} \cup {variableRegs[x] : x \in saved}
           useR0 == \E r \in DOMAIN rValRegMap : rValRegMap[r] = 0
<1>2. context = Context(saved)
  BY DEF Context
<1> DEFINE returns == v # Nothing
           Code(ctx, use) ==
             LET compensate == Cardinality(ctx)
                 onStack == IF Len(args) > 4 THEN Len(args) - 4 ELSE 0
                 pushed == IF ctx = {} THEN Gen ELSE Emit(Gen, Push(ctx))
                 passed == PassInRegisters(PassOnStack(pushed, args, compensate), args, compensate + onStack)
                 called == Emit(passed, Call(Len(args), returns))
                 put == IF returns /\ use THEN Emit(called, Str(0, Imm(Offset(-1)))) ELSE called
                 popped == IF ctx = {} THEN put ELSE Emit(put, Pop(ctx))
                 get == IF use THEN Ldr(Result, Imm(Offset(FetchedAt(ctx)))) ELSE Move(Result, Reg(0))
             IN  IF returns THEN Produce(popped, v, get) ELSE popped
<1>3. InvokeCode(args, v, saved) = Code(context, useR0)
  BY Zenon DEF InvokeCode
<1>4. Code(Context(saved), 0 \in Context(saved))
        = IF v # Nothing THEN Produce(Popped(args, v # Nothing, saved), v, Get(saved))
          ELSE Popped(args, v # Nothing, saved)
  BY Zenon DEF Popped, Get
<1> DEFINE restores == 0 \in Context(saved)
<1>5. Code(context, useR0) = Code(context, restores)
  <2>1. useR0 <=> restores
    BY <1>1
  <2> HIDE DEF context, useR0, restores
  <2> QED
    BY <2>1
<1> HIDE DEF Code, context, useR0
<1> QED
  BY <1>2, <1>3, <1>4, <1>5, Zenon DEF restores

LEMMA PoppedSound ==
  ASSUME IInv, ~exhausted, NEW saved, NEW args, NEW returns
  PROVE  Sound(Popped(args, returns, saved), {}, DOMAIN rValRegMap)
<1> DEFINE D == DOMAIN rValRegMap
           context == Context(saved)
           n == Cardinality(context)
           rest == IF Len(args) > 4 THEN Len(args) - 4 ELSE 0
           p == IF context = {} THEN Gen ELSE Emit(Gen, Push(context))
           o == PassOnStack(p, args, n)
           q == PassInRegisters(o, args, n + rest)
           c == Emit(q, Call(Len(args), returns))
           s == IF returns /\ 0 \in context THEN Emit(c, Str(0, Imm(Offset(-1)))) ELSE c
           h == IF context = {} THEN s ELSE Emit(s, Pop(context))
<1>1. Popped(args, returns, saved) = h
  BY Zenon DEF Popped
<1> HIDE DEF D, context, n, rest
<1>2. Sound(p, {}, D)
  BY GenSound, EmitSound DEF D
<1> HIDE DEF p
<1>3. Sound(o, {}, D)
  BY <1>2, PassOnStackSound
<1> HIDE DEF o
<1>4. Sound(q, {}, D)
  BY <1>3, PassAllSound
<1> HIDE DEF q
<1>5. Sound(c, {}, D)
  BY <1>4, EmitSound
<1> HIDE DEF c
<1>6. Sound(s, {}, D)
  BY <1>5, EmitSound
<1> HIDE DEF s
<1>7. Sound(h, {}, D)
  BY <1>6, EmitSound
<1> QED
  BY <1>1, <1>7 DEF D

LEMMA PoppedReturned ==
  ASSUME IInv, CodeInv, ~exhausted, pc = "block",
         NEW args \in ArgumentLists, ToSet(args) \subseteq Operands,
         Len(args) > 1 => ToSet(args) \cap RValues = {},
         NEW saved \in SUBSET (live \cap DOMAIN variableRegs), NEW returns \in BOOLEAN
  PROVE  LET n == Cardinality(Context(saved))
         IN  n \in 0 .. 14 /\ Returned(Gen, Popped(args, returns, saved), Context(saved), n, args, returns)
<1> DEFINE g == Gen
           context == Context(saved)
           n == Cardinality(context)
           rest == IF Len(args) > 4 THEN Len(args) - 4 ELSE 0
           p == IF context = {} THEN g ELSE Emit(g, Push(context))
           q == PassInRegisters(PassOnStack(p, args, n), args, n + rest)
           c == Emit(q, Call(Len(args), returns))
           s == IF returns /\ 0 \in context THEN Emit(c, Str(0, Imm(Offset(-1)))) ELSE c
           h == IF context = {} THEN s ELSE Emit(s, Pop(context))
<1>1. Popped(args, returns, saved) = h
  BY Zenon DEF Popped
<1>2. Reading(g, live)
  BY GenReads DEF CodeInv
<1>3. /\ Arguments(args) /\ Len(args) <= 8
      /\ \A i \in 1 .. Len(args) : Located(g, args[i])
  BY ArgumentsFacts
<1>4. context \in SUBSET Regs
  BY ContextFacts
<1> HIDE DEF g, context
<1>5. /\ IsGen(g) /\ IsMachine(g.m) /\ g.m.sp = 0 /\ Slots(g.offset, g.sp)
      /\ DOMAIN g.rVal \subseteq RValues
  BY <1>2 DEF Reading, LeftKept
<1>6. /\ n = Cardinality(context) /\ rest = IF Len(args) > 4 THEN Len(args) - 4 ELSE 0
      /\ p = IF context = {} THEN g ELSE Emit(g, Push(context))
      /\ q = PassInRegisters(PassOnStack(p, args, n), args, n + rest)
      /\ c = Emit(q, Call(Len(args), returns))
      /\ s = IF returns /\ 0 \in context THEN Emit(c, Str(0, Imm(Offset(-1)))) ELSE c
      /\ h = IF context = {} THEN s ELSE Emit(s, Pop(context))
  OBVIOUS
<1> HIDE DEF n, rest, p, q, c, s, h
<1>7. Comes(g, h, context, n, args, returns)
  BY <1>3, <1>4, <1>5, <1>6, CallReturns
<1> QED
  BY <1>1, <1>7, Zenon DEF g, context, n, Comes

-----------------------------------------------------------------------------
LEMMA InvokeReady ==
  ASSUME IInv, CodeInv, ~exhausted, pc = "block",
         NEW args \in ArgumentLists, ToSet(args) \subseteq Operands,
         Len(args) > 1 => ToSet(args) \cap RValues = {},
         NEW saved \in SUBSET (live \cap DOMAIN variableRegs),
         NEW operands, NEW v \in Results(operands) \cup {Nothing},
         NEW p, p = InvokeCode(args, v, saved)
  PROVE  /\ Sound(p, {}, DOMAIN rValRegMap \cup {v})
         /\ p.failed \/ Ready(p, v, <<"call">>, Alive(saved))
         /\ p.m.used = [i \in DOMAIN args |-> Meaning(args[i])]
<1> DEFINE D == DOMAIN rValRegMap
           context == Context(saved)
           n == Cardinality(context)
           returns == v # Nothing
           h == Popped(args, returns, saved)
           get == Get(saved)
           alive == Alive(saved)
<1>1. p = IF v # Nothing THEN Produce(h, v, get) ELSE h
  BY CodeIsPopped
<1>2. Sound(h, {}, D)
  BY PoppedSound
<1>3. n \in 0 .. 14 /\ Returned(Gen, h, context, n, args, returns)
  BY PoppedReturned, Zenon
<1>4. Reading(Gen, live)
  BY GenReads DEF CodeInv
<1>5. /\ context \in SUBSET Regs /\ alive \subseteq live
      /\ \A x \in alive : x \in DOMAIN variableRegs => variableRegs[x] \in context
      /\ \A r \in DOMAIN Gen.rVal : Gen.rVal[r] \in context
  BY ContextFacts, GenFields
<1>6. /\ get = IF 0 \in context THEN Ldr(Result, Imm(Offset(FetchedAt(context))))
               ELSE Move(Result, Reg(0))
      /\ n = Cardinality(context)
  BY DEF Get
<1>7. Len(args) \in Nat /\ DOMAIN args = 1 .. Len(args)
  BY ArgumentsFacts DEF Arguments
<1>8. returns \in BOOLEAN /\ (v # Nothing => returns = TRUE)
  OBVIOUS
<1> DEFINE used == [i \in DOMAIN args |-> Meaning(args[i])]
<1>9. h.m.used = used
  <2>1. h.m.used = [i \in 1 .. Len(args) |-> MeaningIn(var2offset, args[i])]
    BY <1>3, GenFields DEF Returned
  <2>2. \A x : MeaningIn(var2offset, x) = Meaning(x)
    BY DEF MeaningIn, Meaning
  <2> HIDE DEF h
  <2> QED
    BY <1>7, <2>1, <2>2
<1> HIDE DEF context, n, h, get, alive, D, returns, used
<1>10. Reading(h, alive)
  BY <1>3, <1>4, <1>5, ReturnedReading
<1>11. CASE v = Nothing
  <2>1. p = h
    BY <1>1, <1>11
  <2>2. Sound(p, {}, D \cup {v})
    BY <1>2, <2>1 DEF Sound
  <2>3. Ready(p, v, <<"call">>, alive)
    BY <1>10, <1>11, <2>1, NothingReady
  <2>4. p.m.used = used
    BY <1>9, <2>1
  <2> QED
    BY <2>2, <2>3, <2>4, Zenon DEF D, alive, used
<1>12. CASE v # Nothing
  <2>1. p = Produce(h, v, get)
    BY <1>1, <1>12
  <2>2. Returned(Gen, h, context, n, args, TRUE)
    BY <1>3, <1>8, <1>12
  <2>3. (h.failed \/ Makes(h, get, <<"call">>)) /\ Sets(h, get)
    BY <1>3, <1>5, <1>6, <2>2, GetRight
  <2>4. Works(h, {}, D, alive)
    BY <1>2, <1>10 DEF Works
  <2>5. v \in LValues \ ToSet(Params) \/ v \in RValues \ D
    BY <1>12, ResultKind DEF D
  <2>6. Sound(p, {}, D \cup {v}) /\ (p.failed \/ Ready(p, v, <<"call">>, alive))
    BY <2>1, <2>3, <2>4, <2>5, ProduceWorks
  <2>7. p.m.used = used
    <3>1. IsGen(h) /\ IsMachine(h.m)
      BY <2>2 DEF Returned
    <3>2. Produce(h, v, get).m.used = h.m.used
      BY <2>3, <3>1, ProduceUsed
    <3> QED
      BY <1>9, <2>1, <3>2
  <2> QED
    BY <2>6, <2>7, Zenon DEF D, alive, used
<1> QED
  BY <1>11, <1>12

LEMMA InvokeRight ==
  ASSUME IInv, CodeInv, ~exhausted, ~exhausted', Invoke
  PROVE  CodeInv'
<1>1. PICK args \in ArgumentLists, saved \in SUBSET (live \cap DOMAIN variableRegs) :
        \E v \in Results(ToSet(args)) \cup {Nothing} :
          LET alive == saved \cup (live \ DOMAIN variableRegs)
          IN  /\ pc = "block"
              /\ ToSet(args) \subseteq Operands
              /\ Len(args) > 1 => ToSet(args) \cap RValues = {}
              /\ Done(InvokeCode(args, v, saved), v, <<"call">>, "use",
                      [i \in DOMAIN args |-> Meaning(args[i])], alive)
              /\ UNCHANGED <<pc, true_cmp, cmp_op, branchOn, compared>>
  BY DEF Invoke
<1>2. PICK v \in Results(ToSet(args)) \cup {Nothing} :
          /\ pc = "block"
          /\ ToSet(args) \subseteq Operands
          /\ Len(args) > 1 => ToSet(args) \cap RValues = {}
          /\ Done(InvokeCode(args, v, saved), v, <<"call">>, "use",
                  [i \in DOMAIN args |-> Meaning(args[i])], Alive(saved))
          /\ UNCHANGED <<pc, true_cmp, cmp_op, branchOn, compared>>
  BY <1>1 DEF Alive
<1> DEFINE p == InvokeCode(args, v, saved)
           used == [i \in DOMAIN args |-> Meaning(args[i])]
           D == DOMAIN rValRegMap \cup {v}
           alive == Alive(saved)
           call == <<"call">>
<1>3. Done(p, v, call, "use", used, alive) /\ pc' = "block"
  BY <1>2
<1>4. /\ Sound(p, {}, D)
      /\ p.failed \/ Ready(p, v, call, alive)
      /\ p.m.used = used
  BY <1>2, InvokeReady, Zenon
<1> HIDE DEF p, used, D, alive, call
<1>5. ~p.failed
  BY <1>3 DEF Done
<1>6. ValInv'
  BY <1>3, <1>4, <1>5, DoneRight
<1>7. effect'.kind = "none"
  <2>1. effect' = Observed("use", p.m.used, used)
    BY <1>3 DEF Done
  <2> QED
    BY <1>4, <2>1, ObservedKind
<1>8. FlagInv'
  BY <1>2, <1>7, FlagsKept DEF CodeInv
<1> QED
  BY <1>6, <1>8 DEF CodeInv

-----------------------------------------------------------------------------
(* What was asked for in vain stays so.                                    *)
LEMMA DoneExhausted ==
  ASSUME NEW g, NEW v, NEW term, NEW kind, NEW wanted, NEW alive, exhausted
  PROVE  /\ Done(g, v, term, kind, wanted, alive) => exhausted'
         /\ Made(g, v, term) => exhausted'
         /\ Stored(g, kind, wanted) => exhausted'
  BY DEF Made, Stored, Done

LEMMA OnceExhausted ==
  ASSUME Next, exhausted
  PROVE  exhausted'
<1>1. CASE Arrive \/ EnterFrame \/ Ret
  BY <1>1 DEF Arrive, EnterFrame, Ret
<1>2. CASE Negate \/ Not
  BY <1>2, DoneExhausted DEF Negate, Not
<1>3. CASE Arithmetic
  BY <1>3, DoneExhausted DEF Arithmetic
<1>4. CASE Remainder
  BY <1>4, DoneExhausted, Zenon DEF Remainder
<1>5. CASE CompareValue \/ Br \/ Jmp
  BY <1>5, DoneExhausted DEF CompareValue, Br, Jmp
<1>6. CASE Alloc \/ PhiMov \/ Phi
  BY <1>6, DoneExhausted DEF Alloc, PhiMov, Phi
<1>7. CASE LoadElement
  BY <1>7, DoneExhausted DEF LoadElement
<1>8. CASE LoadLocal
  BY <1>8, DoneExhausted DEF LoadLocal
<1>9. CASE StoreElement
  BY <1>9, DoneExhausted, Zenon DEF StoreElement
<1>10. CASE StoreLocal
  BY <1>10, DoneExhausted, Zenon DEF StoreLocal
<1>11. CASE Invoke
  BY <1>11, DoneExhausted, ZenonT(30) DEF Invoke
<1>12. CASE Cmp
  BY <1>12, Zenon DEF Cmp
<1> QED
  BY <1>1, <1>2, <1>3, <1>4, <1>5, <1>6, <1>7, <1>8, <1>9, <1>10, <1>11, <1>12 DEF Next

(* The inductive invariant: as long as there has been a register whenever  *)
(* one was asked for.                                                      *)
KeptInv == IInv /\ (~exhausted => CodeInv)

LEMMA NextKeptInv == KeptInv /\ [Next]_vars => KeptInv'
<1> SUFFICES ASSUME KeptInv, [Next]_vars, ~exhausted' PROVE CodeInv'
  BY NextIInv DEF KeptInv
<1>1. CASE UNCHANGED vars
  <2>1. CodeInv
    BY <1>1 DEF vars, KeptInv
  <2>2. /\ UNCHANGED <<pc, rValRegMap, tempRegPool, var2offset, stackPointer, true_cmp, cmp_op>>
        /\ UNCHANGED <<branchOn, compared, live, machine, effect>>
    BY <1>1 DEF vars
  <2>3. Gen' = Gen /\ (Entry' <=> Entry)
    BY <2>2, Zenon DEF Gen, Entry, InPlace, Slots, Own, IsMachine
  <2>4. ValInv'
    BY <2>1, <2>2, <2>3 DEF CodeInv, ValInv, LeftKept, RightKept, InPlace, Slots, Own, IsMachine
  <2>5. FlagInv'
    BY <2>1, <2>2 DEF CodeInv, FlagInv
  <2> QED
    BY <2>4, <2>5 DEF CodeInv
<1>2. CASE Next
  <2>1. IInv /\ ~exhausted /\ CodeInv
    BY <1>2, OnceExhausted DEF KeptInv
  <2>2. CASE Arrive \/ EnterFrame
    BY <2>1, <2>2, ArriveRight, EnterFrameRight
  <2>3. CASE Negate \/ Not \/ Arithmetic \/ Remainder
    BY <2>1, <2>3, NegateRight, NotRight, ArithmeticRight, RemainderRight
  <2>4. CASE CompareValue \/ Cmp \/ Br \/ Jmp
    BY <2>1, <2>4, CompareValueRight, CmpRight, BrRight, JmpRight
  <2>5. CASE Alloc \/ LoadElement \/ LoadLocal \/ StoreElement \/ StoreLocal
    BY <2>1, <2>5, AllocRight, LoadElementRight, LoadLocalRight, StoreElementRight, StoreLocalRight
  <2>6. CASE PhiMov \/ Phi
    BY <2>1, <2>6, PhiMovRight, PhiRight
  <2>7. CASE Invoke \/ Ret
    BY <2>1, <2>7, InvokeRight, RetRight
  <2> QED
    BY <1>2, <2>2, <2>3, <2>4, <2>5, <2>6, <2>7 DEF Next
<1> QED
  BY <1>1, <1>2

LEMMA InitKeptInv == Init => KeptInv
  BY InitIInv, InitRight DEF KeptInv

(* For every function and register allocation, any instructions in any     *)
(* order irCheck accepts, any offsets out of reach: whatever is generated, *)
(* a right value stays in the register rValRegMap names until it is read,  *)
(* and a left value in its register or stack slot as long as it is needed, *)
(* if a register was never asked for in vain.                              *)
THEOREM EveryValueKept == Spec => [](NeverExhausted => ValuesKept)
<1>1. KeptInv => (NeverExhausted => ValuesKept)
  BY GenFields DEF KeptInv, NeverExhausted, CodeInv, ValInv, LeftKept, RightKept, InPlace, ValuesKept
<1> QED
  BY <1>1, InitKeptInv, NextKeptInv, PTL DEF Spec

(* Then every store, argument and return value is what the IR asks for,    *)
(* and every function returns to its caller.                               *)
THEOREM EveryEffectRight == Spec => [](NeverExhausted => EffectRight)
<1>1. KeptInv => (NeverExhausted => EffectRight)
  BY DEF KeptInv, NeverExhausted, CodeInv, FlagInv, EffectRight
<1> QED
  BY <1>1, InitKeptInv, NextKeptInv, PTL DEF Spec

(* And every branch is decided by the comparison it belongs to, or by its  *)
(* value being 0, unless a comparison has been moved out of its block.     *)
THEOREM EveryBranchRight ==
  ASSUME ~Hoisting
  PROVE  Spec => [](NeverExhausted => BranchRight)
<1>1. KeptInv => (NeverExhausted => BranchRight)
  BY DEF KeptInv, NeverExhausted, CodeInv, FlagInv, BranchRight
<1> QED
  BY <1>1, InitKeptInv, NextKeptInv, PTL DEF Spec

-----------------------------------------------------------------------------
(* While at most two right values wait, and the gen function has at most   *)
(* two registers, one of the five is free.                                 *)
Couple(S) == \E x, y : S \subseteq {x, y}

(* A gen function that makes its result holds one register at most.        *)
Single(S) == \E x : S \subseteq {x}

(* No register has been asked for in vain.                                 *)
Ample(g, held, D) == Sound(g, held, D) /\ ~g.failed

LEMMA CoupleFacts ==
  /\ Couple({}) /\ Single({})
  /\ \A S : Single(S) => Couple(S)
  /\ \A r : Couple({r}) /\ Single({r})
  /\ \A a : Couple(Borrowed(a)) /\ Single(Borrowed(a))
  /\ \A S, r : Single(S) => Couple(S \cup {r})
  /\ \A S, a : Single(S) => Couple(S \cup Borrowed(a))
  /\ \A S, T : Couple(T) /\ S \subseteq T => Couple(S)
<1>1. \A a : \E x : Borrowed(a) \subseteq {x}
  BY DEF Borrowed
<1>2. Couple({}) /\ Single({})
  BY DEF Couple, Single
<1>3. \A S : Single(S) => Couple(S)
  BY DEF Couple, Single
<1>4. \A r : Single({r})
  BY DEF Single
<1>5. \A a : Single(Borrowed(a))
  BY <1>1 DEF Single
<1>6. \A S, r : Single(S) => Couple(S \cup {r})
  <2> TAKE S, r
  <2> HAVE Single(S)
  <2>1. PICK x : S \subseteq {x}
    BY DEF Single
  <2>2. S \cup {r} \subseteq {x, r}
    BY <2>1
  <2> QED
    BY <2>2, Zenon DEF Couple
<1>7. \A S, a : Single(S) => Couple(S \cup Borrowed(a))
  <2> TAKE S, a
  <2> HAVE Single(S)
  <2>1. PICK x : S \subseteq {x}
    BY DEF Single
  <2>2. PICK y : Borrowed(a) \subseteq {y}
    BY <1>1
  <2>3. S \cup Borrowed(a) \subseteq {x, y}
    BY <2>1, <2>2
  <2> QED
    BY <2>3, Zenon DEF Couple
<1>8. \A S, T : Couple(T) /\ S \subseteq T => Couple(S)
  <2> TAKE S, T
  <2> HAVE Couple(T) /\ S \subseteq T
  <2>1. PICK x, y : T \subseteq {x, y}
    BY DEF Couple
  <2>2. S \subseteq {x, y}
    BY <2>1
  <2> QED
    BY <2>2, Zenon DEF Couple
<1> QED
  BY <1>2, <1>3, <1>4, <1>5, <1>6, <1>7, <1>8

LEMMA AllocAmple ==
  ASSUME NEW g, NEW held, NEW D, Ample(g, held, D), Couple(D), Couple(held),
         NEW t, t = AllocTempRegister(g)
  PROVE  Ample(t.g, held \cup {t.reg}, D) /\ Apart(t.g, {t.reg}, held)
<1>1. PICK x, y : D \subseteq {x, y}
  BY DEF Couple
<1>2. PICK c, d : held \subseteq {c, d}
  BY DEF Couple
<1>3. g.pool # {}
  <2>1. Holding(g.rVal) \subseteq {g.rVal[x], g.rVal[y]}
    BY <1>1 DEF Holding, Ample, Sound
  <2>2. g.pool \cup Holding(g.rVal) \cup held = TempRegs
    BY DEF Ample, Sound, Tidy
  <2> DEFINE a == g.rVal[x]
             b == g.rVal[y]
  <2>3. \E r \in TempRegs : r \notin {a, b, c, d}
    <3> HIDE DEF a, b
    <3>1. ASSUME {0, 1, 2, 3, 14} \subseteq {a, b, c, d}  PROVE FALSE
      <4>1. 0 \in {a, b, c, d} /\ 1 \in {a, b, c, d} /\ 2 \in {a, b, c, d} /\ 3 \in {a, b, c, d}
            /\ 14 \in {a, b, c, d}
        BY <3>1
      <4> QED
        BY <4>1
    <3> QED
      BY <3>1 DEF TempRegs
  <2> HIDE DEF a, b
  <2> QED
    BY <1>2, <2>1, <2>2, <2>3 DEF a, b
<1> DEFINE h == [g EXCEPT !.pool = @ \ {FirstOf(g.pool)}]
<1>4. t.g = h
  BY <1>3 DEF AllocTempRegister
<1>5. h.failed = g.failed
  BY DEF Ample, Sound, IsGen
<1> HIDE DEF h
<1> QED
  BY <1>4, <1>5, AllocSound DEF Ample

LEMMA AllocFirstAmple ==
  ASSUME NEW g, NEW D, Ample(g, {}, D), Couple(D), NEW t, t = AllocTempRegister(g)
  PROVE  Ample(t.g, {t.reg}, D)
<1>1. Ample(t.g, {} \cup {t.reg}, D)
  BY CoupleFacts, AllocAmple
<1>2. {} \cup {t.reg} = {t.reg}
  OBVIOUS
<1> QED
  BY <1>1, <1>2

LEMMA EmitAmple ==
  ASSUME NEW g, NEW held, NEW D, Ample(g, held, D), NEW ins
  PROVE  Ample(Emit(g, ins), held, D)
  BY EmitSound DEF Ample

LEMMA ReleaseAmple ==
  ASSUME NEW g, NEW held, NEW D, NEW r, Ample(g, held \cup {r}, D), Apart(g, {r}, held)
  PROVE  Ample(ReleaseTempRegister(g, r), held, D)
  BY ReleaseSound DEF Ample

LEMMA ReleaseLastAmple ==
  ASSUME NEW g, NEW D, NEW r, Ample(g, {r}, D)
  PROVE  Ample(ReleaseTempRegister(g, r), {}, D)
<1>1. {} \cup {r} = {r} /\ Apart(g, {r}, {})
  BY DEF Apart
<1> QED
  BY <1>1, ReleaseAmple

LEMMA FreeAmple ==
  ASSUME NEW g, NEW held, NEW D, NEW a, Ample(g, held \cup Borrowed(a), D), Apart(g, Borrowed(a), held)
  PROVE  Ample(Free(g, a), held, D)
  BY FreeSound DEF Ample

LEMMA FreeLastAmple ==
  ASSUME NEW g, NEW D, NEW a, Ample(g, Borrowed(a), D)
  PROVE  Ample(Free(g, a), {}, D)
<1>1. {} \cup Borrowed(a) = Borrowed(a) /\ Apart(g, Borrowed(a), {})
  BY DEF Apart
<1> QED
  BY <1>1, FreeAmple

LEMMA FreeTwoAmple ==
  ASSUME NEW g, NEW D, NEW a, NEW b,
         Ample(g, Borrowed(a) \cup Borrowed(b), D), Apart(g, Borrowed(b), Borrowed(a))
  PROVE  Ample(Free(Free(g, b), a), {}, D)
  BY FreeTwo DEF Ample

LEMMA ReadAmple ==
  ASSUME NEW g, NEW held, NEW D, Ample(g, held, D), Couple(D), Couple(held),
         NEW x, NEW regRequired, NEW a, a = ReadRegister(g, x, regRequired)
  PROVE  Ample(a.g, held \cup Borrowed(a), D) /\ Apart(a.g, Borrowed(a), held)
<1> DEFINE t == AllocTempRegister(g)
           l == LoadVal2Reg(t.g, x, t.reg, 0, t.reg)
<1>1. Sound(a.g, held \cup Borrowed(a), D) /\ Apart(a.g, Borrowed(a), held)
  BY ReadSound DEF Ample
<1>2. CASE x \in DOMAIN g.rVal
  <2>1. a.g = Forget(g, x)
    BY <1>2 DEF ReadRegister
  <2>2. Forget(g, x).failed = g.failed
    BY <1>2, ForgetSound DEF Ample
  <2> QED
    BY <1>1, <2>1, <2>2 DEF Ample
<1>3. CASE a.g = g
  BY <1>1, <1>3 DEF Ample
<1>4. CASE a.g = l
  <2>1. Ample(t.g, held \cup {t.reg}, D)
    BY AllocAmple
  <2> HIDE DEF t
  <2>2. l.failed = t.g.failed
    BY <2>1, LoadSound DEF Ample
  <2> QED
    BY <1>1, <1>4, <2>1, <2>2 DEF Ample
<1>5. x \in DOMAIN g.rVal \/ a.g = g \/ a.g = l
  BY DEF ReadRegister, InTemp
<1> QED
  BY <1>2, <1>3, <1>4, <1>5

LEMMA ReadFirstAmple ==
  ASSUME NEW g, NEW D, Ample(g, {}, D), Couple(D),
         NEW x, NEW regRequired, NEW a, a = ReadRegister(g, x, regRequired)
  PROVE  Ample(a.g, Borrowed(a), D)
<1>1. Ample(a.g, {} \cup Borrowed(a), D)
  BY CoupleFacts, ReadAmple
<1>2. {} \cup Borrowed(a) = Borrowed(a)
  OBVIOUS
<1> QED
  BY <1>1, <1>2

LEMMA ReadTwoAmple ==
  ASSUME NEW g, NEW D, Ample(g, {}, D), Couple(D), NEW x, NEW y, NEW p, NEW q,
         NEW a, a = ReadRegister(g, x, p), NEW b, b = ReadRegister(a.g, y, q)
  PROVE  /\ Ample(b.g, Borrowed(a) \cup Borrowed(b), D) /\ Apart(b.g, Borrowed(b), Borrowed(a))
         /\ Couple(Borrowed(a) \cup Borrowed(b))
<1>1. Ample(a.g, Borrowed(a), D) /\ Couple(Borrowed(a))
  BY ReadFirstAmple, CoupleFacts
<1>2. Ample(b.g, Borrowed(a) \cup Borrowed(b), D) /\ Apart(b.g, Borrowed(b), Borrowed(a))
  BY <1>1, ReadAmple
<1>3. Couple(Borrowed(a) \cup Borrowed(b))
  BY CoupleFacts
<1> QED
  BY <1>2, <1>3

LEMMA ReadElementAmple ==
  ASSUME NEW g, NEW held, NEW D, Ample(g, held, D), Couple(D), Couple(held),
         NEW i, NEW a, a = ReadElementIndex(g, i)
  PROVE  Ample(a.g, held \cup Borrowed(a), D) /\ Apart(a.g, Borrowed(a), held)
<1> DEFINE t == AllocTempRegister(g)
           h == ReleaseTempRegister(t.g, t.reg)
<1>1. Sound(a.g, held \cup Borrowed(a), D) /\ Apart(a.g, Borrowed(a), held)
  BY ReadElementSound DEF Ample
<1>2. CASE i = Small
  <2>1. a.g = h
    BY <1>2 DEF ReadElementIndex
  <2>2. Ample(t.g, held \cup {t.reg}, D) /\ Apart(t.g, {t.reg}, held)
    BY AllocAmple
  <2> HIDE DEF t
  <2>3. Ample(h, held, D)
    BY <2>2, ReleaseAmple
  <2> QED
    BY <1>1, <2>1, <2>3 DEF Ample
<1>3. CASE i # Small
  <2>1. a = ReadRegister(g, i, i \notin Numbers)
    BY <1>3 DEF ReadElementIndex, ReadIndex
  <2> QED
    BY <2>1, ReadAmple
<1> QED
  BY <1>2, <1>3

LEMMA StoreAmple ==
  ASSUME NEW g, NEW held, NEW D, NEW des, NEW v, Ample(g, held \cup {des}, D), Apart(g, {des}, held),
         Couple(D), Couple(held \cup {des})
  PROVE  Ample(Store2Memory(g, des, v), held, D)
<1> DEFINE new == v \notin DOMAIN g.offset
           at == IF new THEN g.sp ELSE g.offset[v]
           t == AllocTempRegister(g)
           off == LoadOffset(t.g, at, t.reg)
           put == Emit(off.g, Str(des, off.src))
           a == ReleaseTempRegister(put, t.reg)
           b == ReleaseTempRegister(a, des)
           s == [b EXCEPT !.sp = @ + 1, !.offset = With(@, v, at)]
<1>1. Store2Memory(g, des, v) = IF new THEN s ELSE b
  BY Zenon DEF Store2Memory
<1>2. Ample(t.g, (held \cup {des}) \cup {t.reg}, D) /\ Apart(t.g, {t.reg}, held \cup {des})
  BY AllocAmple
<1> HIDE DEF new, at, t
<1>3. Ample(off.g, (held \cup {des}) \cup {t.reg}, D)
  BY <1>2, OffsetSound DEF Ample
<1> HIDE DEF off
<1>4. Ample(put, (held \cup {des}) \cup {t.reg}, D)
  BY <1>3, EmitAmple
<1> HIDE DEF put
<1>5. Ample(a, held \cup {des}, D)
  <2>1. Apart(put, {t.reg}, held \cup {des})
    BY <1>2, <1>4 DEF Apart, Ample
  <2> QED
    BY <1>4, <2>1, ReleaseAmple
<1> HIDE DEF a
<1>6. Ample(b, held, D)
  BY <1>5, ReleaseAmple DEF Apart, Ample
<1> HIDE DEF b
<1>7. s.failed = b.failed
  BY <1>6 DEF Ample, Sound, IsGen
<1> HIDE DEF s
<1>8. Sound(Store2Memory(g, des, v), held, D)
  BY StoreSound DEF Ample
<1> QED
  BY <1>1, <1>6, <1>7, <1>8 DEF Ample

(* Making the result asks for one register, or for two.                    *)
LEMMA ProduceAmple ==
  ASSUME NEW g, NEW held, NEW D, Ample(g, held, D), Couple(D), Single(held),
         NEW v, NEW instruction, v \in LValues \/ v \notin D
  PROVE  Ample(Produce(g, v, instruction), held, D \cup {v})
<1> DEFINE p == Produce(g, v, instruction)
           Ins(r) == [instruction EXCEPT !.rd = r]
           t == AllocTempRegister(g)
<1>1. Sound(p, held, D \cup {v})
  BY ProduceSound DEF Ample
<1>2. /\ Ample(t.g, held \cup {t.reg}, D) /\ Apart(t.g, {t.reg}, held)
      /\ Couple(held \cup {t.reg})
  BY AllocAmple, CoupleFacts
<1>3. CASE v \in DOMAIN variableRegs
  <2>1. p = Emit(g, Ins(variableRegs[v]))
    BY <1>3 DEF Produce, WriteRegister
  <2>2. ~p.failed
    BY <2>1, EmitSound DEF Ample
  <2> QED
    BY <1>1, <2>2 DEF Ample
<1>4. CASE v \notin DOMAIN variableRegs /\ v \in LValues
  <2> DEFINE made == Emit(t.g, Ins(t.reg))
  <2>1. p = Store2Memory(made, t.reg, v)
    BY <1>4 DEF Produce, WriteRegister
  <2> HIDE DEF t, Ins
  <2>2. Ample(made, held \cup {t.reg}, D)
    BY <1>2, EmitAmple
  <2>3. Apart(made, {t.reg}, held)
    BY <1>2, <2>2 DEF Apart, Ample
  <2> HIDE DEF made, p
  <2>4. ~p.failed
    BY <1>2, <2>1, <2>2, <2>3, StoreAmple DEF Ample
  <2> QED
    BY <1>1, <2>4 DEF Ample, p
<1>5. CASE v \notin DOMAIN variableRegs /\ v \notin LValues
  <2> DEFINE k == Keep(t.g, v, t.reg)
  <2>1. p = Emit(k, Ins(t.reg))
    BY <1>5 DEF Produce, WriteRegister
  <2> HIDE DEF t
  <2>2. IsGen(k) /\ ~k.failed
    BY <1>2, KeepFields DEF Ample, Sound
  <2> HIDE DEF p, k, Ins
  <2>3. ~p.failed
    BY <2>1, <2>2, EmitFields DEF SamePool
  <2> QED
    BY <1>1, <2>3 DEF Ample, p
<1> QED
  BY <1>3, <1>4, <1>5

-----------------------------------------------------------------------------
(* No more than two right values wait for their use.                       *)
FewWait == Couple(DOMAIN rValRegMap)

LEMMA GenAmple ==
  ASSUME IInv, ~exhausted
  PROVE  Ample(Gen, {}, DOMAIN rValRegMap)
  BY GenSound, GenFields DEF Ample

LEMMA DoneEnough ==
  ASSUME ~exhausted, NEW g, ~g.failed,
         NEW v, NEW term, NEW kind, NEW wanted, NEW alive, Done(g, v, term, kind, wanted, alive)
  PROVE  ~exhausted'
  BY DEF Done

LEMMA MadeEnough ==
  ASSUME ~exhausted, FewWait, NEW g, Ample(g, {}, DOMAIN rValRegMap),
         NEW v, NEW instruction, NEW term, \E operands : v \in Results(operands),
         Made(Produce(g, v, instruction), v, term)
  PROVE  ~exhausted'
<1> DEFINE p == Produce(g, v, instruction)
<1>1. v \in LValues \/ v \notin DOMAIN rValRegMap
  BY ResultsFresh
<1>2. Ample(p, {}, DOMAIN rValRegMap \cup {v})
  BY <1>1, CoupleFacts, ProduceAmple DEF FewWait
<1>3. Done(p, v, term, "none", <<>>, live)
  BY DEF Made
<1> HIDE DEF p
<1> QED
  BY <1>2, <1>3, DoneEnough DEF Ample

(* A gen function holds at most three registers at a time.                 *)
LEMMA RemainderAmple ==
  ASSUME NEW D, NEW p, NEW v, Ample(Gen, {}, D), Couple(D), v \in LValues \/ v \notin D
  PROVE  Ample(RemainderCode(p, v), {}, D \cup {v})
<1> DEFINE a == ReadRegister(Gen, p[1], TRUE)
           b == ReadRegister(a.g, p[2], TRUE)
           q == AllocTempRegister(b.g)
           divided == Emit(q.g, Compute(q.reg, "div", <<a.src, b.src>>))
           mls == Compute(Result, "mls", <<Reg(q.reg), b.src, a.src>>)
           g == ReleaseTempRegister(divided, q.reg)
           h == Free(Free(g, b), a)
           both == Borrowed(a) \cup Borrowed(b)
<1>1. RemainderCode(p, v) = Produce(h, v, mls)
  BY DEF RemainderCode
<1>2. a = ReadRegister(Gen, p[1], TRUE) /\ b = ReadRegister(a.g, p[2], TRUE)
  OBVIOUS
<1> HIDE DEF a, b
<1>3. Ample(b.g, both, D) /\ Apart(b.g, Borrowed(b), Borrowed(a)) /\ Couple(both)
  BY <1>2, ReadTwoAmple
<1>4. Ample(q.g, both \cup {q.reg}, D) /\ Apart(q.g, {q.reg}, both)
  BY <1>3, AllocAmple
<1> HIDE DEF q
<1>5. Ample(divided, both \cup {q.reg}, D)
  BY <1>4, EmitAmple
<1> HIDE DEF divided
<1>6. Ample(g, both, D)
  <2>1. Apart(divided, {q.reg}, both)
    BY <1>4, <1>5 DEF Apart, Ample
  <2> HIDE DEF both
  <2> QED
    BY <1>5, <2>1, ReleaseAmple
<1> HIDE DEF g
<1>7. Ample(h, {}, D)
  <2>1. Apart(g, Borrowed(b), Borrowed(a))
    BY <1>3, <1>6 DEF Apart, Ample
  <2> QED
    BY <1>6, <2>1, FreeTwoAmple
<1> HIDE DEF h, mls
<1> QED
  BY <1>1, <1>7, CoupleFacts, ProduceAmple

LEMMA CmpAmple ==
  ASSUME NEW D, NEW p, NEW v, NEW cond, NEW isTrueCmp,
         Ample(Gen, {}, D), Couple(D), v \in LValues \/ v \notin D
  PROVE  ~CmpCode(p, v, cond, isTrueCmp).failed
<1> DEFINE a == ReadRegister(Gen, p[1], TRUE)
           b == ReadRegister(a.g, p[2], FALSE)
           c == Emit(b.g, Compare(a.src, b.src))
           g == Free(Free(c, b), a)
           w == WriteRegister(g, v)
           t == AllocTempRegister(g)
           setIf == SetIf(Result, cond)
<1>1. CmpCode(p, v, cond, isTrueCmp)
        = IF ~isTrueCmp THEN Produce(g, v, setIf)
          ELSE IF w.spill THEN ReleaseTempRegister(w.g, w.reg) ELSE w.g
  BY DEF CmpCode
<1>2. a = ReadRegister(Gen, p[1], TRUE) /\ b = ReadRegister(a.g, p[2], FALSE)
  OBVIOUS
<1> HIDE DEF a, b
<1>3. Ample(b.g, Borrowed(a) \cup Borrowed(b), D) /\ Apart(b.g, Borrowed(b), Borrowed(a))
  BY <1>2, ReadTwoAmple
<1>4. Ample(c, Borrowed(a) \cup Borrowed(b), D)
  BY <1>3, EmitAmple
<1> HIDE DEF c
<1>5. Ample(g, {}, D)
  <2>1. Apart(c, Borrowed(b), Borrowed(a))
    BY <1>3, <1>4 DEF Apart, Ample
  <2> QED
    BY <1>4, <2>1, FreeTwoAmple
<1> HIDE DEF g, setIf
<1>6. ~Produce(g, v, setIf).failed
  BY <1>5, CoupleFacts, ProduceAmple DEF Ample
<1>7. Ample(t.g, {t.reg}, D)
  BY <1>5, AllocFirstAmple
<1>8. \/ w.g = g /\ ~w.spill
      \/ w.g = t.g /\ w.reg = t.reg /\ w.spill
      \/ w.g = Keep(t.g, v, t.reg) /\ ~w.spill
  BY DEF WriteRegister
<1> HIDE DEF t, w
<1>9. ~Keep(t.g, v, t.reg).failed
  BY <1>7, KeepFields DEF Ample, Sound
<1>10. ~ReleaseTempRegister(t.g, t.reg).failed
  BY <1>7, ReleaseLastAmple DEF Ample
<1> QED
  BY <1>1, <1>5, <1>6, <1>8, <1>9, <1>10 DEF Ample

LEMMA OperationsEnough ==
  ASSUME IInv, ~exhausted, FewWait, Negate \/ Not \/ PhiMov \/ Phi \/ Arithmetic \/ Remainder
  PROVE  ~exhausted'
<1> DEFINE D == DOMAIN rValRegMap
<1>1. Ample(Gen, {}, D) /\ Couple(D)
  BY GenAmple DEF FewWait
<1>2. CASE Negate
  <2>1. PICK x, v :
          /\ \E operands : v \in Results(operands)
          /\ LET a == ReadRegister(Gen, x, TRUE)
                 neg == Compute(Result, "neg", <<a.src>>)
             IN  Made(Produce(Free(a.g, a), v, neg), v, <<"neg", Meaning(x)>>)
    BY <1>2 DEF Negate
  <2> DEFINE a == ReadRegister(Gen, x, TRUE)
             g == Free(a.g, a)
             neg == Compute(Result, "neg", <<a.src>>)
  <2>2. Ample(g, {}, D)
    BY <1>1, ReadFirstAmple, FreeLastAmple
  <2>3. Made(Produce(g, v, neg), v, <<"neg", Meaning(x)>>)
    BY <2>1
  <2> HIDE DEF a, g, neg
  <2> QED
    BY <2>1, <2>2, <2>3, MadeEnough
<1>3. CASE Not
  <2>1. PICK x, v :
          /\ \E operands : v \in Results(operands)
          /\ LET a == ReadRegister(Gen, x, TRUE)
                 setIf == SetIf(Result, "EQ")
                 g == Emit(Free(a.g, a), Compare(a.src, Imm(Val(Zero))))
             IN  Made(Produce(g, v, setIf), v, <<"EQ", Meaning(x), Val(Zero)>>)
    BY <1>3 DEF Not
  <2> DEFINE a == ReadRegister(Gen, x, TRUE)
             setIf == SetIf(Result, "EQ")
             f == Free(a.g, a)
             g == Emit(f, Compare(a.src, Imm(Val(Zero))))
  <2>2. Ample(f, {}, D)
    BY <1>1, ReadFirstAmple, FreeLastAmple
  <2>3. Made(Produce(g, v, setIf), v, <<"EQ", Meaning(x), Val(Zero)>>)
    BY <2>1
  <2> HIDE DEF a, f
  <2>4. Ample(g, {}, D)
    BY <2>2, EmitAmple
  <2> HIDE DEF g, setIf
  <2> QED
    BY <2>1, <2>3, <2>4, MadeEnough
<1>4. CASE PhiMov
  <2>1. PICK x, v :
          /\ \E operands : v \in Results(operands)
          /\ LET a == ReadRegister(Gen, x, TRUE)
                 mov == Move(Result, a.src)
             IN  Made(Produce(Free(a.g, a), v, mov), v, Meaning(x))
    BY <1>4 DEF PhiMov
  <2> DEFINE a == ReadRegister(Gen, x, TRUE)
             g == Free(a.g, a)
             mov == Move(Result, a.src)
  <2>2. Ample(g, {}, D)
    BY <1>1, ReadFirstAmple, FreeLastAmple
  <2>3. Made(Produce(g, v, mov), v, Meaning(x))
    BY <2>1
  <2> HIDE DEF a, g, mov
  <2> QED
    BY <2>1, <2>2, <2>3, MadeEnough
<1>5. CASE Phi
  <2>1. PICK x, v :
          /\ \E operands : v \in Results(operands)
          /\ LET a == ReadRegister(Gen, x, TRUE)
                 mov == Move(Result, a.src)
             IN  Made(Free(Produce(a.g, v, mov), a), v, Meaning(x))
    BY <1>5 DEF Phi
  <2> DEFINE a == ReadRegister(Gen, x, TRUE)
             mov == Move(Result, a.src)
             p == Produce(a.g, v, mov)
             g == Free(p, a)
  <2>2. Ample(a.g, Borrowed(a), D) /\ Single(Borrowed(a))
    BY <1>1, ReadFirstAmple, CoupleFacts
  <2>3. Done(g, v, Meaning(x), "none", <<>>, live)
    BY <2>1 DEF Made
  <2>4. v \in LValues \/ v \notin D
    BY <2>1, ResultsFresh
  <2> HIDE DEF a, mov
  <2>5. Ample(p, Borrowed(a), D \cup {v})
    BY <1>1, <2>2, <2>4, ProduceAmple
  <2> HIDE DEF p
  <2>6. Ample(g, {}, D \cup {v})
    BY <2>5, FreeLastAmple
  <2> HIDE DEF g
  <2> QED
    BY <2>3, <2>6, DoneEnough DEF Ample
<1>6. CASE Arithmetic
  <2>1. PICK p, f, v :
          /\ \E operands : v \in Results(operands)
          /\ LET a == ReadRegister(Gen, p[1], TRUE)
                 b == ReadRegister(a.g, p[2], f = "mul")
                 ins == Compute(Result, f, <<a.src, b.src>>)
             IN  Made(Produce(Free(Free(b.g, b), a), v, ins), v, <<f, Meaning(p[1]), Meaning(p[2])>>)
    BY <1>6 DEF Arithmetic
  <2> DEFINE required == f = "mul"
             a == ReadRegister(Gen, p[1], TRUE)
             b == ReadRegister(a.g, p[2], required)
             ins == Compute(Result, f, <<a.src, b.src>>)
             g == Free(Free(b.g, b), a)
             term == <<f, Meaning(p[1]), Meaning(p[2])>>
  <2>2. a = ReadRegister(Gen, p[1], TRUE) /\ b = ReadRegister(a.g, p[2], required)
    OBVIOUS
  <2>3. Made(Produce(g, v, ins), v, term)
    BY <2>1
  <2> HIDE DEF required, a, b
  <2>4. Ample(g, {}, D)
    <3>1. Ample(b.g, Borrowed(a) \cup Borrowed(b), D) /\ Apart(b.g, Borrowed(b), Borrowed(a))
      BY <1>1, <2>2, ReadTwoAmple
    <3> QED
      BY <3>1, FreeTwoAmple
  <2> HIDE DEF g, ins, term
  <2> QED
    BY <2>1, <2>3, <2>4, MadeEnough
<1>7. CASE Remainder
  <2>1. PICK p, v :
          /\ \E operands : v \in Results(operands)
          /\ \E term : Made(RemainderCode(p, v), v, term)
    BY <1>7 DEF Remainder
  <2>2. ~RemainderCode(p, v).failed
    BY <1>1, <2>1, ResultsFresh, RemainderAmple DEF Ample
  <2>3. \E term : Done(RemainderCode(p, v), v, term, "none", <<>>, live)
    BY <2>1 DEF Made
  <2> QED
    BY <2>2, <2>3, DoneEnough
<1> QED
  BY <1>2, <1>3, <1>4, <1>5, <1>6, <1>7

LEMMA ControlEnough ==
  ASSUME IInv, CodeInv, ~exhausted, FewWait,
         CompareValue \/ Cmp \/ Br \/ Jmp \/ Alloc \/ Invoke \/ Ret \/ Arrive \/ EnterFrame
  PROVE  ~exhausted'
<1> DEFINE D == DOMAIN rValRegMap
<1>1. Ample(Gen, {}, D) /\ Couple(D)
  BY GenAmple DEF FewWait
<1>2. CASE CompareValue
  <2>1. PICK p, cond, v :
          /\ \E operands : v \in Results(operands)
          /\ \E term : Done(CmpCode(p, v, cond, true_cmp), v, term, "none", <<>>, live)
    BY <1>2 DEF CompareValue
  <2>2. ~CmpCode(p, v, cond, true_cmp).failed
    BY <1>1, <2>1, ResultsFresh, CmpAmple
  <2> QED
    BY <2>1, <2>2, DoneEnough
<1>3. CASE Cmp
  <2>1. PICK p \in Pairs, cond \in Comparisons :
          /\ ~(RValues \subseteq DOMAIN rValRegMap)
          /\ exhausted' = (exhausted \/ CmpCode(p, NewRValue, cond, TRUE).failed)
    BY <1>3 DEF Cmp
  <2>2. NewRValue \in Results({})
    BY <2>1 DEF Results
  <2>3. ~CmpCode(p, NewRValue, cond, TRUE).failed
    BY <1>1, <2>2, ResultsFresh, CmpAmple
  <2> QED
    BY <2>1, <2>3
<1>4. CASE Br
  <2>1. PICK v \in Operands :
          LET a == ReadRegister(Gen, v, TRUE)
              tested == IF true_cmp THEN a.g ELSE Emit(a.g, Compare(a.src, Imm(Val(Zero))))
              g == Free(Emit(tested, Branch(IF cmp_op = NON THEN "EQ" ELSE cmp_op)), a)
          IN  \E wanted : Done(g, Nothing, <<>>, "branch", wanted, live)
    BY <1>4 DEF Br
  <2> DEFINE a == ReadRegister(Gen, v, TRUE)
             tested == IF true_cmp THEN a.g ELSE Emit(a.g, Compare(a.src, Imm(Val(Zero))))
             branched == Emit(tested, Branch(IF cmp_op = NON THEN "EQ" ELSE cmp_op))
             g == Free(branched, a)
  <2>2. Ample(a.g, Borrowed(a), D)
    BY <1>1, ReadFirstAmple
  <2>3. PICK wanted : Done(g, Nothing, <<>>, "branch", wanted, live)
    BY <2>1
  <2> HIDE DEF a
  <2>4. Ample(tested, Borrowed(a), D)
    BY <2>2, EmitAmple
  <2> HIDE DEF tested
  <2>5. Ample(branched, Borrowed(a), D)
    BY <2>4, EmitAmple
  <2> HIDE DEF branched
  <2>6. Ample(g, {}, D)
    BY <2>5, FreeLastAmple
  <2> HIDE DEF g
  <2> QED
    BY <2>3, <2>6, DoneEnough DEF Ample
<1>5. CASE Jmp
  <2>1. Done(Gen, Nothing, <<>>, "none", <<>>, live)
    BY <1>5 DEF Jmp
  <2> QED
    BY <1>1, <2>1, DoneEnough DEF Ample
<1>6. CASE Alloc
  <2> DEFINE offset == With(Gen.offset, Array, stackPointer)
             g == Placed(Gen, Gen.sp + 1, offset)
  <2>1. Done([Gen EXCEPT !.sp = @ + 1, !.offset = With(@, Array, stackPointer)],
             Nothing, <<>>, "none", <<>>, live)
    BY <1>6, Zenon DEF Alloc, Made
  <2>2. [Gen EXCEPT !.sp = @ + 1, !.offset = With(@, Array, stackPointer)] = g
    BY Zenon DEF Placed, Gen
  <2>3. Done(g, Nothing, <<>>, "none", <<>>, live)
    BY <2>1, <2>2, Zenon
  <2> HIDE DEF offset
  <2>4. ~g.failed
    BY <1>1, PlaceSound DEF Ample
  <2> HIDE DEF g
  <2> QED
    BY <2>3, <2>4, DoneEnough
<1>7. CASE Invoke
  <2>1. PICK args \in ArgumentLists, saved \in SUBSET (live \cap DOMAIN variableRegs) :
          \E v \in Results(ToSet(args)) \cup {Nothing} :
            /\ pc = "block"
            /\ ToSet(args) \subseteq Operands
            /\ Len(args) > 1 => ToSet(args) \cap RValues = {}
            /\ \E wanted, alive : Done(InvokeCode(args, v, saved), v, <<"call">>, "use", wanted, alive)
    BY <1>7 DEF Invoke
  <2>2. PICK v \in Results(ToSet(args)) \cup {Nothing} :
            /\ pc = "block"
            /\ ToSet(args) \subseteq Operands
            /\ Len(args) > 1 => ToSet(args) \cap RValues = {}
            /\ \E wanted, alive : Done(InvokeCode(args, v, saved), v, <<"call">>, "use", wanted, alive)
    BY <2>1
  <2> DEFINE returns == v # Nothing
             h == Popped(args, returns, saved)
             code == InvokeCode(args, v, saved)
  <2>3. code = IF v # Nothing THEN Produce(h, v, Get(saved)) ELSE h
    BY CodeIsPopped
  <2>4. Returned(Gen, h, Context(saved), Cardinality(Context(saved)), args, returns)
    BY <2>2, PoppedReturned, Zenon
  <2>5. Sound(h, {}, D)
    BY PoppedSound
  <2> HIDE DEF h, returns
  <2>6. Ample(h, {}, D)
    BY <2>4, <2>5, GenFields DEF Returned, Same, Ample
  <2>7. v # Nothing => v \in LValues \/ v \notin D
    BY <2>2, ResultsFresh
  <2>8. v # Nothing => Ample(Produce(h, v, Get(saved)), {}, D \cup {v})
    BY <1>1, <2>6, <2>7, CoupleFacts, ProduceAmple
  <2>9. ~code.failed
    BY <2>3, <2>6, <2>8 DEF Ample
  <2>10. PICK wanted, alive : Done(code, v, <<"call">>, "use", wanted, alive)
    BY <2>2
  <2> HIDE DEF code
  <2> QED
    BY <2>9, <2>10, DoneEnough
<1>8. CASE Ret \/ Arrive \/ EnterFrame
  BY <1>8 DEF Ret, Arrive, EnterFrame
<1> QED
  BY <1>2, <1>3, <1>4, <1>5, <1>6, <1>7, <1>8

LEMMA LoadElementEnough == ASSUME IInv, ~exhausted, FewWait, LoadElement PROVE ~exhausted'
<1>1. PICK p, v :
        /\ \E operands : v \in Results(operands)
        /\ LET base == ReadRegister(Gen, p[1], TRUE)
               off == ReadElementIndex(base.g, p[2])
               load == Compute(Result, "element", <<base.src, off.src>>)
           IN  \E term : Made(Produce(Free(Free(off.g, off), base), v, load), v, term)
  BY DEF LoadElement
<1> DEFINE D == DOMAIN rValRegMap
           base == ReadRegister(Gen, p[1], TRUE)
           off == ReadElementIndex(base.g, p[2])
           load == Compute(Result, "element", <<base.src, off.src>>)
           g == Free(Free(off.g, off), base)
<1>2. \E term : Made(Produce(g, v, load), v, term)
  BY <1>1
<1>3. Couple(D) /\ Ample(base.g, Borrowed(base), D) /\ Couple(Borrowed(base))
  BY GenAmple, ReadFirstAmple, CoupleFacts DEF FewWait
<1>4. off = ReadElementIndex(base.g, p[2])
  OBVIOUS
<1> HIDE DEF base, off
<1>5. /\ Ample(off.g, Borrowed(base) \cup Borrowed(off), D)
      /\ Apart(off.g, Borrowed(off), Borrowed(base))
  BY <1>3, <1>4, ReadElementAmple
<1>6. Ample(g, {}, D)
  BY <1>5, FreeTwoAmple
<1> HIDE DEF g, load
<1> QED
  BY <1>1, <1>2, <1>6, MadeEnough

LEMMA IndexedAmple ==
  ASSUME NEW D, NEW i, NEW at, Ample(Gen, {}, D), Couple(D)
  PROVE  LET pre == AllocTempRegister(Gen)
             off == ReadIndex(Emit(pre.g, Move(pre.reg, at)), i)
         IN  /\ Ample(off.g, {pre.reg} \cup Borrowed(off), D)
             /\ Apart(off.g, Borrowed(off), {pre.reg})
<1> DEFINE pre == AllocTempRegister(Gen)
           moved == Emit(pre.g, Move(pre.reg, at))
           off == ReadIndex(moved, i)
<1>1. Ample(pre.g, {pre.reg}, D)
  BY AllocFirstAmple
<1> HIDE DEF pre
<1>2. Ample(moved, {pre.reg}, D) /\ Couple({pre.reg})
  BY <1>1, EmitAmple, CoupleFacts
<1> HIDE DEF moved
<1>3. off = ReadRegister(moved, i, i \notin Numbers)
  BY DEF ReadIndex
<1> HIDE DEF off
<1>4. Ample(off.g, {pre.reg} \cup Borrowed(off), D) /\ Apart(off.g, Borrowed(off), {pre.reg})
  BY <1>2, <1>3, ReadAmple
<1> QED
  BY <1>4 DEF off, moved, pre

LEMMA LoadLocalEnough == ASSUME IInv, ~exhausted, FewWait, LoadLocal PROVE ~exhausted'
<1>1. PICK i, v :
        /\ \E operands : v \in Results(operands)
        /\ LET pre == AllocTempRegister(Gen)
               at == Offset(var2offset[Array])
               off == ReadIndex(Emit(pre.g, Move(pre.reg, Imm(at))), i)
               aft == AllocTempRegister(ReleaseTempRegister(Free(off.g, off), pre.reg))
               g == Emit(aft.g, Compute(aft.reg, "element", <<Reg(pre.reg), off.src>>))
               load == Move(Result, Reg(aft.reg))
           IN  \E term : Made(Produce(ReleaseTempRegister(g, aft.reg), v, load), v, term)
  BY SMTT(30) DEF LoadLocal
<1> DEFINE D == DOMAIN rValRegMap
           pre == AllocTempRegister(Gen)
           at == Imm(Offset(var2offset[Array]))
           off == ReadIndex(Emit(pre.g, Move(pre.reg, at)), i)
           freed == Free(off.g, off)
           f == ReleaseTempRegister(freed, pre.reg)
           aft == AllocTempRegister(f)
           g == Emit(aft.g, Compute(aft.reg, "element", <<Reg(pre.reg), off.src>>))
           load == Move(Result, Reg(aft.reg))
           h == ReleaseTempRegister(g, aft.reg)
<1>2. \E term : Made(Produce(h, v, load), v, term)
  BY <1>1, SMTT(30)
<1>3. Ample(Gen, {}, D) /\ Couple(D)
  BY GenAmple DEF FewWait
<1>4. Ample(off.g, {pre.reg} \cup Borrowed(off), D) /\ Apart(off.g, Borrowed(off), {pre.reg})
  BY <1>3, IndexedAmple
<1> HIDE DEF pre, off
<1>5. Ample(freed, {pre.reg}, D)
  BY <1>4, FreeAmple
<1> HIDE DEF freed
<1>6. Ample(f, {}, D)
  BY <1>5, ReleaseLastAmple
<1> HIDE DEF f
<1>7. Ample(aft.g, {aft.reg}, D)
  BY <1>3, <1>6, AllocFirstAmple
<1> HIDE DEF aft
<1>8. Ample(g, {aft.reg}, D)
  BY <1>7, EmitAmple
<1> HIDE DEF g
<1>9. Ample(h, {}, D)
  BY <1>8, ReleaseLastAmple
<1> HIDE DEF h, load
<1> QED
  BY <1>1, <1>2, <1>9, MadeEnough

LEMMA StoreElementEnough == ASSUME IInv, ~exhausted, FewWait, StoreElement PROVE ~exhausted'
<1>1. PICK p, x :
        LET base == ReadRegister(Gen, p[1], TRUE)
            rd == ReadRegister(base.g, x, TRUE)
            off == ReadElementIndex(rd.g, p[2])
            g == Emit(off.g, Use(<<base.src, off.src, rd.src>>))
        IN  \E wanted :
              Done(Free(Free(Free(g, off), rd), base), Nothing, <<>>, "use", wanted, live)
  BY DEF StoreElement, Stored
<1> DEFINE D == DOMAIN rValRegMap
           base == ReadRegister(Gen, p[1], TRUE)
           rd == ReadRegister(base.g, x, TRUE)
           off == ReadElementIndex(rd.g, p[2])
           g == Emit(off.g, Use(<<base.src, off.src, rd.src>>))
           both == Borrowed(base) \cup Borrowed(rd)
           h == Free(g, off)
           j == Free(Free(h, rd), base)
<1>2. PICK wanted : Done(j, Nothing, <<>>, "use", wanted, live)
  BY <1>1
<1>3. Ample(Gen, {}, D) /\ Couple(D)
  BY GenAmple DEF FewWait
<1>4. base = ReadRegister(Gen, p[1], TRUE) /\ rd = ReadRegister(base.g, x, TRUE)
  OBVIOUS
<1> HIDE DEF base, rd
<1>5. Ample(rd.g, both, D) /\ Apart(rd.g, Borrowed(rd), Borrowed(base)) /\ Couple(both)
  BY <1>3, <1>4, ReadTwoAmple
<1>6. Ample(off.g, both \cup Borrowed(off), D) /\ Apart(off.g, Borrowed(off), both)
  BY <1>3, <1>5, ReadElementAmple
<1> HIDE DEF off
<1>7. Ample(g, both \cup Borrowed(off), D)
  BY <1>6, EmitAmple
<1> HIDE DEF g
<1>8. Ample(h, both, D)
  <2>1. Apart(g, Borrowed(off), both)
    BY <1>6, <1>7 DEF Apart, Ample
  <2> HIDE DEF both
  <2> QED
    BY <1>7, <2>1, FreeAmple
<1> HIDE DEF h
<1>9. Ample(j, {}, D)
  <2>1. Apart(h, Borrowed(rd), Borrowed(base))
    BY <1>5, <1>8 DEF Apart, Ample
  <2> QED
    BY <1>8, <2>1, FreeTwoAmple
<1> HIDE DEF j
<1> QED
  BY <1>2, <1>9, DoneEnough DEF Ample

LEMMA StoreLocalEnough == ASSUME IInv, ~exhausted, FewWait, StoreLocal PROVE ~exhausted'
<1>1. PICK i, x :
        LET pre == AllocTempRegister(Gen)
            at == Offset(var2offset[Array])
            off == ReadIndex(Emit(pre.g, Move(pre.reg, Imm(at))), i)
            aft == AllocTempRegister(Free(ReleaseTempRegister(off.g, pre.reg), off))
            g == Emit(aft.g, Compute(aft.reg, "element", <<Reg(pre.reg), off.src>>))
            obj == ReadRegister(g, x, TRUE)
            stored == Emit(obj.g, Use(<<Reg(aft.reg), obj.src>>))
        IN  \E wanted : Done(ReleaseTempRegister(Free(stored, obj), aft.reg),
                             Nothing, <<>>, "use", wanted, live)
  BY Zenon DEF StoreLocal, Stored
<1> DEFINE D == DOMAIN rValRegMap
           pre == AllocTempRegister(Gen)
           at == Imm(Offset(var2offset[Array]))
           off == ReadIndex(Emit(pre.g, Move(pre.reg, at)), i)
           f == ReleaseTempRegister(off.g, pre.reg)
           freed == Free(f, off)
           aft == AllocTempRegister(freed)
           g == Emit(aft.g, Compute(aft.reg, "element", <<Reg(pre.reg), off.src>>))
           obj == ReadRegister(g, x, TRUE)
           stored == Emit(obj.g, Use(<<Reg(aft.reg), obj.src>>))
           h == Free(stored, obj)
           j == ReleaseTempRegister(h, aft.reg)
<1>2. PICK wanted : Done(j, Nothing, <<>>, "use", wanted, live)
  BY <1>1, Zenon
<1>3. Ample(Gen, {}, D) /\ Couple(D)
  BY GenAmple DEF FewWait
<1>4. Ample(off.g, {pre.reg} \cup Borrowed(off), D) /\ Apart(off.g, Borrowed(off), {pre.reg})
  BY <1>3, IndexedAmple
<1> HIDE DEF pre, off
<1>5. Ample(f, Borrowed(off), D)
  <2>1. {pre.reg} \cup Borrowed(off) = Borrowed(off) \cup {pre.reg}
    OBVIOUS
  <2>2. Apart(off.g, {pre.reg}, Borrowed(off))
    BY <1>4 DEF Apart
  <2>3. Ample(off.g, Borrowed(off) \cup {pre.reg}, D)
    BY <1>4, <2>1
  <2> QED
    BY <2>2, <2>3, ReleaseAmple
<1> HIDE DEF f
<1>6. Ample(freed, {}, D)
  BY <1>5, FreeLastAmple
<1> HIDE DEF freed
<1>7. Ample(aft.g, {aft.reg}, D)
  BY <1>3, <1>6, AllocFirstAmple
<1> HIDE DEF aft
<1>8. Ample(g, {aft.reg}, D) /\ Couple({aft.reg})
  BY <1>7, EmitAmple, CoupleFacts
<1> HIDE DEF g
<1>9. obj = ReadRegister(g, x, TRUE)
  OBVIOUS
<1> HIDE DEF obj
<1>10. Ample(obj.g, {aft.reg} \cup Borrowed(obj), D) /\ Apart(obj.g, Borrowed(obj), {aft.reg})
  BY <1>3, <1>8, <1>9, ReadAmple
<1>11. Ample(stored, {aft.reg} \cup Borrowed(obj), D)
  BY <1>10, EmitAmple
<1> HIDE DEF stored
<1>12. Ample(h, {aft.reg}, D)
  <2>1. Apart(stored, Borrowed(obj), {aft.reg})
    BY <1>10, <1>11 DEF Apart, Ample
  <2> QED
    BY <1>11, <2>1, FreeAmple
<1> HIDE DEF h
<1>13. Ample(j, {}, D)
  BY <1>12, ReleaseLastAmple
<1> HIDE DEF j
<1> QED
  BY <1>2, <1>13, DoneEnough DEF Ample

LEMMA NextEnough ==
  ASSUME KeptInv, ~exhausted, FewWait, [Next]_vars
  PROVE  ~exhausted'
<1>1. IInv /\ CodeInv
  BY DEF KeptInv
<1>2. CASE UNCHANGED vars
  BY <1>2 DEF vars
<1>3. CASE Negate \/ Not \/ PhiMov \/ Phi \/ Arithmetic \/ Remainder
  BY <1>1, <1>3, OperationsEnough
<1>4. CASE CompareValue \/ Cmp \/ Br \/ Jmp \/ Alloc \/ Invoke \/ Ret \/ Arrive \/ EnterFrame
  BY <1>1, <1>4, ControlEnough
<1>5. CASE LoadElement \/ LoadLocal
  BY <1>1, <1>5, LoadElementEnough, LoadLocalEnough
<1>6. CASE StoreElement \/ StoreLocal
  BY <1>1, <1>6, StoreElementEnough, StoreLocalEnough
<1> QED
  BY <1>2, <1>3, <1>4, <1>5, <1>6 DEF Next

(* In every function in which no more than two right values wait for their *)
(* use at any time, the five temporary registers are enough, whatever the  *)
(* instructions: "Temp registers are not enough" is never reported.        *)
THEOREM TwoMayWait == Spec /\ []FewWait => []NeverExhausted
<1>1. Init => KeptInv /\ ~exhausted
  BY InitKeptInv DEF Init
<1>2. KeptInv /\ ~exhausted /\ FewWait /\ [Next]_vars => (KeptInv /\ ~exhausted)'
  BY NextKeptInv, NextEnough
<1>3. ~exhausted <=> NeverExhausted
  BY DEF NeverExhausted
<1> QED
  BY <1>1, <1>2, <1>3, PTL DEF Spec

(* So in such a function every value is kept and every effect is right.    *)
THEOREM FewValuesRight == Spec /\ []FewWait => [](ValuesKept /\ EffectRight)
  BY TwoMayWait, EveryValueKept, EveryEffectRight, PTL
=============================================================================
