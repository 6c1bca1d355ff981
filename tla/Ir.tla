--------------------------------- MODULE Ir ---------------------------------
(* The IR of one function, as the optimisation passes see it (ir.h, ir.cpp): *)
(* operators on a function f, a record of                                   *)
(*   order   Function::blocks, the entry block first                        *)
(*   bb      of each block: instructions, phis, valid                       *)
(*   edges   successors and predecessors, which the passes keep two-way     *)
(*   val     of each instruction or phi: kind, op, operands, block, result  *)
(*           type, valid, and the targets of a jump.  The operands of a phi *)
(*           are a function on blocks, those of others a sequence.          *)
(*   uses    the pairs <<value, user>>: Value::users                        *)
(*   arrays  the contents of constant arrays                                *)
(*   up      the order in which unordered sets are walked                   *)
EXTENDS Integers, FiniteSets, Sequences, SequencesExt, FiniteSetsExt, Functions, TLC

(* Values: instructions are numbered below 500; the parameter of the       *)
(* function, an int global of initial value 0, UndefinedValue, numbers and *)
(* constant arrays above.                                                  *)
Parameter == 500
Global == 501
Undefined == 502
ConstantArray(alloc) == 600 + alloc
Number(n) == 2000 + n

IsInstruction(v) == v < 500
IsConstantArray(v) == v \in 600 .. 1100
IsNumber(v) == v > 1100
NumberOf(v) == v - 2000

Kind(f, v) == IF IsInstruction(v) THEN f.val[v].kind ELSE "none"
Block(f, v) == f.val[v].blk
Operands(f, v) == Range(f.val[v].args)
Users(f, v) == {p[2] : p \in {q \in f.uses : q[1] = v}}
Succ(f, b) == {e[2] : e \in {d \in f.edges : d[1] = b}}
Pred(f, b) == {e[1] : e \in {d \in f.edges : d[2] = b}}
Ins(f, b) == f.bb[b].ins
Phis(f, b) == f.bb[b].phis

(* An unordered_set is walked in one order or the other.                   *)
InOrder(f, S) ==
  LET ascending == SetToSortSeq(S, <) IN IF f.up THEN ascending ELSE Reverse(ascending)

Erase(f, b, v) == [f EXCEPT !.bb[b].ins = SelectSeq(@, LAMBDA x : x # v)]

(* A new instruction; it is in no block yet.                               *)
Fresh(f) == 1 + Max(DOMAIN f.val)
Create(f, record) ==
  LET v == Fresh(f)
  IN  [f EXCEPT !.val = (v :> record) @@ @,
                !.uses = @ \cup {<<x, v>> : x \in Range(record.args)}]

(* Mutant: a value with a second user gets no variable.                    *)
NoVariable(f, v) == f

(* A value that other blocks or several instructions use gets a variable.  *)
NeedsVariable(f, v) ==
  IF IsInstruction(v) /\ f.val[v].res = "R" THEN [f EXCEPT !.val[v].res = "L"] ELSE f

(* replaceUse of every kind of instruction.                                *)
ReplaceUse(f, user, old, new) ==
  IF old \notin Operands(f, user) THEN f
  ELSE [f EXCEPT !.val[user].args = [i \in DOMAIN @ |-> IF @[i] = old THEN new ELSE @[i]],
                 !.uses = (@ \ {<<old, user>>}) \cup {<<new, user>>}]

ReplaceEverywhere(f, old, new) ==
  LET replace(g, user) == ReplaceUse(g, user, old, new)
  IN  FoldLeft(replace, f, InOrder(f, Users(f, old)))

(* abandonUse of every kind of instruction: operands nobody uses any more  *)
(* are abandoned as well, calls excepted.                                  *)
RECURSIVE Abandon(_, _)
Abandon(f, v) ==
  IF ~IsInstruction(v) \/ ~f.val[v].valid THEN f
  ELSE LET released == [f EXCEPT !.val[v].valid = FALSE,
                                 !.uses = @ \ {<<x, v>> : x \in Operands(f, v)}]
           unused(g, x) ==
             IF Users(g, x) = {} /\ Kind(g, x) # "invoke" THEN Abandon(g, x) ELSE g
       IN  FoldLeft(unused, released, InOrder(f, Operands(f, v)))

(* remove_trivial_phi, once the IR has been built: the function, and the   *)
(* value that stands for the phi.                                          *)
RECURSIVE RemoveTrivialPhi(_, _)
RemoveTrivialPhi(f, phi) ==
  LET others == Operands(f, phi) \ {phi}
      same == IF others = {} THEN Undefined ELSE CHOOSE x \in others : TRUE
      users == Users(f, phi) \ {phi}
      unlisted == [f EXCEPT !.bb[Block(f, phi)].phis = @ \ {phi},
                            !.uses = @ \ {<<phi, phi>>}]
      cascade(r, user) ==
        IF Kind(f, user) # "phi" THEN r
        ELSE LET t == RemoveTrivialPhi(r.f, user)
             IN  [f |-> t.f, v |-> IF user = r.v THEN t.v ELSE r.v]
  IN  IF Cardinality(others) > 1 THEN [f |-> f, v |-> phi]
      ELSE FoldLeft(cascade, [f |-> Abandon(ReplaceEverywhere(unlisted, phi, same), phi), v |-> same],
                    InOrder(f, users))

(* equals: the same operation on equal operands.                           *)
RECURSIVE Equal(_, _, _)
Equal(f, v, w) ==
  \/ v = w
  \/ /\ Kind(f, v) \in {"binary", "cmp"} /\ Kind(f, w) \in {"binary", "cmp"}
     /\ f.val[v].op = f.val[w].op
     /\ LET a == f.val[v].args
            b == f.val[w].args
        IN  \/ Equal(f, a[1], b[1]) /\ Equal(f, a[2], b[2])
            \/ f.val[v].op \in {"+", "*"} /\ Equal(f, a[1], b[2]) /\ Equal(f, a[2], b[1])
  \/ /\ Kind(f, v) = "unary" /\ Kind(f, w) = "unary"
     /\ f.val[v].op = f.val[w].op
     /\ Equal(f, f.val[v].args[1], f.val[w].args[1])

-----------------------------------------------------------------------------
(* irCheck.                                                                *)

NoResult == {"br", "jmp", "ret", "invoke", "store"}
BlockSet(f) == Range(f.order)

GlobalCheck(f) ==
  \A p \in f.uses : p[1] = Global \/ IsConstantArray(p[1]) => f.val[p[2]].valid

FunctionCheck(f) ==
  /\ Pred(f, f.order[1]) = {}
  /\ \A e \in f.edges : f.bb[e[1]].valid /\ f.bb[e[2]].valid

BlockCheck(f, b) ==
  LET ins == Ins(f, b)
  IN  ins # <<>> =>
        /\ Kind(f, Last(ins)) \in {"jmp", "br", "ret"}
        /\ \A i \in DOMAIN ins : Kind(f, ins[i]) = "cmp" =>
             \A j \in i + 1 .. Len(ins) : Kind(f, ins[j]) = "br"

UserCheck(f, v) ==
  LET users == Users(f, v)
      r == f.val[v].res = "R"
  IN  /\ Cardinality(users) > 1 => ~r
      /\ r => \A u \in users : Cardinality(users) = 1 => Block(f, u) = Block(f, v)
      /\ \A u \in users : f.val[u].valid
      /\ Kind(f, v) # "phi" => v \notin users

OperandCheck(f, v) ==
  /\ Kind(f, v) = "cmp" => f.val[v].res = "R"
  /\ \A x \in Operands(f, v) : /\ IsInstruction(x) => f.val[x].valid
                               /\ v \in Users(f, x)

TargetCheck(f, v) ==
  LET b == Block(f, v)
      n == CASE Kind(f, v) = "br" -> 2 [] Kind(f, v) = "jmp" -> 1 [] OTHER -> 0
  IN  Kind(f, v) \in {"br", "jmp", "ret"} =>
        Cardinality(Succ(f, b)) = n /\ Range(f.val[v].to) \subseteq Succ(f, b)

PhiCheck(f, phi) ==
  /\ Cardinality(DOMAIN f.val[phi].args) >= 2
  /\ DOMAIN f.val[phi].args = Pred(f, Block(f, phi))
  /\ \A x \in Operands(f, phi) : IsInstruction(x) => f.val[x].res = "L"

IrCheck(f) ==
  /\ GlobalCheck(f)
  /\ FunctionCheck(f)
  /\ \A b \in BlockSet(f) :
       /\ BlockCheck(f, b)
       /\ \A v \in Range(Ins(f, b)) \cup Phis(f, b) :
            /\ f.val[v].valid
            /\ Block(f, v) = b
            /\ UserCheck(f, v)
            /\ OperandCheck(f, v)
       /\ \A v \in Range(Ins(f, b)) : TargetCheck(f, v)
       /\ \A phi \in Phis(f, b) : PhiCheck(f, phi)

(* What irUserCheck adds at the end.                                       *)
EverythingUsed(f) ==
  \A b \in BlockSet(f) : \A v \in Range(Ins(f, b)) \cup Phis(f, b) :
    Kind(f, v) \notin NoResult => Users(f, v) # {}
=============================================================================
