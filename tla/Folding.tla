------------------------------- MODULE Folding -------------------------------
(* The passes that compute at compile time: constant folding, branches on    *)
(* constants, repeated expressions; and the joining of blocks.  Numbers are  *)
(* small here: wrapping to 32 bits is left out.                              *)
EXTENDS DeadCode

Orderings == {"<", ">", "<=", ">="}
Mirror == [o \in Orderings |-> CASE o = "<" -> ">" [] o = ">" -> "<" [] o = "<=" -> ">=" [] OTHER -> "<="]

Truth(p) == IF p THEN 1 ELSE 0
Magnitude(n) == IF n < 0 THEN -n ELSE n
Quotient(a, b) ==
  IF b = 0 THEN 0
  ELSE LET q == Magnitude(a) \div Magnitude(b) IN IF (a < 0) = (b < 0) THEN q ELSE -q

(* What the operators mean, in the compiler and on the target.             *)
Evaluate(op, a, b) ==
  CASE op = "+" -> a + b
    [] op = "-" -> a - b
    [] op = "*" -> a * b
    [] op = "/" -> Quotient(a, b)
    [] op = "%" -> a - b * Quotient(a, b)
    [] op = "<" -> Truth(a < b)
    [] op = ">" -> Truth(a > b)
    [] op = "<=" -> Truth(a <= b)
    [] op = ">=" -> Truth(a >= b)
    [] op = "==" -> Truth(a = b)
    [] OTHER -> Truth(a # b)

EvaluateUnary(op, a) == IF op = "-" THEN -a ELSE IF op = "!" THEN Truth(a = 0) ELSE a

(* What a folded instruction becomes.                                      *)
Unchanged == [to |-> "unchanged", v |-> Undefined]
Becomes(v) == [to |-> "value", v |-> v]
Negated(v) == [to |-> "negation", v |-> v]
Swapped == [to |-> "swapped", v |-> Undefined]
Added(v) == [to |-> "sum", v |-> v]

NegationOf(f, v) ==
  IF Kind(f, v) = "unary" /\ f.val[v].op = "-" THEN {f.val[v].args[1]} ELSE {}

NumberOnLeft(kind, op, n, right) ==
  CASE n = 0 /\ op \in {"*", "/", "%"} -> Becomes(Number(0))
    [] n = 0 /\ op = "+" -> Becomes(right)
    [] n = 0 /\ op = "-" -> Negated(right)
    [] n = 1 /\ op = "*" -> Becomes(right)
    [] n = -1 /\ op = "*" -> Negated(right)
    [] kind = "cmp" /\ op \in Orderings -> Swapped
    [] OTHER -> Unchanged

NumberOnRight(op, left, n) ==
  CASE n = 0 /\ op = "*" -> Becomes(Number(0))
    [] n = 0 /\ op \in {"+", "-"} -> Becomes(left)
    [] n = 1 /\ op \in {"*", "/"} -> Becomes(left)
    [] n = 1 /\ op = "%" -> Becomes(Number(0))
    [] n = -1 /\ op = "*" -> Negated(left)
    [] OTHER -> Unchanged

NoNumbers(f, op, left, right) ==
  CASE left = right /\ op \in {"-", "%"} -> Becomes(Number(0))
    [] left = right /\ op = "/" -> Becomes(Number(1))
    [] op = "-" /\ NegationOf(f, right) # {} -> Added(f.val[right].args[1])
    [] op = "+" /\ Kind(f, right) = "unary" ->
         IF left \in NegationOf(f, right) THEN Becomes(Number(0)) ELSE Unchanged
    [] op = "+" /\ right \in NegationOf(f, left) -> Becomes(Number(0))
    [] OTHER -> Unchanged

FoldBinary(f, v) ==
  LET op == f.val[v].op
      left == f.val[v].args[1]
      right == f.val[v].args[2]
  IN  CASE IsNumber(left) /\ IsNumber(right) ->
             IF op \in {"/", "%"} /\ NumberOf(right) = 0 THEN Unchanged
             ELSE Becomes(Number(Evaluate(op, NumberOf(left), NumberOf(right))))
        [] IsNumber(left) -> NumberOnLeft(Kind(f, v), op, NumberOf(left), right)
        [] IsNumber(right) -> NumberOnRight(op, left, NumberOf(right))
        [] OTHER -> NoNumbers(f, op, left, right)

FoldUnary(f, v) ==
  LET op == f.val[v].op
      x == f.val[v].args[1]
  IN  CASE op = "+" -> Becomes(x)
        [] IsNumber(x) -> Becomes(Number(EvaluateUnary(op, NumberOf(x))))
        [] Kind(f, x) # "unary" -> Unchanged
        [] op = f.val[x].op /\ op \in {"-", "!"} -> Becomes(f.val[x].args[1])
        [] op = "!" -> [to |-> "not", v |-> f.val[x].args[1]]
        [] OTHER -> Unchanged

FoldLoad(f, v) ==
  LET array == f.val[v].args[1]
      offset == f.val[v].args[2]
  IN  IF ~(IsConstantArray(array) /\ IsNumber(offset)) THEN Unchanged
      ELSE LET known == f.arrays[array]
           IN  Becomes(Number(IF NumberOf(offset) \in DOMAIN known THEN known[NumberOf(offset)] ELSE 0))

(* fold: the instruction becomes its value, then its users are folded.  A  *)
(* negation takes its place in the block and inherits the variable of its  *)
(* operand (maintainLeftValue); the new ! of a unary operation is put in   *)
(* no block and is no user of its operand.                                 *)
RECURSIVE Fold(_, _)
Fold(f, v) ==
  LET kind == Kind(f, v)
      phi == RemoveTrivialPhi(f, v)
      folded == CASE kind \in {"binary", "cmp"} -> FoldBinary(f, v)
                  [] kind = "unary" -> FoldUnary(f, v)
                  [] kind = "load" -> FoldLoad(f, v)
                  [] kind = "phi" /\ phi.v # v -> Becomes(phi.v)
                  [] OTHER -> Unchanged
      f1 == IF kind = "phi" THEN phi.f ELSE f
      inherits == IsInstruction(folded.v) /\ f.val[folded.v].res = "L" /\ folded.to = "negation"
      new == Fresh(f1)
      unary == [kind |-> "unary", op |-> IF folded.to = "not" THEN "!" ELSE "-",
                args |-> <<folded.v>>, blk |-> Block(f, v), res |-> IF inherits THEN "L" ELSE "R",
                valid |-> TRUE, to |-> <<>>]
      negation == [Create(f, unary) EXCEPT
                     !.bb[Block(f, v)].ins = [i \in DOMAIN @ |-> IF @[i] = v THEN new ELSE @[i]]]
      detached == [f EXCEPT !.val = (new :> unary) @@ @]
      propagate(g, value) ==
        FoldLeft(Fold, Abandon(ReplaceEverywhere(g, v, value), v), InOrder(f, Users(f1, v)))
  IN  CASE folded.to = "unchanged" -> f
        [] folded.to = "swapped" ->
             [f EXCEPT !.val[v].op = Mirror[@], !.val[v].args = Reverse(@)]
        [] folded.to = "sum" ->
             [f EXCEPT !.val[v].op = "+", !.val[v].args[2] = folded.v,
                       !.uses = (@ \ {<<f.val[v].args[2], v>>}) \cup {<<folded.v, v>>}]
        [] folded.to = "value" -> propagate(f1, folded.v)
        [] folded.to = "negation" -> propagate(negation, new)
        [] OTHER -> propagate(detached, new)

ConstantFolding(f) ==
  LET block(g, b) ==
        LET fold(h, i) == LET v == Ins(h, b)[i] IN IF Users(h, v) # {} THEN Fold(h, v) ELSE h
        IN  UnusedInstructionDelete(FoldLeftDomain(fold, g, Ins(g, b)), b)
  IN  FoldLeft(block, f, f.order)

(* constant_branch_conversion.                                             *)
Straighten(f, b) ==
  LET br == Last(Ins(f, b))
      cond == f.val[br].args[1]
      cut == f.val[br].to[IF NumberOf(cond) = 0 THEN 1 ELSE 2]
      taken == f.val[br].to[IF NumberOf(cond) = 0 THEN 2 ELSE 1]
      jump == [kind |-> "jmp", op |-> "", args |-> <<>>, blk |-> b, res |-> "other",
               valid |-> TRUE, to |-> <<taken>>]
      g == Create(PredecessorDelete(f, cut, b), jump)
  IN  IF Ins(f, b) = <<>> \/ Kind(f, br) # "br" \/ ~IsNumber(cond) THEN f
      ELSE Abandon([g EXCEPT !.bb[b].ins[Len(Ins(f, b))] = Fresh(f)], br)

ConstantBranchConversion(f) == FoldLeft(Straighten, f, f.order)

(* local_common_subexpression_elimination: hashCode tells apart operations *)
(* and sets of operands; a bucket keeps the first instruction only.        *)
HashCode(f, v) == <<Kind(f, v), f.val[v].op, Operands(f, v)>>

BlockCse(f, b) ==
  LET eliminate(r, v) ==
        LET h == HashCode(r.f, v)
            i == r.first[h]
        IN  IF Kind(r.f, v) \notin {"binary", "unary"} THEN r
            ELSE IF h \notin DOMAIN r.first THEN [r EXCEPT !.first = (h :> v) @@ @]
            ELSE IF ~Equal(r.f, v, i) THEN r
            ELSE [r EXCEPT !.f =
                    Erase(Abandon(ReplaceEverywhere(NeedsVariable(r.f, i), v, i), v), b, v)]
  IN  FoldLeft(eliminate, [f |-> f, first |-> <<>>], Ins(f, b)).f

CommonSubexpressions(f) == FoldLeft(BlockCse, f, f.order)

(* block_combination: a block and its only successor, which has no other   *)
(* predecessor, become one; phis of the blocks after them are renamed.     *)
RECURSIVE Combine(_, _)
Combine(f, b) ==
  LET s == CHOOSE c \in Succ(f, b) : TRUE
      moved == Range(Ins(f, s))
      after == Succ(f, s)
      renamed(args) == [c \in {IF d = s THEN b ELSE d : d \in DOMAIN args} |->
                          IF c = b /\ s \in DOMAIN args THEN args[s] ELSE args[c]]
      joined == [f EXCEPT
        !.bb = [c \in DOMAIN @ |->
                  CASE c = b -> [@[b] EXCEPT !.ins = Front(@) \o Ins(f, s)]
                    [] c = s -> [ins |-> <<>>, phis |-> {}, valid |-> FALSE]
                    [] OTHER -> @[c]],
        !.val = [v \in DOMAIN @ |->
                   CASE v \in moved -> [@[v] EXCEPT !.blk = b]
                     [] \E c \in after : v \in Phis(f, c) -> [@[v] EXCEPT !.args = renamed(@)]
                     [] OTHER -> @[v]],
        !.edges = {e \in @ : s \notin {e[1], e[2]}} \cup {<<b, c>> : c \in after}]
  IN  IF Ins(f, b) # <<>> /\ Cardinality(Succ(f, b)) = 1 /\ s # b /\ Pred(f, s) = {b}
      THEN Combine(joined, b) ELSE f

BlockCombination(f) == FoldLeft(Combine, f, f.order)
=============================================================================
