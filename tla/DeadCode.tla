------------------------------- MODULE DeadCode -------------------------------
(* Removal of dead code, which runs after every pass: dead_code_delete and   *)
(* the functions of ir_utils.cpp it calls.  A call is to the runtime library  *)
(* ("getint", "putint") or to a function without side effects ("pure").       *)
EXTENDS Ir

(* A result nobody uses, a store, jump or return that has been abandoned,  *)
(* a call without side effects whose result nobody uses.                   *)
Dead(f, v) ==
  \/ Kind(f, v) \notin NoResult /\ Users(f, v) = {}
  \/ Kind(f, v) \in NoResult /\ ~f.val[v].valid
  \/ Kind(f, v) = "invoke" /\ Users(f, v) = {} /\ f.val[v].op = "pure"

(* The operands of a phi for blocks that are no predecessors any more.     *)
DropOperands(f, phi) ==
  LET args == f.val[phi].args
      kept == [b \in DOMAIN args \cap Pred(f, Block(f, phi)) |-> args[b]]
  IN  [f EXCEPT !.val[phi].args = kept,
                !.uses = @ \ {<<x, phi>> : x \in Range(args) \ Range(kept)}]

(* The loop over the phis begins again when one has lost operands.         *)
RECURSIVE VisitPhis(_, _, _)
VisitPhis(f, b, phis) ==
  IF phis = <<>> THEN f
  ELSE LET phi == Head(phis)
           lost == ~(DOMAIN f.val[phi].args \subseteq Pred(f, b))
           without == RemoveTrivialPhi(DropOperands(f, phi), phi).f
       IN  IF Users(f, phi) = {}
           THEN VisitPhis([Abandon(f, phi) EXCEPT !.bb[b].phis = @ \ {phi}], b, Tail(phis))
           ELSE IF lost THEN VisitPhis(without, b, InOrder(without, Phis(without, b)))
           ELSE VisitPhis(f, b, Tail(phis))

UnusedInstructionDelete(f, b) ==
  LET delete(g, v) == IF Dead(g, v) THEN Erase(Abandon(g, v), b, v) ELSE g
      g == FoldLeft(delete, f, Ins(f, b))
  IN  VisitPhis(g, b, InOrder(g, Phis(g, b)))

RECURSIVE ReachedFrom(_, _)
ReachedFrom(f, S) ==
  LET more == S \cup UNION {Succ(f, b) : b \in S} IN IF more = S THEN S ELSE ReachedFrom(f, more)

(* build_relation_tree *)
Reachable(f) == ReachedFrom(f, {f.order[1]})

(* The users of an instruction of a block that is removed: a phi loses the *)
(* operands, others get an undefined value.                                *)
CutUsers(f, v) ==
  LET b == Block(f, v)
      forget(args) == [c \in {c \in DOMAIN args : c # b /\ args[c] # v} |-> args[c]]
      cut(g, user) ==
        IF Kind(g, user) = "phi"
        THEN RemoveTrivialPhi([g EXCEPT !.val[user].args = forget(@)], user).f
        ELSE ReplaceUse(g, user, v, Undefined)
  IN  FoldLeft(cut, f, InOrder(f, {u \in Users(f, v) : Block(f, u) # b
                                                       /\ f.bb[Block(f, u)].valid}))

UnusedBlockDelete(f) ==
  LET release(g, v) == Abandon(CutUsers(g, v), v)
      delete(g, b) ==
        [FoldLeft(release, g, Reverse(Ins(g, b))) EXCEPT
           !.order = SelectSeq(@, LAMBDA c : c # b),
           !.edges = {e \in @ : b \notin {e[1], e[2]}},
           !.bb[b] = [ins |-> <<>>, phis |-> {}, valid |-> FALSE]]
      reached == Reachable(f)
  IN  FoldLeft(delete, f, SelectSeq(f.order, LAMBDA b : b \notin reached))

(* A right value whose user is in another block gets a variable.           *)
FixRightValue(f) ==
  LET result(v, old) ==
        IF Kind(f, v) = "alloc" \/ (Kind(f, v) = "invoke" /\ Users(f, v) = {}) THEN "other"
        ELSE IF old = "R" /\ \E u \in Users(f, v) : Users(f, v) = {u} /\ Block(f, u) # Block(f, v)
        THEN "L"
        ELSE old
      present == UNION {Range(Ins(f, b)) : b \in BlockSet(f)}
  IN  [f EXCEPT !.val = [v \in DOMAIN @ |->
                           IF v \in present THEN [@[v] EXCEPT !.res = result(v, @)] ELSE @[v]]]

DeadCodeDelete(f) ==
  LET g == UnusedBlockDelete(f)
  IN  FixRightValue(FoldLeft(UnusedInstructionDelete, g, g.order))

(* block_predecessor_delete: blocks without predecessors lose their edges. *)
RECURSIVE PredecessorDelete(_, _, _)
PredecessorDelete(f, b, pre) ==
  LET g == [f EXCEPT !.edges = @ \ {<<pre, b>>}]
      next(h, c) == PredecessorDelete(h, c, b)
  IN  IF Pred(g, b) # {} THEN g
      ELSE FoldLeft(next, [g EXCEPT !.edges = {e \in @ : e[1] # b}], InOrder(g, Succ(g, b)))
=============================================================================
