----------------------------- MODULE LoopMotion -----------------------------
(* loop_invariant_code_motion: instructions of a loop whose operands are     *)
(* computed outside move to a new block in front of it.                      *)
EXTENDS DeadCode

(* build_dominate_tree: from all blocks down, until nothing changes.       *)
RECURSIVE Narrowed(_, _)
Narrowed(f, out) ==
  LET entry == f.order[1]
      next == [b \in DOMAIN out |->
                 {b} \cup {d \in DOMAIN out : b # entry /\ \A p \in Pred(f, b) : d \in out[p]}]
  IN  IF next = out THEN out ELSE Narrowed(f, next)

OutDominate(f) ==
  Narrowed(f, [b \in BlockSet(f) |-> IF b = f.order[1] THEN {b} ELSE BlockSet(f)])

(* find_loop_blocks: for an edge back to suc, the blocks from which its    *)
(* source is reached without suc.                                          *)
RECURSIVE Backwards(_, _, _)
Backwards(f, S, suc) ==
  LET more == S \cup UNION {Pred(f, b) : b \in S \ {suc}}
  IN  IF more = S THEN S ELSE Backwards(f, more, suc)

LoopBlocks(f) ==
  LET dom == OutDominate(f)
      back == {e \in f.edges : e[2] \in dom[e[1]]}
  IN  [suc \in {e[2] : e \in back} |->
         UNION {Backwards(f, {e[1], suc}, suc) : e \in {d \in back : d[2] = suc}}]

(* judge_loop                                                              *)
InLoop(f, v, loop) == IsInstruction(v) /\ Block(f, v) \in loop

(* Mutant: only the first operand is looked at.                            *)
InvariantFirst(f, v, loop) ==
  Kind(f, v) \in {"binary", "unary"} /\ ~InLoop(f, f.val[v].args[1], loop)

Invariant(f, v, loop) ==
  /\ Kind(f, v) \in {"binary", "unary"}
  /\ \A x \in Operands(f, v) : ~InLoop(f, x, loop)

(* find_invariant_codes: r is the function and the new block of each loop, *)
(* which is no block of the function yet.                                  *)
FindInvariantCodes(r, loops, header) ==
  LET move(s, v) ==
        LET new == IF header \in DOMAIN s.forward THEN s.forward[header]
                   ELSE 1 + Max(DOMAIN s.f.bb)
            old == Block(s.f, v)
            bb == IF header \in DOMAIN s.forward THEN s.f.bb
                  ELSE (new :> [ins |-> <<>>, phis |-> {}, valid |-> TRUE]) @@ s.f.bb
            g == NeedsVariable(Erase(s.f, old, v), v)
        IN  IF ~Invariant(s.f, v, loops[header]) THEN s
            ELSE [f |-> [g EXCEPT !.bb = [bb EXCEPT ![old] = g.bb[old], ![new].ins = Append(@, v)],
                                  !.val[v].blk = new],
                  forward |-> (header :> new) @@ s.forward]
      block(s, b) == FoldLeft(move, s, Ins(s.f, b))
  IN  IF header \notin DOMAIN loops THEN r ELSE FoldLeft(block, r, InOrder(r.f, loops[header]))

(* Mutant: the operands for blocks before the loop stay in the phi.        *)
SplitPhiUnmoved(f, phi, loop, new) == f

(* A phi of the loop's first block: its operands for blocks outside move   *)
(* to a phi of the new block.                                              *)
SplitPhi(f, phi, loop, new) ==
  LET args == f.val[phi].args
      outside == DOMAIN args \ loop
      p == Fresh(f)
      moved == [f.val[phi] EXCEPT !.args = [b \in outside |-> args[b]], !.blk = new, !.res = "L"]
      kept == (new :> p) @@ [b \in DOMAIN args \cap loop |-> args[b]]
      g == Create(f, moved)
  IN  IF outside = {} THEN f
      ELSE [g EXCEPT !.val[phi].args = kept,
                     !.uses = (@ \ {<<args[b], phi>> : b \in outside}) \cup {<<p, phi>>},
                     !.bb[new].phis = @ \cup {p}]

(* fix_new_forward_block                                                   *)
FixForwardBlock(f, header, loop, new) ==
  LET outside == Pred(f, header) \ loop
      v == Fresh(f)
      jump == [kind |-> "jmp", op |-> "", args |-> <<>>, blk |-> new, res |-> "other",
               valid |-> TRUE, to |-> <<header>>]
      redirected ==
        [f EXCEPT !.val = (v :> jump) @@ [w \in DOMAIN @ |->
                            IF \E b \in outside : Ins(f, b) # <<>> /\ w = Last(Ins(f, b))
                            THEN [@[w] EXCEPT !.to = [i \in DOMAIN @ |->
                                                        IF @[i] = header THEN new ELSE @[i]]]
                            ELSE @[w]],
                  !.bb[new].ins = Append(@, v),
                  !.edges = {e \in @ : ~(e[1] \in outside /\ e[2] = header)}
                              \cup {<<b, new>> : b \in outside} \cup {<<new, header>>},
                  !.order = FoldLeft(LAMBDA s, b : s \o (IF b = header THEN <<new, b>> ELSE <<b>>),
                                     <<>>, @)]
      split(g, phi) == SplitPhi(g, phi, loop, new)
      divided == FoldLeft(split, redirected, InOrder(f, Phis(f, header)))
      simplify(g, phi) == RemoveTrivialPhi(g, phi).f
      front == FoldLeft(simplify, divided, InOrder(f, Phis(divided, new)))
  IN  FoldLeft(simplify, front, InOrder(f, Phis(front, header)))

LoopInvariantMotion(f) ==
  LET loops == LoopBlocks(f)
      find(r, header) == FindInvariantCodes(r, loops, header)
      found == FoldLeft(find, [f |-> f, forward |-> <<>>], f.order)
      fix(g, header) == FixForwardBlock(g, header, loops[header], found.forward[header])
  IN  FoldLeft(fix, found.f, InOrder(f, DOMAIN found.forward))
=============================================================================
