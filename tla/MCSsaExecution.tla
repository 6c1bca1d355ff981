--------------------------- MODULE MCSsaExecution ---------------------------
(***************************************************************************)
(* Every function of two variables with up to six blocks, an assignment    *)
(* and two reads, of which one may be a copy to the other variable, and    *)
(* every way through it.  The variables are alike.                         *)
(***************************************************************************)
EXTENDS SsaExecution, TLC

MCCopies == {c \in Vars \X Vars : c[1] # c[2]}

Renamings == Permutations(Vars)

CopiesOf(b) == {i \in DOMAIN block[b].instructions : block[b].instructions[i].op = "copy"}

InLoop == \E i \in DOMAIN open : open[i].kind \in {"whileCond", "body", "judge"}

(* What is left out because it shows nothing more:                         *)
(*   - functions whose reads are all copies: there is nothing to compare;  *)
(*   - running a function with fewer reads than MaxReads: it runs like the *)
(*     one that reads the same variable twice in a row;                    *)
(*   - statements after the last read that no loop leads back from.        *)
WorthTranslating ==
  /\ \A b, c \in Blocks : \A i \in CopiesOf(b), j \in CopiesOf(c) : b = c /\ i = j
  /\ reads = MaxReads /\ stack # <<>> /\ stack[Len(stack)].fn = "copy" =>
       \A b \in Blocks : CopiesOf(b) = {}
  /\ at # 0 => reads = MaxReads

NothingAfterTheReads ==
  reads = MaxReads /\ stack = <<>> /\ ~InLoop =>
    Len(block') = Len(block) /\ defs' = defs /\ (afterJump' => afterJump)

(* Bound: a short circuit does not make the last of the MaxBlocks blocks.  *)
FewShortCircuits ==
  InCondition /\ stack = <<>> => Len(block') \in {Len(block)} \cup 0 .. MaxBlocks - 1
=============================================================================
