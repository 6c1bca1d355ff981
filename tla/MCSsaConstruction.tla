------------------------- MODULE MCSsaConstruction -------------------------
(***************************************************************************)
(* One variable, which may be copied to itself; seven blocks hold a loop   *)
(* in a loop, an if-else with a break in a loop, or loop after loop.       *)
(***************************************************************************)
EXTENDS SsaConstruction

MCCopies == {<<v, v>> : v \in Vars}

InLoop == \E i \in DOMAIN open : open[i].kind \in {"whileCond", "body", "judge"}

(* Left out, as it touches no phi: statements after the last read that no  *)
(* loop leads back from.                                                   *)
NothingAfterTheReads ==
  reads = MaxReads /\ stack = <<>> /\ ~InLoop =>
    Len(block') = Len(block) /\ defs' = defs /\ (afterJump' => afterJump)

(* Bound: a short circuit makes none of the last two of MaxBlocks blocks.  *)
FewShortCircuits ==
  InCondition /\ stack = <<>> => Len(block') \in {Len(block)} \cup 0 .. MaxBlocks - 2

(* Functions that assign the variable, and read it after a loop whose body *)
(* neither reads nor assigns it: only then do phis refer to each other in  *)
(* more than one loop while the read is under way.                         *)
ReadAfterTheLoop ==
  stack = <<>> =>
    /\ defs' # defs => Len(block) = 1
    /\ Len(block') > Len(block) => defs = 1
    /\ reads' # reads => open = <<>> /\ Len(block) = MaxBlocks

(* Bound: one loop, with ifs side by side.                                 *)
OneLoop ==
  stack = <<>> /\ open' # open /\ open' # <<>> /\ Len(open') > Len(open) =>
    IF Head(open').kind = "whileCond" THEN open = <<>> /\ Len(block) = 1
    ELSE Head(open').kind = "ifCond" /\ Len(open) = 1
=============================================================================
