--------------------------- MODULE SsaFormProofs ---------------------------
(***************************************************************************)
(* Proofs about SsaConstruction, continued: between statements, every phi  *)
(* of a sealed block has an operand for each predecessor, is not trivial,  *)
(* and is in the phis of its block.                                        *)
(***************************************************************************)
EXTENDS SsaConstructionProofs

-----------------------------------------------------------------------------
(* The parts of the invariant.                                             *)

SealOn(b) == \E i \in DOMAIN stack : stack[i].fn = "seal" /\ stack[i].block = b
Settled(b) == block[b].sealed \/ SealOn(b)

(* The place of phi -k: it waits in incomplete_phis for its block to be    *)
(* sealed, its operands are being asked for, or it has them all.           *)
Incomplete(k) ==
  LET b == phi[k].block
      name == phi[k].localVarName IN
    /\ ~block[b].sealed
    /\ name \in DOMAIN block[b].incomplete_phis
    /\ block[b].incomplete_phis[name] = -k
    /\ \A i \in DOMAIN stack :
         stack[i].fn = "seal" /\ stack[i].block = b => name \in stack[i].rest

InOperands(k) == \E i \in DOMAIN stack : stack[i].fn = "operands" /\ stack[i].phi = -k

Filled(k) ==
  /\ Settled(phi[k].block)
  /\ DOMAIN phi[k].operands = block[phi[k].block].predecessors

Listed(k) == -k \in block[phi[k].block].phis

(* Its read will list it: the call below has not returned, or returned it. *)
Joining(k) ==
  \E i \in DOMAIN stack :
    /\ stack[i].fn = "join" /\ stack[i].block = phi[k].block
    /\ \/ i = 1 /\ ret = -k
       \/ i > 1 /\ stack[i - 1].fn \in {"operands", "remove"} /\ stack[i - 1].phi = -k

(* It is about to be reconsidered.                                         *)
Awaited(k) ==
  \E i \in DOMAIN stack :
    \/ stack[i].fn = "remove" /\ stack[i].phi = -k
    \/ stack[i].fn = "cascade" /\ -k \in stack[i].rest

PhiOK(k) ==
  phi[k].valid =>
    /\ Incomplete(k) \/ InOperands(k) \/ Filled(k)
    /\ Incomplete(k) \/ Joining(k) \/ Listed(k)
    /\ Incomplete(k) \/ InOperands(k) \/ Awaited(k) \/ Cardinality(Others(-k)) > 1

PhisOK == \A k \in DOMAIN phi : PhiOK(k)

(* The predecessors asked for and still to ask.                            *)
Waiting(i) == i > 1 \/ ret # Nothing

OperandsOK(i) ==
  LET k == -stack[i].phi
      preds == block[phi[k].block].predecessors IN
    /\ Settled(phi[k].block)
    /\ stack[i].rest \subseteq preds
    /\ Waiting(i) => stack[i].pred \in preds
    /\ preds \subseteq stack[i].rest \cup DOMAIN phi[k].operands
                         \cup (IF Waiting(i) THEN {stack[i].pred} ELSE {})

Reading == {"read", "single", "join", "operands"}

(* While a block is sealed, only variables it has a phi for are read.      *)
NamesOK ==
  \A i, j \in DOMAIN stack :
    stack[i].fn = "seal" /\ stack[j].fn \in Reading =>
      stack[j].name \in DOMAIN block[stack[i].block].ssa_map

Within ==
  \A k \in DOMAIN phi : DOMAIN phi[k].operands \subseteq block[phi[k].block].predecessors

CallsOK ==
  /\ Within
  /\ \A i \in DOMAIN stack : stack[i].fn = "operands" => OperandsOK(i)
  /\ NamesOK

FormOK ==
  \A b \in DOMAIN block : \A name \in DOMAIN block[b].incomplete_phis :
    /\ name \in DOMAIN block[b].ssa_map
    /\ phi[-block[b].incomplete_phis[name]].block = b

(* The blocks of an open statement that control has not reached: no        *)
(* predecessor of another block, not read in, without a phi.               *)
FrameFree(fr, b) ==
  /\ fr.fn \in {"read", "single", "join"} => fr.block # b
  /\ fr.fn = "operands" => b \notin fr.rest

Untouched(b) ==
  /\ b # bb
  /\ \A c \in DOMAIN block : b \notin block[c].predecessors
  /\ \A k \in DOMAIN phi : phi[k].block # b
  /\ \A i \in DOMAIN stack : FrameFree(stack[i], b)

Unreached(s) ==
  CASE s.kind = "ifCond" -> {s.t, s.end}
    [] s.kind = "ifElseCond" -> {s.t, s.f, s.end}
    [] s.kind = "then" -> {s.f, s.end}
    [] s.kind \in {"if", "else", "judge"} -> {s.end}
    [] s.kind = "whileCond" -> {s.t, s.end, s.judge}
    [] s.kind = "body" -> {s.end, s.judge}

Own(s) == Unreached(s) \cup (IF IsLoop(s) THEN {s.t} ELSE {})

Shaped(s) ==
  /\ s.kind \in {"ifCond", "ifElseCond", "whileCond", "body", "judge"} => s.t # s.end
  /\ s.kind \in {"ifCond", "whileCond", "body", "judge"} => s.f = s.end
  /\ s.kind \in {"ifElseCond", "then"} => s.f # s.end
  /\ s.kind = "ifElseCond" => s.t # s.f
  /\ s.kind \in {"whileCond", "body"} => s.judge \notin {s.t, s.end}

StatementOK(s) ==
  /\ Shaped(s)
  /\ \A b \in Unreached(s) : Untouched(b)
  /\ IsLoop(s) => ~block[s.t].sealed /\ ~SealOn(s.t)

OpensOK ==
  /\ \A i \in DOMAIN open : StatementOK(open[i])
  /\ \A i, j \in DOMAIN open : i # j => Own(open[i]) \cap Own(open[j]) = {}

Form == PhisOK /\ CallsOK /\ FormOK /\ OpensOK

-----------------------------------------------------------------------------
(* One step of the stack: the top is taken off (d = -1), replaced (0), or  *)
(* replaced by two frames (1); the frames below stay.                      *)

Moved(d) ==
  /\ d \in {-1, 0, 1}
  /\ \A i \in DOMAIN stack : i > 1 => i + d \in DOMAIN stack' /\ stack'[i + d] = stack[i]
  /\ \A j \in DOMAIN stack' :
       j > 1 + d => j - d \in DOMAIN stack /\ j - d > 1 /\ stack'[j] = stack[j - d]

LEMMA MovedPop ==
  ASSUME Sound, stack # <<>>, stack' = Tail(stack)
  PROVE  Moved(-1)
  <1>1. stack \in Seq(Frames) /\ stack' \in Seq(Frames)
    BY Popped DEF Sound, StackOK
  <1>. QED  BY <1>1 DEF Moved

LEMMA MovedReplace ==
  ASSUME Sound, stack # <<>>, NEW a \in Frames, stack' = <<a>> \o Tail(stack)
  PROVE  Moved(0) /\ stack'[1] = a /\ 1 \in DOMAIN stack'
  <1>1. stack \in Seq(Frames)
    BY DEF Sound, StackOK
  <1>2. /\ stack' \in Seq(Frames) /\ Len(stack') = Len(stack) /\ stack'[1] = a
        /\ \A i \in 2 .. Len(stack) : stack'[i] = stack[i]
    BY <1>1, Replaced
  <1>3. DOMAIN stack' = 1 .. Len(stack) /\ DOMAIN stack = 1 .. Len(stack) /\ Len(stack) \in Nat
        /\ 1 \in DOMAIN stack
    BY <1>1, <1>2, LenProperties, Popped
  <1>4. Moved(0)
    BY <1>2, <1>3 DEF Moved
  <1>. QED  BY <1>2, <1>3, <1>4

LEMMA MovedPush ==
  ASSUME Sound, stack # <<>>, NEW a \in Frames, NEW b \in Frames, stack' = <<a, b>> \o Tail(stack)
  PROVE  /\ Moved(1) /\ stack'[1] = a /\ stack'[2] = b
         /\ 1 \in DOMAIN stack' /\ 2 \in DOMAIN stack'
  <1>1. stack \in Seq(Frames)
    BY DEF Sound, StackOK
  <1>2. /\ stack' \in Seq(Frames) /\ Len(stack') = Len(stack) + 1
        /\ stack'[1] = a /\ stack'[2] = b
        /\ \A i \in 3 .. Len(stack) + 1 : stack'[i] = stack[i - 1]
    BY <1>1, Pushed
  <1>3. DOMAIN stack' = 1 .. Len(stack) + 1 /\ DOMAIN stack = 1 .. Len(stack)
        /\ Len(stack) \in Nat /\ 1 \in DOMAIN stack
    BY <1>1, <1>2, LenProperties, Popped
  <1>4. \A i \in DOMAIN stack : i > 1 => i + 1 \in DOMAIN stack' /\ stack'[i + 1] = stack[i]
    BY <1>2, <1>3
  <1>5. \A j \in DOMAIN stack' :
          j > 1 + 1 => j - 1 \in DOMAIN stack /\ j - 1 > 1 /\ stack'[j] = stack[j - 1]
    BY <1>2, <1>3
  <1>6. Moved(1)
    BY <1>4, <1>5, Zenon DEF Moved
  <1>. QED  BY <1>2, <1>3, <1>6

LEMMA MovedSame ==
  ASSUME Sound, stack' = stack
  PROVE  Moved(0)
  <1>1. DOMAIN stack \in SUBSET Nat
    BY LenProperties DEF Sound, StackOK
  <1>. QED  BY <1>1 DEF Moved

(* No block begins or ends to be sealed.                                   *)
Quiet(d) ==
  /\ Moved(d)
  /\ stack[1].fn # "seal"
  /\ \A j \in DOMAIN stack' : j <= 1 + d => stack'[j].fn # "seal"

LEMMA Indices ==
  ASSUME Sound
  PROVE  \A i \in DOMAIN stack : i \in Int /\ i >= 1
  BY LenProperties DEF Sound, StackOK

LEMMA SealKept ==
  ASSUME Sound, Sound', NEW d, Quiet(d)
  PROVE  /\ \A i \in DOMAIN stack : stack[i].fn = "seal" =>
              \E j \in DOMAIN stack' : stack'[j] = stack[i]
         /\ \A j \in DOMAIN stack' : stack'[j].fn = "seal" =>
              \E i \in DOMAIN stack : stack'[j] = stack[i]
         /\ \A b : SealOn(b)' <=> SealOn(b)
  <1>1. /\ \A i \in DOMAIN stack : i \in Int /\ i >= 1
        /\ \A j \in DOMAIN stack' : j \in Int /\ j >= 1
    BY LenProperties DEF Sound, StackOK
  <1>2. ASSUME NEW i \in DOMAIN stack, stack[i].fn = "seal"
        PROVE  \E j \in DOMAIN stack' : stack'[j] = stack[i]
    BY <1>1, <1>2 DEF Quiet, Moved
  <1>3. ASSUME NEW j \in DOMAIN stack', stack'[j].fn = "seal"
        PROVE  \E i \in DOMAIN stack : stack'[j] = stack[i]
    BY <1>1, <1>3 DEF Quiet, Moved
  <1>4. ASSUME NEW b  PROVE SealOn(b)' <=> SealOn(b)
    BY <1>2, <1>3 DEF SealOn
  <1>. QED  BY <1>2, <1>3, <1>4

-----------------------------------------------------------------------------
(* What a call changes of the blocks and of the phis there are.            *)

BlocksKept ==
  /\ DOMAIN block' = DOMAIN block
  /\ \A b \in DOMAIN block :
       /\ block'[b].sealed = block[b].sealed
       /\ block'[b].predecessors = block[b].predecessors
       /\ DOMAIN block[b].ssa_map \subseteq DOMAIN block'[b].ssa_map
       /\ \A name \in DOMAIN block[b].incomplete_phis :
            /\ name \in DOMAIN block'[b].incomplete_phis
            /\ block'[b].incomplete_phis[name] = block[b].incomplete_phis[name]

PhisKept ==
  \A k \in DOMAIN phi :
    /\ k \in DOMAIN phi'
    /\ phi'[k].block = phi[k].block /\ phi'[k].localVarName = phi[k].localVarName
    /\ phi'[k].valid => phi[k].valid
    /\ DOMAIN phi[k].operands \subseteq DOMAIN phi'[k].operands
    /\ DOMAIN phi'[k].operands
         \subseteq DOMAIN phi[k].operands \cup block[phi[k].block].predecessors

(* What the call on top was for is done, or left to what replaces it.      *)
TopOperands(k) ==
  Top.fn = "operands" /\ Top.phi = -k => InOperands(k)' \/ (Filled(k)' /\ Awaited(k)')

TopAwaits(k) ==
  \/ Top.fn = "remove" /\ Top.phi = -k
  \/ Top.fn = "cascade" /\ -k \in Top.rest

TopJoining(k) ==
  \/ Top.fn = "join" /\ Top.block = phi[k].block /\ ret = -k
  \/ /\ Top.fn \in {"operands", "remove"} /\ Top.phi = -k
     /\ 2 \in DOMAIN stack /\ stack[2].fn = "join" /\ stack[2].block = phi[k].block

TopKept(k) ==
  /\ TopOperands(k)
  /\ TopAwaits(k) => Awaited(k)' \/ (Cardinality(Others(-k)) > 1)'
  /\ TopJoining(k) => Joining(k)' \/ Listed(k)'
  /\ Listed(k) => Listed(k)'
  /\ Cardinality(Others(-k)) > 1 =>
       InOperands(k)' \/ Awaited(k)' \/ (Cardinality(Others(-k)) > 1)'

LEMMA BelowKept ==
  ASSUME Sound, Sound', stack # <<>>, NEW d, Quiet(d), BlocksKept, PhisKept,
         NEW k \in DOMAIN phi
  PROVE  /\ Incomplete(k) => Incomplete(k)'
         /\ Filled(k) /\ Within => Filled(k)'
         /\ InOperands(k) => InOperands(k)' \/ (Top.fn = "operands" /\ Top.phi = -k)
         /\ Awaited(k) => Awaited(k)' \/ TopAwaits(k)
         /\ Joining(k) => Joining(k)' \/ TopJoining(k)
  <1>1. /\ \A i \in DOMAIN stack : i \in Int /\ i >= 1
        /\ \A j \in DOMAIN stack' : j \in Int /\ j >= 1
        /\ Top = stack[1] /\ 1 \in DOMAIN stack
    <2>1. Top = stack[1] /\ 1 \in DOMAIN stack
      BY StackTop DEF Sound, Top
    <2>. QED  BY <2>1, LenProperties DEF Sound, StackOK
  <1>2. /\ d \in {-1, 0, 1}
        /\ \A i \in DOMAIN stack : i > 1 => i + d \in DOMAIN stack' /\ stack'[i + d] = stack[i]
    BY DEF Quiet, Moved
  <1>3. phi[k].block \in DOMAIN block
    BY DEF Sound, DataOK, PhisKnown, PhiKnown
  <1>4. ASSUME Incomplete(k)  PROVE Incomplete(k)'
    <2>. DEFINE b == phi[k].block
                name == phi[k].localVarName
    <2>1. /\ ~block[b].sealed /\ name \in DOMAIN block[b].incomplete_phis
          /\ block[b].incomplete_phis[name] = -k
          /\ \A i \in DOMAIN stack :
               stack[i].fn = "seal" /\ stack[i].block = b => name \in stack[i].rest
      BY <1>4 DEF Incomplete
    <2>2. /\ ~block'[b].sealed /\ name \in DOMAIN block'[b].incomplete_phis
          /\ block'[b].incomplete_phis[name] = -k
          /\ phi'[k].block = b /\ phi'[k].localVarName = name
      BY <1>3, <2>1 DEF BlocksKept, PhisKept
    <2>3. \A j \in DOMAIN stack' :
            stack'[j].fn = "seal" /\ stack'[j].block = b => name \in stack'[j].rest
      BY <2>1, SealKept
    <2>. HIDE DEF b, name
    <2>. QED  BY <2>2, <2>3 DEF Incomplete
  <1>5. ASSUME Filled(k), Within  PROVE Filled(k)'
    <2>1. phi'[k].block = phi[k].block
      BY DEF PhisKept
    <2>2. DOMAIN phi'[k].operands = block'[phi[k].block].predecessors
      BY <1>3, <1>5 DEF Filled, PhisKept, BlocksKept
    <2>3. \A b \in DOMAIN block : Settled(b) => Settled(b)'
      BY SealKept DEF Settled, BlocksKept
    <2>. QED  BY <1>3, <1>5, <2>1, <2>2, <2>3 DEF Filled
  <1>6. ASSUME InOperands(k)  PROVE InOperands(k)' \/ (Top.fn = "operands" /\ Top.phi = -k)
    BY <1>1, <1>2, <1>6 DEF InOperands
  <1>7. ASSUME Awaited(k)  PROVE Awaited(k)' \/ TopAwaits(k)
    BY <1>1, <1>2, <1>7 DEF Awaited, TopAwaits
  <1>8. ASSUME Joining(k)  PROVE Joining(k)' \/ TopJoining(k)
    <2>1. PICK i \in DOMAIN stack :
            /\ stack[i].fn = "join" /\ stack[i].block = phi[k].block
            /\ \/ i = 1 /\ ret = -k
               \/ i > 1 /\ stack[i - 1].fn \in {"operands", "remove"} /\ stack[i - 1].phi = -k
      BY <1>8 DEF Joining
    <2>2. CASE i <= 2
      BY <1>1, <2>1, <2>2 DEF TopJoining
    <2>3. CASE i > 2
      <3>1. i - 1 \in DOMAIN stack /\ i - 1 > 1
        <4>1. DOMAIN stack = 1 .. Len(stack)
          BY LenProperties DEF Sound, StackOK
        <4>. QED  BY <2>3, <4>1, LenProperties DEF Sound, StackOK
      <3>2. /\ i + d \in DOMAIN stack' /\ stack'[i + d] = stack[i]
            /\ stack'[(i - 1) + d] = stack[i - 1]
        BY <1>2, <2>3, <3>1
      <3>3. i \in Int /\ (i - 1) + d = (i + d) - 1 /\ i + d > 1
        BY <1>1, <1>2, <2>3
      <3>4. phi'[k].block = phi[k].block
        BY DEF PhisKept
      <3>5. stack'[(i + d) - 1] = stack[i - 1]
        BY <3>2, <3>3
      <3>. DEFINE j == i + d
      <3>6. /\ j \in DOMAIN stack' /\ stack'[j].fn = "join" /\ stack'[j].block = phi'[k].block
            /\ j > 1 /\ stack'[j - 1].fn \in {"operands", "remove"} /\ stack'[j - 1].phi = -k
        BY <2>1, <2>3, <3>2, <3>3, <3>4, <3>5
      <3>. HIDE DEF j
      <3>. QED  BY <3>6 DEF Joining
    <2>. QED  BY <1>1, <2>2, <2>3
  <1>. QED  BY <1>4, <1>5, <1>6, <1>7, <1>8

LEMMA PhiStep ==
  ASSUME Sound, Sound', stack # <<>>, NEW d, Quiet(d), BlocksKept, PhisKept, Within,
         NEW k \in DOMAIN phi, phi'[k].valid => TopKept(k), PhiOK(k)
  PROVE  PhiOK(k)'
  <1>. SUFFICES ASSUME phi'[k].valid
       PROVE  /\ Incomplete(k)' \/ InOperands(k)' \/ Filled(k)'
              /\ Incomplete(k)' \/ Joining(k)' \/ Listed(k)'
              /\ \/ Incomplete(k)' \/ InOperands(k)' \/ Awaited(k)'
                 \/ (Cardinality(Others(-k)) > 1)'
    BY DEF PhiOK
  <1>1. /\ Incomplete(k) \/ InOperands(k) \/ Filled(k)
        /\ Incomplete(k) \/ Joining(k) \/ Listed(k)
        /\ Incomplete(k) \/ InOperands(k) \/ Awaited(k) \/ Cardinality(Others(-k)) > 1
    BY DEF PhiOK, PhisKept
  <1>2. /\ Incomplete(k) => Incomplete(k)'
        /\ Filled(k) => Filled(k)'
        /\ InOperands(k) => InOperands(k)' \/ (Top.fn = "operands" /\ Top.phi = -k)
        /\ Awaited(k) => Awaited(k)' \/ TopAwaits(k)
        /\ Joining(k) => Joining(k)' \/ TopJoining(k)
    BY BelowKept
  <1>. QED  BY <1>1, <1>2 DEF TopKept, TopOperands

(* The frames that come, those of a call that is made or goes on.          *)
NewFrames(d) ==
  /\ \A j \in DOMAIN stack' : j <= 1 + d =>
       /\ stack'[j].fn = "operands" => OperandsOK(j)'
       /\ stack'[j].fn \in Reading => Top.fn \in Reading /\ stack'[j].name = Top.name
       /\ \A b : Untouched(b) => FrameFree(stack'[j], b)
  /\ d = -1 => ret' # Nothing \/ stack' = <<>>

(* The phis that come, in the block that is read.                          *)
NewPhis ==
  \A k \in DOMAIN phi' \ DOMAIN phi :
    /\ PhiOK(k)'
    /\ DOMAIN phi'[k].operands = {}
    /\ Top.fn = "read" /\ phi'[k].block = Top.block

LEMMA CallsStep ==
  ASSUME Sound, Sound', stack # <<>>, NEW d, Quiet(d), BlocksKept, PhisKept, CallsOK,
         NewFrames(d), NewPhis
  PROVE  CallsOK'
  <1>1. /\ \A i \in DOMAIN stack : i \in Int /\ i >= 1
        /\ \A j \in DOMAIN stack' : j \in Int /\ j >= 1
        /\ Top = stack[1] /\ 1 \in DOMAIN stack
    <2>1. Top = stack[1] /\ 1 \in DOMAIN stack
      BY StackTop DEF Sound, Top
    <2>. QED  BY <2>1, LenProperties DEF Sound, StackOK
  <1>2. /\ d \in {-1, 0, 1}
        /\ \A j \in DOMAIN stack' :
             j > 1 + d => j - d \in DOMAIN stack /\ j - d > 1 /\ stack'[j] = stack[j - d]
    BY DEF Quiet, Moved
  <1>3. Within'
    <2>. SUFFICES ASSUME NEW k \in DOMAIN phi'
         PROVE  DOMAIN phi'[k].operands \subseteq block'[phi'[k].block].predecessors
      BY DEF Within
    <2>1. CASE k \in DOMAIN phi
      <3>1. phi[k].block \in DOMAIN block
        BY <2>1 DEF Sound, DataOK, PhisKnown, PhiKnown
      <3>. QED  BY <2>1, <3>1 DEF CallsOK, Within, PhisKept, BlocksKept
    <2>2. CASE k \notin DOMAIN phi
      BY <2>2 DEF NewPhis
    <2>. QED  BY <2>1, <2>2
  <1>4. ASSUME NEW j \in DOMAIN stack', stack'[j].fn = "operands"
        PROVE  OperandsOK(j)'
    <2>1. CASE j <= 1 + d
      BY <1>4, <2>1 DEF NewFrames
    <2>2. CASE j > 1 + d
      <3>. DEFINE i == j - d
      <3>1. i \in DOMAIN stack /\ i > 1 /\ stack'[j] = stack[i]
        BY <1>2, <2>2
      <3>2. Waiting(i) /\ OperandsOK(i)
        BY <1>4, <3>1 DEF Waiting, CallsOK
      <3>3. Waiting(j)'
        <4>1. CASE j > 1
          BY <4>1 DEF Waiting
        <4>2. CASE ~(j > 1)
          <5>1. d = -1
            BY <1>1, <1>2, <2>2, <4>2
          <5>2. stack' # <<>>
            BY <1>4
          <5>. QED  BY <5>1, <5>2 DEF NewFrames, Waiting
        <4>. QED  BY <4>1, <4>2
      <3>. HIDE DEF i
      <3>03. PICK k : k = -stack[i].phi
        OBVIOUS
      <3>4. k \in DOMAIN phi /\ phi[k].block \in DOMAIN block
        <4>1. stack[i].phi \in PhisOf(phi)
          BY <1>4, <3>1 DEF Sound, StackOK, FramesKnown, FrameKnown
        <4>. QED  BY <3>03, <4>1, PhiIsValue DEF Sound, DataOK, PhisKnown, PhiKnown
      <3>5. /\ Settled(phi[k].block)
            /\ stack[i].rest \subseteq block[phi[k].block].predecessors
            /\ stack[i].pred \in block[phi[k].block].predecessors
            /\ block[phi[k].block].predecessors
                 \subseteq stack[i].rest \cup DOMAIN phi[k].operands \cup {stack[i].pred}
        <4>. DEFINE n == -stack[i].phi
                    preds == block[phi[n].block].predecessors
                    known == stack[i].rest \cup DOMAIN phi[n].operands
        <4>1. /\ Settled(phi[n].block)
              /\ stack[i].rest \subseteq preds
              /\ Waiting(i) => stack[i].pred \in preds
              /\ preds \subseteq known \cup (IF Waiting(i) THEN {stack[i].pred} ELSE {})
          BY <3>2, Zenon DEF OperandsOK
        <4>2. n = k
          BY <3>03
        <4>. HIDE DEF n, preds, known
        <4>3. /\ Settled(phi[n].block) /\ stack[i].rest \subseteq preds
              /\ stack[i].pred \in preds /\ preds \subseteq known \cup {stack[i].pred}
          BY <3>2, <4>1
        <4>. QED  BY <4>2, <4>3, Zenon DEF preds, known
      <3>6. \A b \in DOMAIN block : Settled(b) => Settled(b)'
        BY SealKept DEF Settled, BlocksKept
      <3>7. /\ phi'[k].block = phi[k].block
            /\ block'[phi[k].block].predecessors = block[phi[k].block].predecessors
            /\ DOMAIN phi[k].operands \subseteq DOMAIN phi'[k].operands
        BY <3>4 DEF PhisKept, BlocksKept
      <3>8. k = -stack'[j].phi
        BY <3>1, <3>03
      <3>9. Settled(phi[k].block)'
        BY <3>4, <3>5, <3>6, <3>7
      <3>10. /\ stack'[j].rest \subseteq block'[phi'[k].block].predecessors
             /\ stack'[j].pred \in block'[phi'[k].block].predecessors
             /\ block'[phi'[k].block].predecessors
                  \subseteq stack'[j].rest \cup DOMAIN phi'[k].operands \cup {stack'[j].pred}
        <4>1. stack'[j].rest = stack[i].rest /\ stack'[j].pred = stack[i].pred
          BY <3>1
        <4>2. block'[phi'[k].block].predecessors = block[phi[k].block].predecessors
          BY <3>7
        <4>. QED  BY <3>5, <3>7, <4>1, <4>2
      <3>. QED  BY <3>3, <3>8, <3>9, <3>10 DEF OperandsOK
    <2>. QED  BY <1>1, <1>2, <2>1, <2>2
  <1>5. ASSUME NEW m \in DOMAIN stack', NEW j \in DOMAIN stack',
               stack'[m].fn = "seal", stack'[j].fn \in Reading
        PROVE  stack'[j].name \in DOMAIN block'[stack'[m].block].ssa_map
    <2>1. PICK i \in DOMAIN stack : stack'[m] = stack[i]
      BY <1>5, SealKept
    <2>2. stack[i].fn = "seal" /\ stack[i].block \in DOMAIN block
      BY <1>5, <2>1 DEF Sound, StackOK, FramesKnown, FrameKnown
    <2>3. \E x \in DOMAIN stack : stack[x].fn \in Reading /\ stack'[j].name = stack[x].name
      <3>1. CASE j <= 1 + d
        BY <1>1, <1>5, <3>1 DEF NewFrames
      <3>2. CASE j > 1 + d
        BY <1>2, <1>5, <3>2
      <3>. QED  BY <1>1, <1>2, <3>1, <3>2
    <2>. QED  BY <2>1, <2>2, <2>3 DEF CallsOK, NamesOK, BlocksKept
  <1>6. NamesOK'
    BY <1>5 DEF NamesOK
  <1>. QED  BY <1>3, <1>4, <1>6 DEF CallsOK

LEMMA OpensStep ==
  ASSUME Sound, Sound', stack # <<>>, NEW d, Quiet(d), BlocksKept, PhisKept, OpensOK,
         NewFrames(d), NewPhis, bb' = bb, open' = open
  PROVE  OpensOK'
  <1>1. /\ \A i \in DOMAIN stack : i \in Int /\ i >= 1
        /\ \A j \in DOMAIN stack' : j \in Int /\ j >= 1
        /\ Top = stack[1] /\ 1 \in DOMAIN stack
    <2>1. Top = stack[1] /\ 1 \in DOMAIN stack
      BY StackTop DEF Sound, Top
    <2>. QED  BY <2>1, LenProperties DEF Sound, StackOK
  <1>2. /\ d \in {-1, 0, 1}
        /\ \A j \in DOMAIN stack' :
             j > 1 + d => j - d \in DOMAIN stack /\ j - d > 1 /\ stack'[j] = stack[j - d]
    BY DEF Quiet, Moved
  <1>3. ASSUME NEW b, Untouched(b)  PROVE Untouched(b)'
    <2>1. b # bb' /\ \A c \in DOMAIN block' : b \notin block'[c].predecessors
      BY <1>3 DEF Untouched, BlocksKept
    <2>2. ASSUME NEW k \in DOMAIN phi'  PROVE phi'[k].block # b
      <3>1. CASE k \in DOMAIN phi
        BY <1>3, <3>1 DEF Untouched, PhisKept
      <3>2. CASE k \notin DOMAIN phi
        BY <1>1, <1>3, <3>2 DEF Untouched, NewPhis, FrameFree
      <3>. QED  BY <3>1, <3>2
    <2>3. ASSUME NEW j \in DOMAIN stack'  PROVE FrameFree(stack'[j], b)
      <3>1. CASE j <= 1 + d
        BY <1>3, <3>1 DEF NewFrames
      <3>2. CASE j > 1 + d
        BY <1>2, <1>3, <3>2 DEF Untouched
      <3>. QED  BY <1>1, <1>2, <3>1, <3>2
    <2>. QED  BY <2>1, <2>2, <2>3 DEF Untouched
  <1>4. ASSUME NEW i \in DOMAIN open  PROVE StatementOK(open[i])'
    <2>. PICK s : s = open[i]
      OBVIOUS
    <2>1. Shaped(s) /\ \A b \in Unreached(s) : Untouched(b)'
      BY <1>3 DEF OpensOK, StatementOK
    <2>2. IsLoop(s) => ~block'[s.t].sealed /\ ~SealOn(s.t)'
      <3>1. IsLoop(s) => s.t \in DOMAIN block /\ ~block[s.t].sealed /\ ~SealOn(s.t)
        BY DEF OpensOK, StatementOK, Sound, ASTOK, OpenKnown
      <3>2. \A b : SealOn(b)' => SealOn(b)
        BY SealKept
      <3>. QED  BY <3>1, <3>2 DEF BlocksKept
    <2>3. open'[i] = s
      OBVIOUS
    <2>. QED  BY <2>1, <2>2, <2>3 DEF StatementOK
  <1>. QED  BY <1>4 DEF OpensOK

LEMMA CallForm ==
  ASSUME Sound, Sound', Form, stack # <<>>, NEW d, Quiet(d), BlocksKept, PhisKept,
         \A k \in DOMAIN phi : phi'[k].valid => TopKept(k),
         NewFrames(d), NewPhis, FormOK', UNCHANGED AST
  PROVE  Form'
  <1>1. PhisOK'
    <2>. SUFFICES ASSUME NEW k \in DOMAIN phi'  PROVE PhiOK(k)'
      BY DEF PhisOK
    <2>1. CASE k \in DOMAIN phi
      BY <2>1, PhiStep DEF Form, PhisOK, CallsOK
    <2>2. CASE k \notin DOMAIN phi
      BY <2>2 DEF NewPhis
    <2>. QED  BY <2>1, <2>2
  <1>2. CallsOK'
    BY CallsStep DEF Form
  <1>3. OpensOK'
    BY OpensStep DEF Form, AST
  <1>. QED  BY <1>1, <1>2, <1>3 DEF Form

LEMMA IncompleteKept ==
  ASSUME Sound, FormOK, BlocksKept, PhisKept,
         \A b \in DOMAIN block : block'[b].incomplete_phis = block[b].incomplete_phis
  PROVE  FormOK'
  <1>. SUFFICES ASSUME NEW b \in DOMAIN block, NEW name \in DOMAIN block[b].incomplete_phis
       PROVE  /\ name \in DOMAIN block'[b].ssa_map
              /\ phi'[-block[b].incomplete_phis[name]].block = b
    BY DEF FormOK, BlocksKept
  <1>1. -block[b].incomplete_phis[name] \in DOMAIN phi
    BY BlockTypes, PhiIsValue DEF Sound, DataOK
  <1>. QED  BY <1>1 DEF FormOK, BlocksKept, PhisKept

(* The phis keep their operands.                                           *)
SamePhis ==
  /\ DOMAIN phi' = DOMAIN phi
  /\ \A k \in DOMAIN phi :
       /\ phi'[k].block = phi[k].block /\ phi'[k].localVarName = phi[k].localVarName
       /\ phi'[k].valid = phi[k].valid /\ phi'[k].operands = phi[k].operands

LEMMA OthersOf ==
  ASSUME Sound, NEW k \in DOMAIN phi
  PROVE  Others(-k) = {phi[k].operands[b] : b \in DOMAIN phi[k].operands} \ {-k}
  <1>1. -(-k) = k
    BY BlockTypes
  <1>. QED  BY <1>1, Zenon DEF Others, PhiAt

LEMMA OthersKept ==
  ASSUME Sound, Sound', NEW k \in DOMAIN phi, k \in DOMAIN phi',
         phi'[k].operands = phi[k].operands
  PROVE  Others(-k)' = Others(-k)
  <1>1. -(-k) = k
    BY BlockTypes
  <1>2. Others(-k)' = {phi'[-(-k)].operands[b] : b \in DOMAIN phi'[-(-k)].operands} \ {-k}
    BY Zenon DEF Others, PhiAt
  <1>. QED  BY <1>1, <1>2, OthersOf

LEMMA SamePhisKept ==
  ASSUME Sound, Sound', SamePhis
  PROVE  /\ PhisKept /\ NewPhis
         /\ \A k \in DOMAIN phi : Others(-k)' = Others(-k)
  BY OthersKept DEF SamePhis, PhisKept, NewPhis

LEMMA UsedSame ==
  ASSUME NEW v, NEW u, IsUsed(phi', phi, v, u)
  PROVE  SamePhis
  BY DEF IsUsed, SamePhis

(* Nothing but the stack changes.                                          *)
LEMMA OnlyStackForm ==
  ASSUME Sound, Sound', Form, stack # <<>>, NEW d, Quiet(d), block' = block, phi' = phi,
         \A k \in DOMAIN phi :
           /\ TopOperands(k)
           /\ TopAwaits(k) => Awaited(k)' \/ Cardinality(Others(-k)) > 1
           /\ TopJoining(k) => Joining(k)',
         NewFrames(d), UNCHANGED AST
  PROVE  Form'
  <1>1. BlocksKept /\ SamePhis
    BY DEF BlocksKept, SamePhis
  <1>2. PhisKept /\ NewPhis /\ \A k \in DOMAIN phi : Others(-k)' = Others(-k)
    BY <1>1, SamePhisKept
  <1>3. FormOK'
    BY <1>1, <1>2, IncompleteKept DEF Form
  <1>4. ASSUME NEW k \in DOMAIN phi  PROVE TopKept(k)
    <2>1. Others(-k)' = Others(-k) /\ (Listed(k) => Listed(k)')
      BY <1>2 DEF Listed
    <2>2. Cardinality(Others(-k)) > 1 => (Cardinality(Others(-k)) > 1)'
      BY <2>1
    <2>. QED  BY <2>1, <2>2 DEF TopKept
  <1>. QED  BY <1>1, <1>2, <1>3, <1>4, CallForm

LEMMA TopIsFirst ==
  ASSUME Sound, stack # <<>>
  PROVE  Top = stack[1] /\ 1 \in DOMAIN stack
  BY StackTop DEF Sound, Top

LEMMA PopForm ==
  ASSUME Sound, Sound', stack # <<>>, Top.fn # "seal", stack' = Tail(stack)
  PROVE  /\ Quiet(-1)
         /\ ret' # Nothing \/ stack' = <<>> => NewFrames(-1)
  <1>1. Moved(-1) /\ Top = stack[1]
    BY MovedPop, TopIsFirst
  <1>2. \A j \in DOMAIN stack' : ~(j <= 1 + (-1))
    BY LenProperties DEF Sound, StackOK
  <1>3. Quiet(-1)
    BY <1>1, <1>2, Zenon DEF Quiet
  <1>4. ret' # Nothing \/ stack' = <<>> => NewFrames(-1)
    BY <1>2, Zenon DEF NewFrames
  <1>. QED  BY <1>3, <1>4

FrameOK(j, fr) ==
  /\ fr.fn = "operands" => OperandsOK(j)'
  /\ fr.fn \in Reading => Top.fn \in Reading /\ fr.name = Top.name
  /\ \A b : Untouched(b) => FrameFree(fr, b)

LEMMA ReplaceForm ==
  ASSUME Sound, Sound', stack # <<>>, Top.fn # "seal",
         NEW a \in Frames, a.fn # "seal", stack' = <<a>> \o Tail(stack)
  PROVE  /\ Quiet(0)
         /\ FrameOK(1, a) => NewFrames(0)
         /\ 1 \in DOMAIN stack' /\ stack'[1] = a
         /\ 2 \in DOMAIN stack => 2 \in DOMAIN stack' /\ stack'[2] = stack[2]
  <1>1. Moved(0) /\ stack'[1] = a /\ 1 \in DOMAIN stack' /\ Top = stack[1]
    BY MovedReplace, TopIsFirst
  <1>2. \A j \in DOMAIN stack' : j <= 1 + 0 => j = 1
    BY LenProperties DEF Sound, StackOK
  <1>3. Quiet(0)
    BY <1>1, <1>2, Zenon DEF Quiet
  <1>4. ASSUME FrameOK(1, a)  PROVE NewFrames(0)
    <2>1. \A j \in DOMAIN stack' : j <= 1 + 0 =>
            /\ stack'[j].fn = "operands" => OperandsOK(j)'
            /\ stack'[j].fn \in Reading => Top.fn \in Reading /\ stack'[j].name = Top.name
            /\ \A b : Untouched(b) => FrameFree(stack'[j], b)
      BY <1>1, <1>2, <1>4, Zenon DEF FrameOK
    <2>2. 0 # -1
      OBVIOUS
    <2>. QED  BY <2>1, <2>2, Zenon DEF NewFrames
  <1>5. 2 \in DOMAIN stack => 2 \in DOMAIN stack' /\ stack'[2] = stack[2]
    BY <1>1 DEF Moved
  <1>. QED  BY <1>1, <1>3, <1>4, <1>5

LEMMA PushForm ==
  ASSUME Sound, Sound', stack # <<>>, Top.fn # "seal",
         NEW a \in Frames, a.fn # "seal", NEW b \in Frames, b.fn # "seal",
         stack' = <<a, b>> \o Tail(stack)
  PROVE  /\ Quiet(1)
         /\ FrameOK(1, a) /\ FrameOK(2, b) => NewFrames(1)
         /\ 1 \in DOMAIN stack' /\ stack'[1] = a
         /\ 2 \in DOMAIN stack' /\ stack'[2] = b
         /\ 2 \in DOMAIN stack => 3 \in DOMAIN stack' /\ stack'[3] = stack[2]
  <1>1. /\ Moved(1) /\ stack'[1] = a /\ stack'[2] = b /\ 1 \in DOMAIN stack' /\ 2 \in DOMAIN stack'
        /\ Top = stack[1]
    BY MovedPush, TopIsFirst
  <1>2. \A j \in DOMAIN stack' : j <= 1 + 1 => j = 1 \/ j = 2
    BY LenProperties DEF Sound, StackOK
  <1>3. Quiet(1)
    BY <1>1, <1>2, Zenon DEF Quiet
  <1>4. ASSUME FrameOK(1, a), FrameOK(2, b)  PROVE NewFrames(1)
    <2>1. \A j \in DOMAIN stack' : j <= 1 + 1 =>
            /\ stack'[j].fn = "operands" => OperandsOK(j)'
            /\ stack'[j].fn \in Reading => Top.fn \in Reading /\ stack'[j].name = Top.name
            /\ \A c : Untouched(c) => FrameFree(stack'[j], c)
      <3>. SUFFICES ASSUME NEW j \in DOMAIN stack', j <= 1 + 1
           PROVE  /\ stack'[j].fn = "operands" => OperandsOK(j)'
                  /\ stack'[j].fn \in Reading => Top.fn \in Reading /\ stack'[j].name = Top.name
                  /\ \A c : Untouched(c) => FrameFree(stack'[j], c)
        OBVIOUS
      <3>1. CASE j = 1
        BY <1>1, <1>4, <3>1, Zenon DEF FrameOK
      <3>2. CASE j = 2
        BY <1>1, <1>4, <3>2, Zenon DEF FrameOK
      <3>. QED  BY <1>2, <3>1, <3>2
    <2>2. 1 # -1
      OBVIOUS
    <2>. QED  BY <2>1, <2>2, Zenon DEF NewFrames
  <1>5. 2 \in DOMAIN stack => 3 \in DOMAIN stack' /\ stack'[3] = stack[2]
    BY <1>1 DEF Moved
  <1>. QED  BY <1>1, <1>3, <1>4, <1>5

-----------------------------------------------------------------------------
(* The calls keep it.                                                      *)

LEMMA ReadHitForm ==
  ASSUME Sound, Sound', Form, ReadHit
  PROVE  Form'
  <1>1. /\ stack # <<>> /\ Top.fn = "read" /\ stack' = Tail(stack) /\ block' = block /\ phi' = phi
        /\ ret' = block[Top.block].ssa_map[Top.name]
        /\ Top.name \in DOMAIN block[Top.block].ssa_map
        /\ UNCHANGED AST
    BY DEF ReadHit, Calling, Return
  <1>2. ret' # Nothing
    BY <1>1, TopFrame, BlockTypes
  <1>3. Quiet(-1) /\ NewFrames(-1)
    BY <1>1, <1>2, PopForm
  <1>. QED  BY <1>1, <1>3, OnlyStackForm DEF TopOperands, TopAwaits, TopJoining

LEMMA UntouchedTop ==
  ASSUME Sound, stack # <<>>, NEW c, Untouched(c)
  PROVE  /\ Top.fn \in {"read", "single", "join"} => Top.block # c
         /\ Top.fn = "operands" => c \notin Top.rest
         /\ \A b \in DOMAIN block : c \notin block[b].predecessors
  BY TopIsFirst DEF Untouched, FrameFree

LEMMA ReadSingleForm ==
  ASSUME Sound, Sound', Form, ReadSingle
  PROVE  Form'
  <1>1. PICK pre \in block[Top.block].predecessors :
          stack' = <<ReadFrame("read", pre, Top.name), ReadFrame("single", Top.block, Top.name)>>
                     \o Tail(stack)
    BY DEF ReadSingle, Replace
  <1>2. stack # <<>> /\ Top.fn = "read" /\ block' = block /\ phi' = phi /\ ret' = ret /\ UNCHANGED AST
    BY DEF ReadSingle, Calling
  <1>3. Top.block \in DOMAIN block /\ Top.name \in Vars /\ pre \in DOMAIN block
    BY <1>1, <1>2, TopFrame, BlockTypes
  <1>. PICK x, y : x = ReadFrame("read", pre, Top.name) /\ y = ReadFrame("single", Top.block, Top.name)
    OBVIOUS
  <1>4. x \in Frames /\ y \in Frames
    BY <1>3, BlockTypes, FrameMade
  <1>5. /\ x.fn = "read" /\ x.block = pre /\ x.name = Top.name
        /\ y.fn = "single" /\ y.block = Top.block /\ y.name = Top.name
    BY DEF ReadFrame
  <1>6. FrameOK(1, x) /\ FrameOK(2, y)
    BY <1>1, <1>2, <1>3, <1>5, UntouchedTop DEF FrameOK, FrameFree, Reading
  <1>7. Quiet(1) /\ NewFrames(1)
    BY <1>1, <1>2, <1>4, <1>5, <1>6, PushForm
  <1>. QED  BY <1>2, <1>7, OnlyStackForm DEF TopOperands, TopAwaits, TopJoining

LEMMA NextOperandForm ==
  ASSUME Sound, Sound', Form, NextOperand
  PROVE  Form'
  <1>1. /\ stack # <<>> /\ Top.fn = "operands" /\ ret = Nothing /\ block' = block /\ phi' = phi
        /\ ret' = ret /\ UNCHANGED AST
    BY DEF NextOperand, Calling
  <1>2. PICK pred \in Top.rest :
          stack' = <<ReadFrame("read", pred, Top.name),
                     OperandsFrame(Top.phi, Top.name, Top.rest \ {pred}, pred)>> \o Tail(stack)
    BY DEF NextOperand, Replace
  <1>. PICK x, y : /\ x = ReadFrame("read", pred, Top.name)
                   /\ y = OperandsFrame(Top.phi, Top.name, Top.rest \ {pred}, pred)
    OBVIOUS
  <1>3. /\ Top.phi \in PhisOf(phi) /\ Top.name \in Vars /\ Top.rest \in SUBSET DOMAIN block
        /\ pred \in DOMAIN block /\ pred \in Nat /\ Top.rest \in SUBSET Nat /\ Top.phi \in Int
    BY <1>1, TopFrame, BlockTypes DEF PhisOf
  <1>4. x \in Frames /\ y \in Frames
    BY <1>3, FrameMade
  <1>5. /\ x.fn = "read" /\ x.block = pred /\ x.name = Top.name
        /\ y.fn = "operands" /\ y.phi = Top.phi /\ y.name = Top.name
        /\ y.rest = Top.rest \ {pred} /\ y.pred = pred
    BY DEF ReadFrame, OperandsFrame
  <1>6. /\ Quiet(1)
        /\ FrameOK(1, x) /\ FrameOK(2, y) => NewFrames(1)
        /\ 1 \in DOMAIN stack' /\ stack'[1] = x
        /\ 2 \in DOMAIN stack' /\ stack'[2] = y
        /\ 2 \in DOMAIN stack => 3 \in DOMAIN stack' /\ stack'[3] = stack[2]
    BY <1>1, <1>2, <1>4, <1>5, PushForm
  <1>7. OperandsOK(2)'
    <2>. PICK k : k = -Top.phi
      OBVIOUS
    <2>1. /\ Settled(phi[k].block)
          /\ Top.rest \subseteq block[phi[k].block].predecessors
          /\ block[phi[k].block].predecessors \subseteq Top.rest \cup DOMAIN phi[k].operands
      <3>1. OperandsOK(1) /\ ~Waiting(1) /\ stack[1] = Top
        BY <1>1, TopIsFirst DEF Form, CallsOK, Waiting
      <3>. QED  BY <3>1 DEF OperandsOK
    <2>2. Settled(phi[k].block)'
      <3>1. \A b : SealOn(b)' <=> SealOn(b)
        <4>1. Quiet(1)
          BY <1>6
        <4>. QED  BY <4>1, SealKept, Zenon
      <3>. QED  BY <1>1, <2>1, <3>1 DEF Settled
    <2>3. k = -stack'[2].phi
      BY <1>5, <1>6
    <2>4. Waiting(2)'
      BY DEF Waiting
    <2>5. /\ stack'[2].rest \subseteq block'[phi'[k].block].predecessors
          /\ stack'[2].pred \in block'[phi'[k].block].predecessors
          /\ block'[phi'[k].block].predecessors
               \subseteq stack'[2].rest \cup DOMAIN phi'[k].operands \cup {stack'[2].pred}
      BY <1>1, <1>5, <1>6, <2>1
    <2>. QED  BY <2>2, <2>3, <2>4, <2>5 DEF OperandsOK
  <1>8. FrameOK(1, x) /\ FrameOK(2, y)
    BY <1>1, <1>2, <1>5, <1>7, UntouchedTop DEF FrameOK, FrameFree, Reading
  <1>9. ASSUME NEW k \in DOMAIN phi
        PROVE  /\ TopOperands(k)
               /\ TopAwaits(k) => Awaited(k)' \/ Cardinality(Others(-k)) > 1
               /\ TopJoining(k) => Joining(k)'
    <2>1. TopOperands(k)
      BY <1>5, <1>6 DEF TopOperands, InOperands
    <2>2. ~TopAwaits(k)
      BY <1>1 DEF TopAwaits
    <2>3. ASSUME TopJoining(k)  PROVE Joining(k)'
      <3>1. /\ Top.phi = -k /\ 3 \in DOMAIN stack' /\ stack'[3].fn = "join"
            /\ stack'[3].block = phi'[k].block
        BY <1>1, <1>6, <2>3 DEF TopJoining
      <3>2. stack'[3 - 1].fn = "operands" /\ stack'[3 - 1].phi = -k /\ 3 > 1
        BY <1>5, <1>6, <3>1
      <3>. QED  BY <3>1, <3>2 DEF Joining
    <2>. QED  BY <2>1, <2>2, <2>3
  <1>10. Quiet(1) /\ NewFrames(1)
    BY <1>6, <1>8
  <1>. QED  BY <1>1, <1>9, <1>10, OnlyStackForm, Zenon

LEMMA OperandsCompleteForm ==
  ASSUME Sound, Sound', Form, OperandsComplete
  PROVE  Form'
  <1>1. /\ stack # <<>> /\ Top.fn = "operands" /\ Top.rest = {} /\ ret = Nothing
        /\ block' = block /\ phi' = phi /\ ret' = ret
        /\ stack' = <<RemoveFrame(Top.phi)>> \o Tail(stack)
        /\ UNCHANGED AST
    BY DEF OperandsComplete, Calling, Replace
  <1>. PICK x : x = RemoveFrame(Top.phi)
    OBVIOUS
  <1>2. x \in Frames /\ x.fn = "remove" /\ x.phi = Top.phi
    <2>1. Top.phi \in Int
      BY <1>1, TopFrame DEF PhisOf
    <2>. QED  BY <2>1, FrameMade DEF RemoveFrame
  <1>3. /\ Quiet(0)
        /\ FrameOK(1, x) => NewFrames(0)
        /\ 1 \in DOMAIN stack' /\ stack'[1] = x
        /\ 2 \in DOMAIN stack => 2 \in DOMAIN stack' /\ stack'[2] = stack[2]
    BY <1>1, <1>2, ReplaceForm
  <1>4. FrameOK(1, x)
    BY <1>2 DEF FrameOK, FrameFree, Reading
  <1>5. ASSUME NEW k \in DOMAIN phi
        PROVE  /\ TopOperands(k)
               /\ TopAwaits(k) => Awaited(k)' \/ Cardinality(Others(-k)) > 1
               /\ TopJoining(k) => Joining(k)'
    <2>1. ASSUME Top.phi = -k  PROVE Filled(k)' /\ Awaited(k)'
      <3>1. -(-k) = k
        BY BlockTypes
      <3>2. /\ Settled(phi[k].block)
            /\ block[phi[k].block].predecessors \subseteq DOMAIN phi[k].operands
        <4>1. OperandsOK(1) /\ ~Waiting(1) /\ stack[1] = Top
          BY <1>1, TopIsFirst DEF Form, CallsOK, Waiting
        <4>. QED  BY <1>1, <2>1, <3>1, <4>1 DEF OperandsOK
      <3>3. DOMAIN phi[k].operands = block[phi[k].block].predecessors
        BY <3>2 DEF Form, CallsOK, Within
      <3>4. Settled(phi[k].block)'
        <4>1. \A b : SealOn(b)' <=> SealOn(b)
          <5>1. Quiet(0)
            BY <1>3
          <5>. QED  BY <5>1, SealKept, Zenon
        <4>. QED  BY <1>1, <3>2, <4>1 DEF Settled
      <3>5. Filled(k)'
        BY <1>1, <3>3, <3>4 DEF Filled
      <3>6. Awaited(k)'
        BY <1>2, <1>3, <2>1 DEF Awaited
      <3>. QED  BY <3>5, <3>6
    <2>2. ~TopAwaits(k)
      BY <1>1 DEF TopAwaits
    <2>3. ASSUME TopJoining(k)  PROVE Joining(k)'
      <3>1. /\ Top.phi = -k /\ 2 \in DOMAIN stack' /\ stack'[2].fn = "join"
            /\ stack'[2].block = phi'[k].block
        BY <1>1, <1>3, <2>3 DEF TopJoining
      <3>2. stack'[2 - 1].fn = "remove" /\ stack'[2 - 1].phi = -k /\ 2 > 1
        BY <1>2, <1>3, <3>1
      <3>. QED  BY <3>1, <3>2 DEF Joining
    <2>. QED  BY <2>1, <2>2, <2>3 DEF TopOperands
  <1>6. Quiet(0) /\ NewFrames(0)
    BY <1>3, <1>4
  <1>. QED  BY <1>1, <1>5, <1>6, OnlyStackForm, Zenon

LEMMA KeepPhiForm ==
  ASSUME Sound, Sound', Form, KeepPhi
  PROVE  Form'
  <1>1. /\ stack # <<>> /\ Top.fn = "remove" /\ block' = block /\ phi' = phi
        /\ Cardinality(Others(Top.phi)) > 1
        /\ stack' = Tail(stack) /\ ret' = Top.phi /\ UNCHANGED AST
    BY DEF KeepPhi, Calling, Return
  <1>2. ret' # Nothing
    <2>1. Top.phi \in ValuesOf(phi)
      BY <1>1, TopFrame, PhiIsValue DEF Sound, DataOK
    <2>. QED  BY <1>1, <2>1, BlockTypes
  <1>3. Quiet(-1) /\ NewFrames(-1)
    BY <1>1, <1>2, PopForm
  <1>4. 2 \in DOMAIN stack => 1 \in DOMAIN stack' /\ stack'[1] = stack[2]
    <2>1. Moved(-1) /\ 2 > 1 /\ 2 + (-1) = 1
      BY <1>1, MovedPop
    <2>. QED  BY <2>1 DEF Moved
  <1>5. ASSUME NEW k \in DOMAIN phi
        PROVE  /\ TopOperands(k)
               /\ TopAwaits(k) => Awaited(k)' \/ Cardinality(Others(-k)) > 1
               /\ TopJoining(k) => Joining(k)'
    BY <1>1, <1>4 DEF TopOperands, TopAwaits, TopJoining, Joining
  <1>. QED  BY <1>1, <1>3, <1>5, OnlyStackForm

LEMMA NextUserForm ==
  ASSUME Sound, Sound', Form, NextUser
  PROVE  Form'
  <1>1. /\ stack # <<>> /\ Top.fn = "cascade" /\ block' = block /\ phi' = phi /\ ret' = ret
        /\ UNCHANGED AST
    BY DEF NextUser, Calling
  <1>2. PICK use \in Top.rest :
          stack' = <<RemoveFrame(use), CascadeFrame(Top.same, Top.rest \ {use}, use)>> \o Tail(stack)
    BY DEF NextUser, Replace
  <1>. PICK x, y : x = RemoveFrame(use) /\ y = CascadeFrame(Top.same, Top.rest \ {use}, use)
    OBVIOUS
  <1>3. Top.same \in Int /\ Top.rest \in SUBSET Int /\ use \in Int
    BY <1>1, TopFrame DEF PhisOf, ValuesOf
  <1>4. x \in Frames /\ y \in Frames
    BY <1>3, FrameMade
  <1>5. x.fn = "remove" /\ x.phi = use /\ y.fn = "cascade" /\ y.rest = Top.rest \ {use}
    BY DEF RemoveFrame, CascadeFrame
  <1>6. /\ Quiet(1)
        /\ FrameOK(1, x) /\ FrameOK(2, y) => NewFrames(1)
        /\ 1 \in DOMAIN stack' /\ stack'[1] = x
        /\ 2 \in DOMAIN stack' /\ stack'[2] = y
    BY <1>1, <1>2, <1>4, <1>5, PushForm
  <1>7. FrameOK(1, x) /\ FrameOK(2, y)
    BY <1>5 DEF FrameOK, FrameFree, Reading
  <1>8. ASSUME NEW k \in DOMAIN phi
        PROVE  /\ TopOperands(k)
               /\ TopAwaits(k) => Awaited(k)' \/ Cardinality(Others(-k)) > 1
               /\ TopJoining(k) => Joining(k)'
    BY <1>1, <1>5, <1>6 DEF TopOperands, TopAwaits, TopJoining, Awaited
  <1>9. Quiet(1) /\ NewFrames(1)
    BY <1>6, <1>7
  <1>. QED  BY <1>1, <1>8, <1>9, OnlyStackForm, Zenon

LEMMA GotUserForm ==
  ASSUME Sound, Sound', Form, GotUser
  PROVE  Form'
  <1>. PICK same : same = IF Top.use = Top.same THEN ret ELSE Top.same
    OBVIOUS
  <1>. PICK x : x = CascadeFrame(same, Top.rest, Top.use)
    OBVIOUS
  <1>1. /\ stack # <<>> /\ Top.fn = "cascade" /\ ret # Nothing /\ block' = block /\ phi' = phi
        /\ ret' = Nothing /\ stack' = <<x>> \o Tail(stack) /\ UNCHANGED AST
    BY DEF GotUser, Returned, Replace
  <1>2. same \in Int /\ Top.rest \in SUBSET Int /\ Top.use \in Int
    BY <1>1, TopFrame DEF Sound, PhisOf, ValuesOf
  <1>3. x \in Frames /\ x.fn = "cascade" /\ x.rest = Top.rest
    BY <1>2, FrameMade DEF CascadeFrame
  <1>4. /\ Quiet(0)
        /\ FrameOK(1, x) => NewFrames(0)
        /\ 1 \in DOMAIN stack' /\ stack'[1] = x
    BY <1>1, <1>3, ReplaceForm
  <1>5. FrameOK(1, x)
    BY <1>3 DEF FrameOK, FrameFree, Reading
  <1>6. ASSUME NEW k \in DOMAIN phi
        PROVE  /\ TopOperands(k)
               /\ TopAwaits(k) => Awaited(k)' \/ Cardinality(Others(-k)) > 1
               /\ TopJoining(k) => Joining(k)'
    BY <1>1, <1>3, <1>4 DEF TopOperands, TopAwaits, TopJoining, Awaited
  <1>7. Quiet(0) /\ NewFrames(0)
    BY <1>4, <1>5
  <1>. QED  BY <1>1, <1>6, <1>7, OnlyStackForm, Zenon

LEMMA CascadeDoneForm ==
  ASSUME Sound, Sound', Form, CascadeDone
  PROVE  Form'
  <1>1. /\ stack # <<>> /\ Top.fn = "cascade" /\ Top.rest = {} /\ block' = block /\ phi' = phi
        /\ stack' = Tail(stack) /\ ret' = Top.same /\ UNCHANGED AST
    BY DEF CascadeDone, Calling, Return
  <1>2. ret' # Nothing
    BY <1>1, TopFrame, BlockTypes
  <1>3. Quiet(-1) /\ NewFrames(-1)
    BY <1>1, <1>2, PopForm
  <1>. QED  BY <1>1, <1>3, OnlyStackForm DEF TopOperands, TopAwaits, TopJoining

(* A value is written and returned, or made an instruction.                *)
LEMMA WrittenForm ==
  ASSUME Sound, Sound', Form, stack # <<>>, Top.fn \in {"single", "join", "use", "copy"},
         stack' = Tail(stack), ret' # Nothing \/ stack' = <<>>, BlocksKept, SamePhis,
         \A b \in DOMAIN block : block'[b].incomplete_phis = block[b].incomplete_phis,
         \A k \in DOMAIN phi :
           /\ Listed(k) => Listed(k)'
           /\ Top.fn = "join" /\ Top.block = phi[k].block /\ ret = -k => Listed(k)',
         UNCHANGED AST
  PROVE  Form'
  <1>1. Quiet(-1) /\ NewFrames(-1)
    BY PopForm
  <1>2. PhisKept /\ NewPhis /\ \A k \in DOMAIN phi : Others(-k)' = Others(-k)
    BY SamePhisKept
  <1>3. FormOK'
    BY <1>2, IncompleteKept DEF Form
  <1>4. ASSUME NEW k \in DOMAIN phi  PROVE TopKept(k)
    <2>1. Cardinality(Others(-k)) > 1 => (Cardinality(Others(-k)) > 1)'
      BY <1>2
    <2>2. TopOperands(k) /\ ~TopAwaits(k) /\ (TopJoining(k) => Listed(k)')
      BY DEF TopOperands, TopAwaits, TopJoining
    <2>. QED  BY <2>1, <2>2 DEF TopKept
  <1>. QED  BY <1>1, <1>2, <1>3, <1>4, CallForm, Zenon

LEMMA WithMore ==
  ASSUME NEW f, NEW k, NEW v
  PROVE  DOMAIN With(f, k, v) = {k} \cup DOMAIN f
  BY DEF With

LEMMA MappedKept ==
  ASSUME Sound, NEW b \in DOMAIN block, NEW name \in Vars, NEW v,
         IsMapped(block', block, b, name, v)
  PROVE  /\ BlocksKept
         /\ \A c \in DOMAIN block : /\ block'[c].incomplete_phis = block[c].incomplete_phis
                                    /\ block'[c].phis = block[c].phis
         /\ name \in DOMAIN block'[b].ssa_map
  <1>1. DOMAIN With(block[b].ssa_map, name, v) = {name} \cup DOMAIN block[b].ssa_map
    BY WithMore
  <1>2. \A c \in DOMAIN block : DOMAIN block[c].ssa_map \subseteq DOMAIN block'[c].ssa_map
    <2>. TAKE c \in DOMAIN block
    <2>1. CASE c = b
      <3>1. block'[b].ssa_map = With(block[b].ssa_map, name, v)
        BY DEF IsMapped
      <3>. QED  BY <1>1, <2>1, <3>1
    <2>2. CASE c # b
      BY <2>2 DEF IsMapped
    <2>. QED  BY <2>1, <2>2
  <1>. QED  BY <1>1, <1>2 DEF IsMapped, BlocksKept

LEMMA ReadSingleReturnForm ==
  ASSUME Sound, Sound', Form, ReadSingleReturn
  PROVE  Form'
  <1>1. /\ stack # <<>> /\ Top.fn = "single" /\ ret # Nothing /\ stack' = Tail(stack) /\ ret' = ret
        /\ block' = Mapped(block, Top.block, Top.name, ret)
        /\ phi' = Used(phi, ret, BlockUser(Top.block))
        /\ UNCHANGED AST
    BY DEF ReadSingleReturn, Returned, Return
  <1>2. /\ Top.block \in DOMAIN block /\ Top.name \in Vars /\ ret \in Int /\ -Len(phi) <= ret
        /\ block \in Seq(BlockRecords) /\ phi \in Seq(PhiRecords)
        /\ BlockUser(Top.block) \in Users
    BY <1>1, TopFrame, ValueIsInt, BlockTypes, UserIsUser DEF Sound, DataOK
  <1>3. IsMapped(block', block, Top.block, Top.name, ret)
    BY <1>1, <1>2, MappedBlocks
  <1>4. IsUsed(phi', phi, ret, BlockUser(Top.block))
    BY <1>1, <1>2, UsedPhis
  <1>5. /\ BlocksKept
        /\ \A c \in DOMAIN block : /\ block'[c].incomplete_phis = block[c].incomplete_phis
                                   /\ block'[c].phis = block[c].phis
    BY <1>2, <1>3, MappedKept
  <1>6. SamePhis
    BY <1>4, UsedSame
  <1>7. \A k \in DOMAIN phi : Listed(k) => Listed(k)'
    BY <1>5, <1>6 DEF Listed, SamePhis, Sound, DataOK, PhisKnown, PhiKnown
  <1>8. Top.fn # "join"
    BY <1>1
  <1>. QED  BY <1>1, <1>5, <1>6, <1>7, <1>8, WrittenForm

LEMMA ReadJoinReturnForm ==
  ASSUME Sound, Sound', Form, ReadJoinReturn
  PROVE  Form'
  <1>0. PICK M : M = Mapped(block, Top.block, Top.name, ret)
    OBVIOUS
  <1>1. /\ stack # <<>> /\ Top.fn = "join" /\ ret # Nothing /\ stack' = Tail(stack) /\ ret' = ret
        /\ block' = ListedIn(M, Top.block, ret)
        /\ phi' = Used(phi, ret, BlockUser(Top.block))
        /\ UNCHANGED AST
    BY <1>0 DEF ReadJoinReturn, Returned, Return, ListedIn
  <1>2. /\ Top.block \in DOMAIN block /\ Top.name \in Vars /\ ret \in Int /\ -Len(phi) <= ret
        /\ block \in Seq(BlockRecords) /\ phi \in Seq(PhiRecords)
        /\ BlockUser(Top.block) \in Users
    BY <1>1, TopFrame, ValueIsInt, BlockTypes, UserIsUser DEF Sound, DataOK
  <1>3. IsMapped(M, block, Top.block, Top.name, ret)
    BY <1>0, <1>2, MappedBlocks
  <1>4. IsUsed(phi', phi, ret, BlockUser(Top.block))
    BY <1>1, <1>2, UsedPhis
  <1>5. IsListed(block', M, Top.block, ret)
    <2>1. M \in Seq(BlockRecords) /\ Top.block \in DOMAIN M
      BY <1>2, <1>3 DEF IsMapped
    <2>. QED  BY <1>1, <1>2, <2>1, ListedBlocks
  <1>6. \A c \in DOMAIN block :
          /\ DOMAIN block[c].ssa_map \subseteq DOMAIN M[c].ssa_map
          /\ M[c].sealed = block[c].sealed /\ M[c].predecessors = block[c].predecessors
          /\ M[c].incomplete_phis = block[c].incomplete_phis /\ M[c].phis = block[c].phis
    <2>1. DOMAIN With(block[Top.block].ssa_map, Top.name, ret)
            = {Top.name} \cup DOMAIN block[Top.block].ssa_map
      BY WithMore
    <2>. QED  BY <1>3, <2>1 DEF IsMapped
  <1>7. DOMAIN M = DOMAIN block
    BY <1>3 DEF IsMapped
  <1>8. DOMAIN block' = DOMAIN block /\ \A c \in DOMAIN block :
          /\ block'[c].sealed = M[c].sealed /\ block'[c].predecessors = M[c].predecessors
          /\ block'[c].incomplete_phis = M[c].incomplete_phis
          /\ block'[c].ssa_map = M[c].ssa_map
          /\ block'[c].phis = IF c = Top.block THEN M[c].phis \cup {ret} ELSE M[c].phis
    BY <1>5, <1>7 DEF IsListed
  <1>9. ASSUME NEW c \in DOMAIN block
        PROVE  /\ block'[c].sealed = block[c].sealed
               /\ block'[c].predecessors = block[c].predecessors
               /\ DOMAIN block[c].ssa_map \subseteq DOMAIN block'[c].ssa_map
               /\ block'[c].incomplete_phis = block[c].incomplete_phis
               /\ block[c].phis \subseteq block'[c].phis
               /\ c = Top.block => ret \in block'[c].phis
    <2>1. block'[c].phis = IF c = Top.block THEN M[c].phis \cup {ret} ELSE M[c].phis
      BY <1>8
    <2>2. M[c].phis = block[c].phis
      BY <1>6
    <2>3. /\ block[c].phis \subseteq block'[c].phis
          /\ c = Top.block => ret \in block'[c].phis
      BY <2>1, <2>2
    <2>. QED  BY <1>6, <1>8, <2>3
  <1>10. BlocksKept
    BY <1>8, <1>9 DEF BlocksKept
  <1>11. SamePhis
    BY <1>4, UsedSame
  <1>12. \A k \in DOMAIN phi :
           /\ Listed(k) => Listed(k)'
           /\ Top.fn = "join" /\ Top.block = phi[k].block /\ ret = -k => Listed(k)'
    <2>1. \A k \in DOMAIN phi : phi[k].block \in DOMAIN block /\ phi'[k].block = phi[k].block
      BY <1>11 DEF SamePhis, Sound, DataOK, PhisKnown, PhiKnown
    <2>. QED  BY <1>9, <2>1 DEF Listed
  <1>13. \A b \in DOMAIN block : block'[b].incomplete_phis = block[b].incomplete_phis
    BY <1>9
  <1>. QED  BY <1>1, <1>10, <1>11, <1>12, <1>13, WrittenForm

LEMMA LongerKept ==
  ASSUME NEW B, NEW ins, DOMAIN B = DOMAIN block, IsLonger(block', B, bb, ins),
         \A c \in DOMAIN block :
           /\ B[c].sealed = block[c].sealed /\ B[c].predecessors = block[c].predecessors
           /\ DOMAIN block[c].ssa_map \subseteq DOMAIN B[c].ssa_map
           /\ B[c].incomplete_phis = block[c].incomplete_phis /\ B[c].phis = block[c].phis
  PROVE  /\ BlocksKept
         /\ \A c \in DOMAIN block : /\ block'[c].incomplete_phis = block[c].incomplete_phis
                                    /\ block'[c].phis = block[c].phis
  <1>1. /\ DOMAIN block' = DOMAIN block
        /\ \A c \in DOMAIN block :
             /\ block'[c].sealed = B[c].sealed /\ block'[c].predecessors = B[c].predecessors
             /\ block'[c].ssa_map = B[c].ssa_map
             /\ block'[c].incomplete_phis = B[c].incomplete_phis /\ block'[c].phis = B[c].phis
    BY DEF IsLonger
  <1>. QED  BY <1>1 DEF BlocksKept

LEMMA UseValueForm ==
  ASSUME Sound, Sound', Form, UseValue
  PROVE  Form'
  <1>0. PICK ins, n : /\ ins = [op |-> "use", name |-> Top.name, value |-> ret]
                     /\ n = Len(block[bb].instructions) + 1
    OBVIOUS
  <1>1. /\ stack # <<>> /\ Top.fn = "use" /\ ret # Nothing
        /\ block' = LongerIn(block, bb, ins)
        /\ phi' = Used(phi, ret, InsUser(bb, n))
        /\ stack' = <<>> /\ ret' = Nothing /\ UNCHANGED AST
    BY <1>0 DEF UseValue, Returned, LongerIn
  <1>2. /\ ret \in Int /\ -Len(phi) <= ret /\ bb \in DOMAIN block /\ Tail(stack) = <<>>
        /\ block \in Seq(BlockRecords) /\ phi \in Seq(PhiRecords)
        /\ Top.name \in Vars
    BY <1>1, TopFrame, ValueIsInt DEF Sound, DataOK, ASTOK
  <1>3. InsUser(bb, n) \in Users
    <2>1. block[bb].instructions \in Seq(Instructions) /\ bb \in Int
      BY <1>2, BlockTypes, BlockFields
    <2>. QED  BY <1>0, <2>1, LenProperties, UserIsUser
  <1>4. ins \in Instructions
    BY <1>0, <1>2 DEF Instructions
  <1>5. IsLonger(block', block, bb, ins)
    BY <1>1, <1>2, <1>4, LongerBlocks
  <1>6. IsUsed(phi', phi, ret, InsUser(bb, n))
    BY <1>1, <1>2, <1>3, UsedPhis
  <1>7. /\ BlocksKept
        /\ \A c \in DOMAIN block : /\ block'[c].incomplete_phis = block[c].incomplete_phis
                                   /\ block'[c].phis = block[c].phis
    BY <1>5, LongerKept
  <1>8. SamePhis
    BY <1>6, UsedSame
  <1>9. \A k \in DOMAIN phi : Listed(k) => Listed(k)'
    BY <1>7, <1>8 DEF Listed, SamePhis, Sound, DataOK, PhisKnown, PhiKnown
  <1>. QED  BY <1>1, <1>2, <1>7, <1>8, <1>9, WrittenForm

LEMMA CopyValueForm ==
  ASSUME Sound, Sound', Form, CopyValue
  PROVE  Form'
  <1>0. PICK ins, M : /\ ins = [op |-> "copy", name |-> Top.name, to |-> Top.to, value |-> Nothing]
                     /\ M = Mapped(block, bb, Top.to, ret)
    OBVIOUS
  <1>1. /\ stack # <<>> /\ Top.fn = "copy" /\ ret # Nothing
        /\ block' = LongerIn(M, bb, ins)
        /\ phi' = Used(phi, ret, BlockUser(bb))
        /\ stack' = <<>> /\ ret' = Nothing /\ UNCHANGED AST
    BY <1>0 DEF CopyValue, Returned, LongerIn
  <1>2. /\ ret \in Int /\ -Len(phi) <= ret /\ bb \in DOMAIN block /\ Tail(stack) = <<>>
        /\ block \in Seq(BlockRecords) /\ phi \in Seq(PhiRecords)
        /\ Top.name \in Vars /\ Top.to \in Vars /\ BlockUser(bb) \in Users
    BY <1>1, TopFrame, ValueIsInt, BlockTypes, UserIsUser DEF Sound, DataOK, ASTOK
  <1>3. ins \in Instructions
    BY <1>0, <1>2, BoundsAssumption DEF Instructions, Nothing
  <1>4. IsMapped(M, block, bb, Top.to, ret)
    BY <1>0, <1>2, MappedBlocks
  <1>5. /\ DOMAIN M = DOMAIN block /\ M \in Seq(BlockRecords)
        /\ \A c \in DOMAIN block :
             /\ M[c].sealed = block[c].sealed /\ M[c].predecessors = block[c].predecessors
             /\ DOMAIN block[c].ssa_map \subseteq DOMAIN M[c].ssa_map
             /\ M[c].incomplete_phis = block[c].incomplete_phis /\ M[c].phis = block[c].phis
    <2>1. DOMAIN With(block[bb].ssa_map, Top.to, ret) = {Top.to} \cup DOMAIN block[bb].ssa_map
      BY WithMore
    <2>. QED  BY <1>4, <2>1 DEF IsMapped
  <1>6. IsLonger(block', M, bb, ins)
    BY <1>1, <1>2, <1>3, <1>5, LongerBlocks
  <1>7. IsUsed(phi', phi, ret, BlockUser(bb))
    BY <1>1, <1>2, UsedPhis
  <1>8. /\ BlocksKept
        /\ \A c \in DOMAIN block : /\ block'[c].incomplete_phis = block[c].incomplete_phis
                                   /\ block'[c].phis = block[c].phis
    BY <1>5, <1>6, LongerKept
  <1>9. SamePhis
    BY <1>7, UsedSame
  <1>10. \A k \in DOMAIN phi : Listed(k) => Listed(k)'
    BY <1>8, <1>9 DEF Listed, SamePhis, Sound, DataOK, PhisKnown, PhiKnown
  <1>. QED  BY <1>1, <1>2, <1>8, <1>9, <1>10, WrittenForm

(* The phi that is made.                                                   *)
LEMMA MorePhisKept ==
  ASSUME Sound, Sound', NEW Q, NEW name, NEW b, NEW p, NEW u,
         HasMore(Q, phi, name, b), IsUsed(phi', Q, p, u)
  PROVE  LET n == Len(phi) + 1 IN
           /\ PhisKept /\ n \in DOMAIN phi' /\ n \notin DOMAIN phi
           /\ DOMAIN phi' = DOMAIN phi \cup {n}
           /\ phi'[n].block = b /\ phi'[n].localVarName = name /\ phi'[n].operands = <<>>
           /\ \A k \in DOMAIN phi :
                Others(-k)' = Others(-k) /\ k \in DOMAIN phi' /\ phi'[k].block = phi[k].block
  <1>. PICK n : n = Len(phi) + 1
    OBVIOUS
  <1>1. /\ DOMAIN Q = DOMAIN phi \cup {n} /\ \A k \in DOMAIN phi : Q[k] = phi[k]
        /\ Q[n] = NewPhi(name, b)
    BY DEF HasMore
  <1>2. /\ DOMAIN phi' = DOMAIN Q
        /\ \A k \in DOMAIN Q :
             /\ phi'[k].block = Q[k].block /\ phi'[k].localVarName = Q[k].localVarName
             /\ phi'[k].operands = Q[k].operands /\ phi'[k].valid = Q[k].valid
    BY DEF IsUsed
  <1>3. \A k \in DOMAIN phi :
             /\ k \in DOMAIN phi'
             /\ phi'[k].block = phi[k].block /\ phi'[k].localVarName = phi[k].localVarName
             /\ phi'[k].operands = phi[k].operands /\ phi'[k].valid = phi[k].valid
    BY <1>1, <1>2
  <1>4. PhisKept
    BY <1>3 DEF PhisKept
  <1>5. n \notin DOMAIN phi
    BY LenProperties DEF Sound, DataOK
  <1>6. phi'[n].block = b /\ phi'[n].localVarName = name /\ phi'[n].operands = <<>>
    BY <1>1, <1>2 DEF NewPhi
  <1>7. \A k \in DOMAIN phi : Others(-k)' = Others(-k)
    BY <1>3, OthersKept
  <1>. QED  BY <1>1, <1>2, <1>3, <1>4, <1>5, <1>6, <1>7

LEMMA ReadIncompleteForm ==
  ASSUME Sound, Sound', Form, ReadIncomplete
  PROVE  Form'
  <1>01. PICK b, name, p, n : /\ b = Top.block /\ name = Top.name
                             /\ n = Len(phi) + 1 /\ p = -(Len(phi) + 1)
    OBVIOUS
  <1>02. PICK Q, M : Q = Append(phi, NewPhi(name, b)) /\ M = Mapped(block, b, name, p)
    OBVIOUS
  <1>1. /\ stack # <<>> /\ Top.fn = "read" /\ stack' = Tail(stack) /\ ret' = p
        /\ name \notin DOMAIN block[b].ssa_map /\ ~block[b].sealed
        /\ block' = IncompleteIn(M, b, name, p) /\ phi' = Used(Q, p, BlockUser(b))
        /\ UNCHANGED AST
    BY <1>01, <1>02 DEF ReadIncomplete, Calling, Return, IncompleteIn
  <1>2. /\ b \in DOMAIN block /\ b \in Nat /\ name \in Vars /\ BlockUser(b) \in Users
        /\ block \in Seq(BlockRecords) /\ phi \in Seq(PhiRecords)
    BY <1>1, <1>01, TopFrame, BlockTypes, UserIsUser DEF Sound, DataOK
  <1>3. HasMore(Q, phi, name, b)
    BY <1>2, <1>02, MorePhis
  <1>4. /\ Q \in Seq(PhiRecords) /\ p \in Int /\ -Len(Q) <= p /\ p # Nothing /\ n \in Nat /\ p = -n
    <2>1. Len(phi) \in Nat
      BY <1>2, LenProperties
    <2>. QED  BY <1>3, <1>01, <2>1, BoundsAssumption DEF HasMore, Nothing
  <1>5. IsUsed(phi', Q, p, BlockUser(b))
    BY <1>1, <1>2, <1>4, UsedPhis
  <1>6. IsMapped(M, block, b, name, p)
    BY <1>2, <1>4, <1>02, MappedBlocks
  <1>7. IsIncomplete(block', M, b, name, p)
    <2>1. M \in Seq(BlockRecords) /\ b \in DOMAIN M
      BY <1>2, <1>6 DEF IsMapped
    <2>. QED  BY <1>1, <1>2, <1>4, <2>1, IncompleteBlocks
  <1>8. /\ PhisKept /\ n \in DOMAIN phi' /\ n \notin DOMAIN phi
        /\ DOMAIN phi' = DOMAIN phi \cup {n}
        /\ phi'[n].block = b /\ phi'[n].localVarName = name /\ phi'[n].operands = <<>>
        /\ \A k \in DOMAIN phi :
             Others(-k)' = Others(-k) /\ k \in DOMAIN phi' /\ phi'[k].block = phi[k].block
    BY <1>3, <1>5, <1>01, MorePhisKept
  <1>9. /\ DOMAIN M = DOMAIN block
        /\ DOMAIN M[b].ssa_map = {name} \cup DOMAIN block[b].ssa_map
        /\ \A c \in DOMAIN block :
             /\ c # b => M[c].ssa_map = block[c].ssa_map
             /\ M[c].sealed = block[c].sealed /\ M[c].predecessors = block[c].predecessors
             /\ M[c].incomplete_phis = block[c].incomplete_phis /\ M[c].phis = block[c].phis
    <2>1. DOMAIN With(block[b].ssa_map, name, p) = {name} \cup DOMAIN block[b].ssa_map
      BY WithMore
    <2>. QED  BY <1>2, <1>6, <2>1 DEF IsMapped
  <1>10. /\ DOMAIN block' = DOMAIN M
         /\ DOMAIN block'[b].incomplete_phis = {name} \cup DOMAIN M[b].incomplete_phis
         /\ block'[b].incomplete_phis[name] = p
         /\ \A x \in DOMAIN M[b].incomplete_phis :
              x # name => block'[b].incomplete_phis[x] = M[b].incomplete_phis[x]
         /\ \A c \in DOMAIN block :
              /\ c # b => block'[c].incomplete_phis = M[c].incomplete_phis
              /\ block'[c].sealed = M[c].sealed /\ block'[c].predecessors = M[c].predecessors
              /\ block'[c].ssa_map = M[c].ssa_map /\ block'[c].phis = M[c].phis
    <2>0. PICK V : V = M[b].incomplete_phis
      OBVIOUS
    <2>1. /\ DOMAIN With(V, name, p) = {name} \cup DOMAIN V
          /\ With(V, name, p)[name] = p
          /\ \A x \in DOMAIN V : x # name => With(V, name, p)[x] = V[x]
      BY DEF With
    <2>2. block'[b].incomplete_phis = With(V, name, p)
      BY <1>2, <1>7, <1>9, <2>0 DEF IsIncomplete
    <2>3. /\ DOMAIN block' = DOMAIN M
          /\ \A c \in DOMAIN block :
              /\ c # b => block'[c].incomplete_phis = M[c].incomplete_phis
              /\ block'[c].sealed = M[c].sealed /\ block'[c].predecessors = M[c].predecessors
              /\ block'[c].ssa_map = M[c].ssa_map /\ block'[c].phis = M[c].phis
      BY <1>7, <1>9 DEF IsIncomplete
    <2>. QED  BY <2>0, <2>1, <2>2, <2>3
  <1>11. \A x \in DOMAIN block[b].incomplete_phis : x # name
    BY <1>1, <1>2 DEF Form, FormOK
  <1>12. ASSUME NEW c \in DOMAIN block
         PROVE  /\ block'[c].sealed = block[c].sealed
                /\ block'[c].predecessors = block[c].predecessors
                /\ block'[c].phis = block[c].phis
                /\ DOMAIN block[c].ssa_map \subseteq DOMAIN block'[c].ssa_map
                /\ \A x \in DOMAIN block[c].incomplete_phis :
                     /\ x \in DOMAIN block'[c].incomplete_phis
                     /\ block'[c].incomplete_phis[x] = block[c].incomplete_phis[x]
    <2>1. CASE c = b
      BY <1>9, <1>10, <1>11, <2>1
    <2>2. CASE c # b
      BY <1>9, <1>10, <2>2
    <2>. QED  BY <2>1, <2>2
  <1>13. BlocksKept
    BY <1>9, <1>10, <1>12 DEF BlocksKept
  <1>14. Quiet(-1) /\ NewFrames(-1)
    BY <1>1, <1>4, PopForm
  <1>15. FormOK'
    <2>. SUFFICES ASSUME NEW c \in DOMAIN block, NEW x \in DOMAIN block'[c].incomplete_phis
         PROVE  /\ x \in DOMAIN block'[c].ssa_map
                /\ phi'[-block'[c].incomplete_phis[x]].block = c
      BY <1>13 DEF FormOK, BlocksKept
    <2>1. CASE c = b /\ x = name
      BY <1>4, <1>8, <1>9, <1>10, <2>1
    <2>2. CASE ~(c = b /\ x = name)
      <3>1. /\ x \in DOMAIN block[c].incomplete_phis
            /\ block'[c].incomplete_phis[x] = block[c].incomplete_phis[x]
        BY <1>9, <1>10, <2>2
      <3>2. -block[c].incomplete_phis[x] \in DOMAIN phi
        BY <3>1, BlockTypes, PhiIsValue DEF Sound, DataOK
      <3>3. x \in DOMAIN block[c].ssa_map /\ phi[-block[c].incomplete_phis[x]].block = c
        BY <3>1 DEF Form, FormOK
      <3>4. x \in DOMAIN block'[c].ssa_map
        BY <1>12, <3>3
      <3>5. phi'[-block[c].incomplete_phis[x]].block = c
        BY <1>8, <3>2, <3>3
      <3>. QED  BY <3>1, <3>4, <3>5
    <2>. QED  BY <2>1, <2>2
  <1>16. NewPhis
    <2>1. Incomplete(n)'
      <3>1. ~block'[b].sealed
        BY <1>1, <1>2, <1>12
      <3>2. \A i \in DOMAIN stack : stack[i].fn = "seal" => stack[i].block # b
        BY <1>1, <1>01, TopIsFirst DEF Form, CallsOK, NamesOK, Reading
      <3>3. \A j \in DOMAIN stack' : stack'[j].fn = "seal" => stack'[j].block # b
        BY <1>14, <3>2, SealKept
      <3>. QED  BY <1>4, <1>8, <1>10, <3>1, <3>3 DEF Incomplete
    <2>2. PhiOK(n)'
      BY <2>1 DEF PhiOK
    <2>. QED  BY <1>1, <1>8, <1>01, <2>2 DEF NewPhis
  <1>17. ASSUME NEW k \in DOMAIN phi  PROVE TopKept(k)
    <2>1. Cardinality(Others(-k)) > 1 => (Cardinality(Others(-k)) > 1)'
      BY <1>8
    <2>2. Listed(k) => Listed(k)'
      BY <1>8, <1>12 DEF Listed, Sound, DataOK, PhisKnown, PhiKnown
    <2>3. TopOperands(k) /\ ~TopAwaits(k) /\ ~TopJoining(k)
      BY <1>1 DEF TopOperands, TopAwaits, TopJoining
    <2>. QED  BY <2>1, <2>2, <2>3 DEF TopKept
  <1>. QED  BY <1>1, <1>8, <1>13, <1>14, <1>15, <1>16, <1>17, CallForm, Zenon

LEMMA ReadJoinForm ==
  ASSUME Sound, Sound', Form, ReadJoin
  PROVE  Form'
  <1>01. PICK b, name, p, n : /\ b = Top.block /\ name = Top.name
                              /\ n = Len(phi) + 1 /\ p = -(Len(phi) + 1)
    OBVIOUS
  <1>02. PICK Q, x, y : /\ Q = Append(phi, NewPhi(name, b))
                        /\ x = OperandsFrame(p, name, block[b].predecessors, 0)
                        /\ y = ReadFrame("join", b, name)
    OBVIOUS
  <1>1. /\ stack # <<>> /\ Top.fn = "read" /\ ret = Nothing /\ ret' = ret
        /\ block[b].sealed
        /\ stack' = <<x, y>> \o Tail(stack)
        /\ block' = Mapped(block, b, name, p) /\ phi' = Used(Q, p, BlockUser(b))
        /\ UNCHANGED AST
    BY <1>01, <1>02 DEF ReadJoin, Calling, Replace
  <1>2. /\ b \in DOMAIN block /\ b \in Nat /\ name \in Vars /\ BlockUser(b) \in Users
        /\ block \in Seq(BlockRecords) /\ phi \in Seq(PhiRecords)
        /\ block[b].predecessors \in SUBSET Nat
    BY <1>1, <1>01, TopFrame, BlockTypes, UserIsUser DEF Sound, DataOK
  <1>3. HasMore(Q, phi, name, b)
    BY <1>2, <1>02, MorePhis
  <1>4. /\ Q \in Seq(PhiRecords) /\ p \in Int /\ -Len(Q) <= p /\ n \in Nat /\ p = -n /\ n = -p
    <2>1. Len(phi) \in Nat
      BY <1>2, LenProperties
    <2>. QED  BY <1>3, <1>01, <2>1 DEF HasMore
  <1>5. IsUsed(phi', Q, p, BlockUser(b))
    BY <1>1, <1>2, <1>4, UsedPhis
  <1>6. IsMapped(block', block, b, name, p)
    BY <1>1, <1>2, <1>4, MappedBlocks
  <1>7. /\ PhisKept /\ n \in DOMAIN phi' /\ n \notin DOMAIN phi
        /\ DOMAIN phi' = DOMAIN phi \cup {n}
        /\ phi'[n].block = b /\ phi'[n].localVarName = name /\ phi'[n].operands = <<>>
        /\ \A k \in DOMAIN phi :
             Others(-k)' = Others(-k) /\ k \in DOMAIN phi' /\ phi'[k].block = phi[k].block
    BY <1>3, <1>5, <1>01, MorePhisKept
  <1>8. /\ BlocksKept
        /\ \A c \in DOMAIN block : /\ block'[c].incomplete_phis = block[c].incomplete_phis
                                   /\ block'[c].phis = block[c].phis
    BY <1>2, <1>6, MappedKept
  <1>9. /\ x \in Frames /\ x.fn = "operands" /\ x.phi = p /\ x.name = Top.name
        /\ x.rest = block[b].predecessors
        /\ y \in Frames /\ y.fn = "join" /\ y.block = b /\ y.name = Top.name
    BY <1>2, <1>4, <1>01, <1>02, FrameMade DEF OperandsFrame, ReadFrame
  <1>10. /\ Quiet(1)
         /\ FrameOK(1, x) /\ FrameOK(2, y) => NewFrames(1)
         /\ 1 \in DOMAIN stack' /\ stack'[1] = x
         /\ 2 \in DOMAIN stack' /\ stack'[2] = y
    BY <1>1, <1>9, PushForm
  <1>11. OperandsOK(1)'
    <2>1. n = -stack'[1].phi /\ ~Waiting(1)'
      BY <1>1, <1>4, <1>9, <1>10 DEF Waiting
    <2>2. Settled(b)' /\ block'[b].predecessors = block[b].predecessors
      BY <1>1, <1>2, <1>8 DEF Settled, BlocksKept
    <2>3. Settled(phi[n].block)'
      BY <1>7, <2>2
    <2>4. stack'[1].rest = block'[phi'[n].block].predecessors
      BY <1>7, <1>9, <1>10, <2>2
    <2>. QED  BY <2>1, <2>3, <2>4 DEF OperandsOK
  <1>12. FrameOK(1, x) /\ FrameOK(2, y)
    BY <1>1, <1>2, <1>9, <1>11, <1>01, UntouchedTop DEF FrameOK, FrameFree, Reading
  <1>13. Quiet(1) /\ NewFrames(1)
    BY <1>10, <1>12
  <1>14. FormOK'
    BY <1>7, <1>8, IncompleteKept DEF Form
  <1>15. NewPhis
    <2>1. InOperands(n)'
      BY <1>4, <1>9, <1>10 DEF InOperands
    <2>2. Joining(n)'
      <3>1. stack'[2].fn = "join" /\ stack'[2].block = phi'[n].block /\ 2 > 1 /\ 2 - 1 = 1
        BY <1>7, <1>9, <1>10
      <3>2. stack'[2 - 1].fn = "operands" /\ stack'[2 - 1].phi = -n
        BY <1>4, <1>9, <1>10, <3>1
      <3>. QED  BY <1>10, <3>1, <3>2 DEF Joining
    <2>3. PhiOK(n)'
      BY <2>1, <2>2 DEF PhiOK
    <2>. QED  BY <1>1, <1>7, <1>01, <2>3 DEF NewPhis
  <1>16. ASSUME NEW k \in DOMAIN phi  PROVE TopKept(k)
    <2>1. Cardinality(Others(-k)) > 1 => (Cardinality(Others(-k)) > 1)'
      BY <1>7
    <2>2. Listed(k) => Listed(k)'
      BY <1>7, <1>8 DEF Listed, Sound, DataOK, PhisKnown, PhiKnown
    <2>3. TopOperands(k) /\ ~TopAwaits(k) /\ ~TopJoining(k)
      BY <1>1 DEF TopOperands, TopAwaits, TopJoining
    <2>. QED  BY <2>1, <2>2, <2>3 DEF TopKept
  <1>. QED  BY <1>1, <1>7, <1>8, <1>13, <1>14, <1>15, <1>16, CallForm, Zenon

LEMMA GotOperandForm ==
  ASSUME Sound, Sound', Form, GotOperand
  PROVE  Form'
  <1>01. PICK n, pred : n = -Top.phi /\ pred = Top.pred
    OBVIOUS
  <1>02. PICK Q : Q = OperandIn(phi, n, pred, ret)
    OBVIOUS
  <1>1. /\ stack # <<>> /\ Top.fn = "operands" /\ ret # Nothing
        /\ phi' = Used(Q, ret, PhiUser(Top.phi))
        /\ ret' = Nothing /\ block' = block /\ stack' = stack /\ UNCHANGED AST
    BY <1>01, <1>02 DEF GotOperand, Returned, OperandIn
  <1>2. /\ n \in DOMAIN phi /\ -n = Top.phi /\ pred \in Nat /\ ret \in Int /\ -Len(phi) <= ret
        /\ PhiUser(Top.phi) \in Users /\ phi \in Seq(PhiRecords) /\ n \in Int
    <2>1. Top.phi \in PhisOf(phi) /\ ret \in ValuesOf(phi) /\ Top.pred \in Nat
      BY <1>1, TopFrame DEF Sound
    <2>2. phi \in Seq(PhiRecords)
      BY DEF Sound, DataOK
    <2>3. Top.phi \in Int /\ -Top.phi \in DOMAIN phi /\ -(-Top.phi) = Top.phi
      BY <2>1, <2>2, PhiIsValue
    <2>. QED  BY <1>01, <2>1, <2>2, <2>3, ValueIsInt, UserIsUser
  <1>3. HasOperand(Q, phi, n, pred, ret)
    BY <1>2, <1>02, OperandPhis
  <1>4. IsUsed(phi', Q, ret, PhiUser(Top.phi))
    <2>1. Q \in Seq(PhiRecords) /\ Len(Q) = Len(phi)
      BY <1>3 DEF HasOperand
    <2>. QED  BY <1>1, <1>2, <2>1, UsedPhis
  <1>5. /\ DOMAIN Q = DOMAIN phi /\ DOMAIN Q[n].operands = DOMAIN phi[n].operands \cup {pred}
        /\ \A k \in DOMAIN phi :
             /\ Q[k].block = phi[k].block /\ Q[k].localVarName = phi[k].localVarName
             /\ Q[k].valid = phi[k].valid /\ (k # n => Q[k].operands = phi[k].operands)
    BY <1>3 DEF HasOperand
  <1>6. DOMAIN phi' = DOMAIN Q /\ \A k \in DOMAIN Q :
          /\ phi'[k].block = Q[k].block /\ phi'[k].localVarName = Q[k].localVarName
          /\ phi'[k].valid = Q[k].valid /\ phi'[k].operands = Q[k].operands
    BY <1>4 DEF IsUsed
  <1>7. OperandsOK(1) /\ Waiting(1) /\ stack[1] = Top /\ 1 \in DOMAIN stack
    BY <1>1, TopIsFirst DEF Form, CallsOK, Waiting
  <1>8. /\ Settled(phi[n].block) /\ Top.rest \subseteq block[phi[n].block].predecessors
        /\ pred \in block[phi[n].block].predecessors
        /\ block[phi[n].block].predecessors
             \subseteq Top.rest \cup DOMAIN phi[n].operands \cup {pred}
    BY <1>7, <1>01 DEF OperandsOK
  <1>9. BlocksKept /\ DOMAIN phi' = DOMAIN phi
    BY <1>1, <1>5, <1>6 DEF BlocksKept
  <1>10. PhisKept
    <2>. SUFFICES ASSUME NEW k \in DOMAIN phi
         PROVE  /\ k \in DOMAIN phi'
                /\ phi'[k].block = phi[k].block /\ phi'[k].localVarName = phi[k].localVarName
                /\ phi'[k].valid => phi[k].valid
                /\ DOMAIN phi[k].operands \subseteq DOMAIN phi'[k].operands
                /\ DOMAIN phi'[k].operands
                     \subseteq DOMAIN phi[k].operands \cup block[phi[k].block].predecessors
      BY DEF PhisKept
    <2>1. CASE k = n
      BY <1>5, <1>6, <1>8, <2>1
    <2>2. CASE k # n
      BY <1>5, <1>6, <2>2
    <2>. QED  BY <2>1, <2>2
  <1>11. NewPhis
    BY <1>9 DEF NewPhis
  <1>12. FormOK'
    BY <1>1, <1>9, <1>10, IncompleteKept DEF Form
  <1>13. Quiet(0)
    <2>1. Moved(0) /\ stack[1].fn # "seal"
      BY <1>1, <1>7, MovedSame
    <2>2. \A j \in DOMAIN stack' : j <= 1 + 0 => j = 1
      BY LenProperties DEF Sound, StackOK
    <2>. QED  BY <1>1, <2>1, <2>2, Zenon DEF Quiet
  <1>14. OperandsOK(1)'
    <2>1. n = -stack'[1].phi /\ ~Waiting(1)'
      BY <1>1, <1>7, <1>01 DEF Waiting
    <2>2. phi'[n].block = phi[n].block /\ phi[n].block \in DOMAIN block
      BY <1>2, <1>10 DEF PhisKept, Sound, DataOK, PhisKnown, PhiKnown
    <2>3. Settled(phi[n].block)'
      <3>1. \A b \in DOMAIN block : Settled(b) => Settled(b)'
        BY <1>9, <1>13, SealKept DEF Settled, BlocksKept
      <3>. QED  BY <1>8, <2>2, <3>1
    <2>4. /\ stack'[1].rest \subseteq block'[phi'[n].block].predecessors
          /\ block'[phi'[n].block].predecessors \subseteq stack'[1].rest \cup DOMAIN phi'[n].operands
      BY <1>1, <1>2, <1>5, <1>6, <1>7, <1>8, <2>2
    <2>. QED  BY <2>1, <2>3, <2>4 DEF OperandsOK
  <1>15. NewFrames(0)
    <2>1. \A j \in DOMAIN stack' : j <= 1 + 0 => j = 1
      BY LenProperties DEF Sound, StackOK
    <2>2. /\ stack'[1].fn = "operands" => OperandsOK(1)'
          /\ stack'[1].fn \in Reading => Top.fn \in Reading /\ stack'[1].name = Top.name
          /\ \A b : Untouched(b) => FrameFree(stack'[1], b)
      BY <1>1, <1>7, <1>14 DEF Untouched
    <2>3. 0 # -1
      OBVIOUS
    <2>. QED  BY <2>1, <2>2, <2>3, Zenon DEF NewFrames
  <1>16. ASSUME NEW k \in DOMAIN phi  PROVE TopKept(k)
    <2>1. TopOperands(k)
      BY <1>1, <1>7 DEF TopOperands, InOperands
    <2>2. Cardinality(Others(-k)) > 1 => InOperands(k)' \/ (Cardinality(Others(-k)) > 1)'
      <3>1. CASE k = n
        BY <1>1, <1>2, <1>7, <3>1 DEF InOperands
      <3>2. CASE k # n
        <4>1. phi'[k].operands = phi[k].operands /\ k \in DOMAIN phi'
          BY <1>5, <1>6, <3>2
        <4>2. Others(-k)' = Others(-k)
          BY <4>1, OthersKept
        <4>. QED  BY <4>2
      <3>. QED  BY <3>1, <3>2
    <2>3. Listed(k) => Listed(k)'
      BY <1>1, <1>10 DEF Listed, PhisKept
    <2>4. ~TopAwaits(k)
      BY <1>1 DEF TopAwaits
    <2>5. ASSUME TopJoining(k)  PROVE Joining(k)'
      <3>1. /\ Top.phi = -k /\ 2 \in DOMAIN stack' /\ stack'[2].fn = "join"
            /\ stack'[2].block = phi'[k].block
        BY <1>1, <1>10, <2>5 DEF TopJoining, PhisKept
      <3>2. stack'[2 - 1].fn = "operands" /\ stack'[2 - 1].phi = -k /\ 2 > 1
        BY <1>1, <1>7, <3>1
      <3>. QED  BY <3>1, <3>2 DEF Joining
    <2>. QED  BY <2>1, <2>2, <2>3, <2>4, <2>5 DEF TopKept
  <1>. QED  BY <1>1, <1>9, <1>10, <1>11, <1>12, <1>13, <1>15, <1>16, CallForm, Zenon

LEMMA RemovePhiForm ==
  ASSUME Sound, Sound', Form, RemovePhi
  PROVE  Form'
  <1>01. PICK p, n, same : p = Top.phi /\ n = -p /\ same = Same(p)
    OBVIOUS
  <1>02. PICK U : U = PhiAt(p).users \ {PhiUser(p)}
    OBVIOUS
  <1>03. PICK R : R = {q \in Phis : PhiUser(q) \in U}
    OBVIOUS
  <1>04. PICK x : x = CascadeFrame(same, R, Nothing)
    OBVIOUS
  <1>1. /\ stack # <<>> /\ Top.fn = "remove" /\ ret' = ret
        /\ block' = BlocksWith(U, p, same) /\ phi' = PhisWith(U, p, same)
        /\ stack' = <<x>> \o Tail(stack) /\ UNCHANGED AST
    BY <1>01, <1>02, <1>03, <1>04 DEF RemovePhi, Calling, Replace
  <1>2. p \in PhisOf(phi)
    BY <1>1, <1>01, TopFrame
  <1>3. same \in ValuesOf(phi) /\ same \in Int /\ Nothing \in Int
    BY <1>2, <1>01, SameKnown, BoundsAssumption DEF ValuesOf, Nothing
  <1>4. U \in SUBSET Users
    BY <1>2, <1>02, PhiIsValue, PhiFields, BlockTypes DEF PhiAt, Sound, DataOK
  <1>5. R \in SUBSET Int /\ \A k \in DOMAIN phi : PhiUser(-k) \in U => -k \in R
    BY <1>03, BlockTypes DEF Phis
  <1>6. x \in Frames /\ x.fn = "cascade" /\ x.rest = R
    BY <1>3, <1>5, <1>04, FrameMade DEF CascadeFrame
  <1>7. IsRemoved(block', U, p, same) /\ IsForgotten(phi', U, p, same)
    BY <1>1, <1>2, <1>3, <1>4, DataRemoved DEF Sound
  <1>8. /\ Quiet(0)
        /\ FrameOK(1, x) => NewFrames(0)
        /\ 1 \in DOMAIN stack' /\ stack'[1] = x
    BY <1>1, <1>6, ReplaceForm
  <1>9. FrameOK(1, x)
    BY <1>6 DEF FrameOK, FrameFree, Reading
  <1>10. /\ DOMAIN block' = DOMAIN block
         /\ \A c \in DOMAIN block :
              /\ block'[c].sealed = block[c].sealed
              /\ block'[c].predecessors = block[c].predecessors
              /\ block'[c].incomplete_phis = block[c].incomplete_phis
              /\ block[c].phis \ {p} \subseteq block'[c].phis
              /\ \/ block'[c].ssa_map = Subst(block[c].ssa_map, p, same)
                 \/ block'[c].ssa_map = block[c].ssa_map
    BY <1>7 DEF IsRemoved, RemovedFrom
  <1>11. \A c \in DOMAIN block : DOMAIN block'[c].ssa_map = DOMAIN block[c].ssa_map
    <2>1. \A c \in DOMAIN block : DOMAIN Subst(block[c].ssa_map, p, same) = DOMAIN block[c].ssa_map
      BY DEF Subst
    <2>. QED  BY <1>10, <2>1
  <1>12. BlocksKept
    BY <1>10, <1>11 DEF BlocksKept
  <1>13. /\ DOMAIN phi' = DOMAIN phi
         /\ \A k \in DOMAIN phi :
              /\ phi'[k].block = phi[k].block /\ phi'[k].localVarName = phi[k].localVarName
              /\ phi'[k].valid = (phi[k].valid /\ -k # p)
              /\ phi'[k].operands = IF PhiUser(-k) \in U THEN Subst(phi[k].operands, p, same)
                                    ELSE phi[k].operands
    BY <1>7 DEF IsForgotten
  <1>14. \A k \in DOMAIN phi : DOMAIN phi'[k].operands = DOMAIN phi[k].operands
    <2>1. \A k \in DOMAIN phi : DOMAIN Subst(phi[k].operands, p, same) = DOMAIN phi[k].operands
      BY DEF Subst
    <2>. QED  BY <1>13, <2>1
  <1>15. PhisKept
    BY <1>13, <1>14 DEF PhisKept
  <1>16. NewPhis
    BY <1>13 DEF NewPhis
  <1>17. FormOK'
    BY <1>10, <1>12, <1>15, IncompleteKept DEF Form
  <1>18. NewFrames(0)
    BY <1>8, <1>9
  <1>19. ASSUME NEW k \in DOMAIN phi, phi'[k].valid  PROVE TopKept(k)
    <2>1. -k # p
      BY <1>13, <1>19
    <2>2. TopOperands(k) /\ ~TopAwaits(k) /\ ~TopJoining(k)
      BY <1>1, <1>01, <2>1 DEF TopOperands, TopAwaits, TopJoining
    <2>3. Listed(k) => Listed(k)'
      <3>1. phi[k].block \in DOMAIN block /\ phi'[k].block = phi[k].block
        BY <1>13 DEF Sound, DataOK, PhisKnown, PhiKnown
      <3>. QED  BY <1>10, <2>1, <3>1 DEF Listed
    <2>4. Cardinality(Others(-k)) > 1 => Awaited(k)' \/ (Cardinality(Others(-k)) > 1)'
      <3>1. CASE PhiUser(-k) \in U
        BY <1>5, <1>6, <1>8, <3>1 DEF Awaited
      <3>2. CASE PhiUser(-k) \notin U
        <4>1. k \in DOMAIN phi' /\ phi'[k].operands = phi[k].operands
          BY <1>13, <3>2
        <4>2. Others(-k)' = Others(-k)
          BY <4>1, OthersKept
        <4>. QED  BY <4>2
      <3>. QED  BY <3>1, <3>2
    <2>. QED  BY <2>2, <2>3, <2>4 DEF TopKept
  <1>. QED  BY <1>1, <1>8, <1>12, <1>15, <1>16, <1>17, <1>18, <1>19, CallForm, Zenon

(* A block that is being sealed, with no call above.                       *)
LEMMA SealAlone ==
  ASSUME Sound, stack # <<>>, Top.fn = "seal"
  PROVE  /\ DOMAIN stack = {1} /\ stack[1] = Top /\ Tail(stack) = <<>>
         /\ \A b : SealOn(b) <=> b = Top.block
         /\ \A k \in DOMAIN phi : ~InOperands(k) /\ ~Joining(k) /\ ~Awaited(k)
  <1>1. Top = stack[1] /\ Tail(stack) = <<>>
    BY TopIsFirst, TopFrame
  <1>2. DOMAIN stack = {1}
    <2>1. stack \in Seq(Frames)
      BY DEF Sound, StackOK
    <2>2. Len(stack) = 1
      BY <1>1, TopIsFirst DEF Sound, StackOK, Bottom
    <2>3. DOMAIN stack = 1 .. 1 /\ 1 .. 1 = {1}
      BY <2>1, <2>2, LenProperties
    <2>. QED  BY <2>3, Zenon
  <1>3. \A i \in DOMAIN stack : stack[i] = Top
    BY <1>1, <1>2
  <1>. QED  BY <1>1, <1>2, <1>3 DEF SealOn, InOperands, Joining, Awaited

LEMMA SealReturnForm ==
  ASSUME Sound, Sound', Form, SealReturn
  PROVE  Form'
  <1>1. /\ stack # <<>> /\ Top.fn = "seal" /\ block' = block /\ phi' = phi /\ stack' = stack
        /\ bb' = bb /\ open' = open
    BY DEF SealReturn, Returned, AST
  <1>2. \A i \in DOMAIN stack : stack[i].fn = "seal"
    BY <1>1, SealAlone
  <1>3. ASSUME NEW k \in DOMAIN phi  PROVE PhiOK(k)'
    <2>1. /\ Incomplete(k)' <=> Incomplete(k)
          /\ Filled(k)' <=> Filled(k)
          /\ Listed(k)' <=> Listed(k)
          /\ (Cardinality(Others(-k)) > 1)' <=> Cardinality(Others(-k)) > 1
      BY <1>1 DEF Incomplete, Filled, Settled, SealOn, Listed, Others, PhiAt
    <2>2. ~InOperands(k) /\ ~Joining(k) /\ ~Awaited(k)
      BY <1>1, SealAlone
    <2>3. PhiOK(k)
      BY DEF Form, PhisOK
    <2>. QED  BY <1>1, <2>1, <2>2, <2>3 DEF PhiOK
  <1>4. CallsOK'
    BY <1>1, <1>2 DEF Form, CallsOK, Within, NamesOK
  <1>5. FormOK'
    BY <1>1 DEF Form, FormOK
  <1>6. OpensOK'
    BY <1>1 DEF Form, OpensOK, StatementOK, Untouched, SealOn
  <1>. QED  BY <1>1, <1>3, <1>4, <1>5, <1>6 DEF Form, PhisOK

LEMMA SealNextForm ==
  ASSUME Sound, Sound', Form, SealNext
  PROVE  Form'
  <1>01. PICK b : b = Top.block
    OBVIOUS
  <1>02. PICK name \in Top.rest :
          /\ block' = ListedIn(block, b, block[b].incomplete_phis[name])
          /\ stack' = <<OperandsFrame(block[b].incomplete_phis[name], name,
                                      block[b].predecessors, 0),
                        SealFrame(b, Top.rest \ {name})>> \o Tail(stack)
    BY <1>01 DEF SealNext, Replace, ListedIn
  <1>03. PICK p, n : p = block[b].incomplete_phis[name] /\ n = -p
    OBVIOUS
  <1>04. PICK x, y : /\ x = OperandsFrame(p, name, block[b].predecessors, 0)
                     /\ y = SealFrame(b, Top.rest \ {name})
    OBVIOUS
  <1>1. /\ stack # <<>> /\ Top.fn = "seal" /\ phi' = phi /\ ret = Nothing /\ ret' = ret
        /\ bb' = bb /\ open' = open
    BY DEF SealNext, Calling, AST
  <1>2. /\ b \in DOMAIN block /\ b \in Nat /\ Top.rest \in SUBSET Vars /\ name \in Vars
        /\ name \in DOMAIN block[b].incomplete_phis
        /\ block[b].predecessors \in SUBSET Nat
    BY <1>1, <1>01, TopFrame, BlockTypes
  <1>3. p \in PhisOf(phi) /\ p \in Int /\ n \in DOMAIN phi /\ p = -n
    BY <1>2, <1>03, BlockTypes, PhiIsValue DEF PhisOf, Sound, DataOK
  <1>4. /\ name \in DOMAIN block[b].ssa_map
        /\ phi[n].block = b
    BY <1>2, <1>03 DEF Form, FormOK
  <1>5. IsListed(block', block, b, p)
    BY <1>2, <1>3, <1>02, <1>03, ListedBlocks DEF Sound, DataOK
  <1>6. /\ x \in Frames /\ x.fn = "operands" /\ x.phi = p /\ x.name = name
        /\ x.rest = block[b].predecessors
        /\ y \in Frames /\ y.fn = "seal" /\ y.block = b /\ y.rest = Top.rest \ {name}
    BY <1>2, <1>3, <1>04, FrameMade DEF OperandsFrame, SealFrame
  <1>7. /\ DOMAIN stack = {1} /\ stack[1] = Top
        /\ \A c : SealOn(c) <=> c = b
        /\ \A k \in DOMAIN phi : ~InOperands(k) /\ ~Joining(k) /\ ~Awaited(k)
    BY <1>1, <1>01, SealAlone
  <1>8. DOMAIN stack' = {1, 2} /\ stack'[1] = x /\ stack'[2] = y
    <2>1. stack' = <<x, y>>
      <3>1. Tail(stack) = <<>>
        BY <1>1, SealAlone
      <3>2. <<x, y>> \in Seq(Frames)
        BY <1>6
      <3>3. stack' = <<x, y>> \o <<>>
        BY <1>02, <1>03, <1>04, <3>1
      <3>. QED  BY <3>2, <3>3, ConcatEmptySeq
    <2>. QED  BY <2>1
  <1>9. \A c : SealOn(c)' <=> c = b
    BY <1>6, <1>8 DEF SealOn
  <1>10. /\ DOMAIN block' = DOMAIN block
         /\ \A c \in DOMAIN block :
              /\ block'[c].sealed = block[c].sealed
              /\ block'[c].predecessors = block[c].predecessors
              /\ block'[c].ssa_map = block[c].ssa_map
              /\ block'[c].incomplete_phis = block[c].incomplete_phis
              /\ block[c].phis \subseteq block'[c].phis
         /\ p \in block'[b].phis
    BY <1>2, <1>5 DEF IsListed
  <1>11. \A k \in DOMAIN phi : phi[k].block \in DOMAIN block
    BY DEF Sound, DataOK, PhisKnown, PhiKnown
  <1>12. ASSUME NEW k \in DOMAIN phi  PROVE PhiOK(k)'
    <2>1. PhiOK(k) /\ ~InOperands(k) /\ ~Joining(k) /\ ~Awaited(k) /\ phi[k].block \in DOMAIN block
      BY <1>7, <1>11 DEF Form, PhisOK
    <2>2. CASE k = n
      <3>1. InOperands(k)'
        BY <1>3, <1>6, <1>8, <2>2 DEF InOperands
      <3>2. Listed(k)'
        BY <1>1, <1>3, <1>4, <1>10, <2>2 DEF Listed
      <3>. QED  BY <3>1, <3>2 DEF PhiOK
    <2>3. CASE k # n /\ Incomplete(k)
      <3>1. PICK c, v : c = phi[k].block /\ v = phi[k].localVarName
        OBVIOUS
      <3>2. /\ ~block[c].sealed /\ v \in DOMAIN block[c].incomplete_phis
            /\ block[c].incomplete_phis[v] = -k
            /\ c = b => v \in Top.rest
        BY <1>1, <1>7, <1>01, <2>3, <3>1 DEF Incomplete
      <3>3. c = b => v # name
        BY <1>3, <1>03, <2>3, <3>2, BlockTypes
      <3>4. \A i \in DOMAIN stack' :
              stack'[i].fn = "seal" /\ stack'[i].block = c => v \in stack'[i].rest
        BY <1>6, <1>8, <3>2, <3>3
      <3>5. /\ ~block'[c].sealed /\ v \in DOMAIN block'[c].incomplete_phis
            /\ block'[c].incomplete_phis[v] = -k
        BY <1>10, <2>1, <3>1, <3>2
      <3>6. Incomplete(k)'
        BY <1>1, <3>1, <3>4, <3>5 DEF Incomplete
      <3>. QED  BY <3>6 DEF PhiOK
    <2>4. CASE ~Incomplete(k)
      <3>1. phi[k].valid => Filled(k) /\ Listed(k) /\ Cardinality(Others(-k)) > 1
        BY <2>1, <2>4 DEF PhiOK
      <3>2. Filled(k) => Filled(k)'
        BY <1>1, <1>7, <1>9, <1>10, <2>1 DEF Filled, Settled
      <3>3. Listed(k) => Listed(k)'
        BY <1>1, <1>10, <2>1 DEF Listed
      <3>4. Others(-k)' = Others(-k)
        BY <1>1 DEF Others, PhiAt
      <3>5. phi'[k].valid => Filled(k)' /\ Listed(k)' /\ (Cardinality(Others(-k)) > 1)'
        BY <1>1, <3>1, <3>2, <3>3, <3>4
      <3>. QED  BY <3>5 DEF PhiOK
    <2>. QED  BY <2>2, <2>3, <2>4
  <1>13. CallsOK'
    <2>1. Within'
      BY <1>1, <1>10, <1>11 DEF Form, CallsOK, Within
    <2>2. OperandsOK(1)'
      <3>1. n = -stack'[1].phi /\ ~Waiting(1)'
        BY <1>1, <1>3, <1>6, <1>8, <1>03 DEF Waiting
      <3>2. Settled(phi[n].block)'
        BY <1>1, <1>4, <1>9 DEF Settled
      <3>3. stack'[1].rest = block'[phi'[n].block].predecessors
        BY <1>1, <1>2, <1>4, <1>6, <1>8, <1>10
      <3>. QED  BY <3>1, <3>2, <3>3 DEF OperandsOK
    <2>3. \A i \in DOMAIN stack' : stack'[i].fn = "operands" => OperandsOK(i)'
      BY <1>6, <1>8, <2>2
    <2>4. NamesOK'
      BY <1>2, <1>4, <1>6, <1>8, <1>10 DEF NamesOK, Reading
    <2>. QED  BY <2>1, <2>3, <2>4 DEF CallsOK
  <1>14. FormOK'
    BY <1>1, <1>10 DEF Form, FormOK
  <1>15. ASSUME NEW c, Untouched(c)  PROVE Untouched(c)'
    <2>1. \A i \in DOMAIN stack' : FrameFree(stack'[i], c)
      BY <1>2, <1>6, <1>8, <1>15 DEF Untouched, FrameFree
    <2>. QED  BY <1>1, <1>10, <1>15, <2>1 DEF Untouched
  <1>16. OpensOK'
    <2>1. ASSUME NEW i \in DOMAIN open  PROVE StatementOK(open[i])'
      <3>1. PICK s : s = open[i]
        OBVIOUS
      <3>2. /\ Shaped(s) /\ \A c \in Unreached(s) : Untouched(c)
            /\ IsLoop(s) => s.t \in DOMAIN block /\ ~block[s.t].sealed /\ ~SealOn(s.t)
        BY <3>1 DEF Form, OpensOK, StatementOK, Sound, ASTOK, OpenKnown
      <3>3. IsLoop(s) => ~block'[s.t].sealed /\ ~SealOn(s.t)'
        BY <1>7, <1>9, <1>10, <3>2
      <3>. QED  BY <1>1, <1>15, <3>1, <3>2, <3>3 DEF StatementOK
    <2>. QED  BY <1>1, <2>1 DEF Form, OpensOK
  <1>. QED  BY <1>1, <1>12, <1>13, <1>14, <1>16 DEF Form, PhisOK

LEMMA SealDoneForm ==
  ASSUME Sound, Sound', Form, SealDone
  PROVE  Form'
  <1>01. PICK b : b = Top.block
    OBVIOUS
  <1>1. /\ stack # <<>> /\ Top.fn = "seal" /\ Top.rest = {} /\ block' = SealedIn(block, b)
        /\ stack' = Tail(stack) /\ phi' = phi /\ bb' = bb /\ open' = open
    BY <1>01 DEF SealDone, Calling, SealedIn, AST
  <1>2. b \in DOMAIN block
    BY <1>1, <1>01, TopFrame
  <1>3. IsSealed(block', block, b)
    BY <1>1, <1>2, SealedBlocks DEF Sound, DataOK
  <1>4. /\ DOMAIN stack = {1} /\ stack[1] = Top
        /\ \A c : SealOn(c) <=> c = b
        /\ \A k \in DOMAIN phi : ~InOperands(k) /\ ~Joining(k) /\ ~Awaited(k)
    BY <1>1, <1>01, SealAlone
  <1>5. DOMAIN stack' = {}
    <2>1. stack' = <<>>
      BY <1>1, SealAlone
    <2>. QED  BY <2>1
  <1>6. /\ DOMAIN block' = DOMAIN block
        /\ \A c \in DOMAIN block :
              /\ c # b => /\ block'[c].sealed = block[c].sealed
                          /\ block'[c].incomplete_phis = block[c].incomplete_phis
              /\ block'[c].predecessors = block[c].predecessors
              /\ block'[c].ssa_map = block[c].ssa_map
              /\ block'[c].phis = block[c].phis
        /\ block'[b].sealed /\ DOMAIN block'[b].incomplete_phis = {}
    <2>1. block'[b].sealed = TRUE /\ block'[b].incomplete_phis = <<>>
      BY <1>2, <1>3 DEF IsSealed
    <2>2. DOMAIN block'[b].incomplete_phis = {}
      BY <2>1
    <2>3. /\ DOMAIN block' = DOMAIN block
          /\ \A c \in DOMAIN block :
              /\ c # b => /\ block'[c].sealed = block[c].sealed
                          /\ block'[c].incomplete_phis = block[c].incomplete_phis
              /\ block'[c].predecessors = block[c].predecessors
              /\ block'[c].ssa_map = block[c].ssa_map
              /\ block'[c].phis = block[c].phis
      BY <1>3 DEF IsSealed
    <2>. QED  BY <2>1, <2>2, <2>3
  <1>7. ASSUME NEW k \in DOMAIN phi  PROVE PhiOK(k)'
    <2>1. /\ PhiOK(k) /\ ~InOperands(k) /\ ~Joining(k) /\ ~Awaited(k)
          /\ phi[k].block \in DOMAIN block
      BY <1>4 DEF Form, PhisOK, Sound, DataOK, PhisKnown, PhiKnown
    <2>2. CASE Incomplete(k)
      <3>1. phi[k].block # b
        BY <1>1, <1>4, <1>01, <2>2 DEF Incomplete
      <3>2. Incomplete(k)'
        BY <1>1, <1>5, <1>6, <2>1, <2>2, <3>1 DEF Incomplete
      <3>. QED  BY <3>2 DEF PhiOK
    <2>3. CASE ~Incomplete(k)
      <3>1. phi[k].valid => Filled(k) /\ Listed(k) /\ Cardinality(Others(-k)) > 1
        BY <2>1, <2>3 DEF PhiOK
      <3>2. Filled(k) => Filled(k)'
        BY <1>1, <1>4, <1>6, <2>1 DEF Filled, Settled
      <3>3. Listed(k) => Listed(k)'
        BY <1>1, <1>6, <2>1 DEF Listed
      <3>4. Others(-k)' = Others(-k)
        BY <1>1 DEF Others, PhiAt
      <3>5. phi'[k].valid => Filled(k)' /\ Listed(k)' /\ (Cardinality(Others(-k)) > 1)'
        BY <1>1, <3>1, <3>2, <3>3, <3>4
      <3>. QED  BY <3>5 DEF PhiOK
    <2>. QED  BY <2>2, <2>3
  <1>8. CallsOK'
    <2>1. Within'
      <3>1. \A k \in DOMAIN phi : phi[k].block \in DOMAIN block
        BY DEF Sound, DataOK, PhisKnown, PhiKnown
      <3>. QED  BY <1>1, <1>6, <3>1 DEF Form, CallsOK, Within
    <2>. QED  BY <1>5, <2>1 DEF CallsOK, NamesOK
  <1>9. FormOK'
    BY <1>1, <1>6 DEF Form, FormOK
  <1>10. ASSUME NEW c, Untouched(c)  PROVE Untouched(c)'
    BY <1>1, <1>5, <1>6, <1>10 DEF Untouched
  <1>11. OpensOK'
    <2>1. ASSUME NEW i \in DOMAIN open  PROVE StatementOK(open[i])'
      <3>1. PICK s : s = open[i]
        OBVIOUS
      <3>2. /\ Shaped(s) /\ \A c \in Unreached(s) : Untouched(c)
            /\ IsLoop(s) => s.t \in DOMAIN block /\ ~block[s.t].sealed /\ ~SealOn(s.t)
        BY <3>1 DEF Form, OpensOK, StatementOK, Sound, ASTOK, OpenKnown
      <3>3. IsLoop(s) => ~block'[s.t].sealed /\ ~SealOn(s.t)'
        BY <1>4, <1>5, <1>6, <3>2 DEF SealOn
      <3>. QED  BY <1>1, <1>10, <3>1, <3>2, <3>3 DEF StatementOK
    <2>. QED  BY <1>1, <2>1 DEF Form, OpensOK
  <1>. QED  BY <1>1, <1>7, <1>8, <1>9, <1>11 DEF Form, PhisOK

-----------------------------------------------------------------------------
(* The statements.  A statement makes no phi: it writes a variable, makes  *)
(* blocks, adds edges from bb, and starts to read or to seal.              *)

Grown ==
  /\ phi' = phi
  /\ \A b \in DOMAIN block :
       /\ b \in DOMAIN block'
       /\ block'[b].sealed = block[b].sealed
       /\ block'[b].incomplete_phis = block[b].incomplete_phis
       /\ block'[b].phis = block[b].phis
       /\ DOMAIN block[b].ssa_map \subseteq DOMAIN block'[b].ssa_map
       /\ block[b].predecessors \subseteq block'[b].predecessors
       /\ block'[b].predecessors \subseteq block[b].predecessors \cup {bb}
       /\ \/ block'[b].predecessors = block[b].predecessors
          \/ ~block[b].sealed
          \/ \A k \in DOMAIN phi : phi[k].block # b
  /\ \A b \in DOMAIN block' \ DOMAIN block :
       DOMAIN block'[b].incomplete_phis = {} /\ block'[b].predecessors \subseteq {bb}

Starts ==
  \A j \in DOMAIN stack' :
    /\ stack'[j].fn \in {"read", "use", "copy", "seal"}
    /\ stack'[j].fn = "read" => stack'[j].block = bb'
    /\ stack'[j].fn = "seal" =>
         /\ DOMAIN stack' = {j}
         /\ stack'[j].block \in DOMAIN block
         /\ stack'[j].rest = DOMAIN block[stack'[j].block].incomplete_phis

Disjoint(O) == \A i, j \in DOMAIN O : i # j => Own(O[i]) \cap Own(O[j]) = {}

LEMMA StatementForm ==
  ASSUME Sound, Sound', Form, stack = <<>>, Grown, Starts, OpensOK'
  PROVE  Form'
  <1>1. DOMAIN stack = {}
    OBVIOUS
  <1>2. \A k \in DOMAIN phi : phi[k].block \in DOMAIN block
    BY DEF Sound, DataOK, PhisKnown, PhiKnown
  <1>3. ASSUME NEW k \in DOMAIN phi  PROVE PhiOK(k)'
    <2>1. PhiOK(k) /\ ~InOperands(k) /\ ~Joining(k) /\ ~Awaited(k)
      BY <1>1 DEF Form, PhisOK, InOperands, Joining, Awaited
    <2>2. CASE Incomplete(k)
      <3>1. PICK c, v : c = phi[k].block /\ v = phi[k].localVarName
        OBVIOUS
      <3>2. /\ ~block[c].sealed /\ v \in DOMAIN block[c].incomplete_phis
            /\ block[c].incomplete_phis[v] = -k
        BY <2>2, <3>1 DEF Incomplete
      <3>3. /\ ~block'[c].sealed /\ v \in DOMAIN block'[c].incomplete_phis
            /\ block'[c].incomplete_phis[v] = -k
            /\ phi'[k].block = c /\ phi'[k].localVarName = v
        BY <1>2, <3>1, <3>2 DEF Grown
      <3>4. \A j \in DOMAIN stack' :
              stack'[j].fn = "seal" /\ stack'[j].block = c => v \in stack'[j].rest
        BY <3>2 DEF Starts
      <3>5. Incomplete(k)'
        BY <3>3, <3>4 DEF Incomplete
      <3>. QED  BY <3>5 DEF PhiOK
    <2>3. CASE ~Incomplete(k)
      <3>1. phi[k].valid => Filled(k) /\ Listed(k) /\ Cardinality(Others(-k)) > 1
        BY <2>1, <2>3 DEF PhiOK
      <3>2. Filled(k) => Filled(k)'
        BY <1>1, <1>2 DEF Filled, Settled, SealOn, Grown
      <3>3. Listed(k) => Listed(k)'
        BY <1>2 DEF Listed, Grown
      <3>4. Others(-k)' = Others(-k) /\ phi' = phi
        BY DEF Others, PhiAt, Grown
      <3>5. phi'[k].valid => Filled(k)' /\ Listed(k)' /\ (Cardinality(Others(-k)) > 1)'
        BY <3>1, <3>2, <3>3, <3>4
      <3>. QED  BY <3>5 DEF PhiOK
    <2>. QED  BY <2>2, <2>3
  <1>4. PhisOK'
    BY <1>3 DEF PhisOK, Grown
  <1>5. CallsOK'
    <2>1. Within'
      BY <1>2 DEF Form, CallsOK, Within, Grown
    <2>2. \A j \in DOMAIN stack' : stack'[j].fn # "operands"
      BY DEF Starts
    <2>3. NamesOK'
      BY DEF NamesOK, Starts, Reading
    <2>. QED  BY <2>1, <2>2, <2>3 DEF CallsOK
  <1>6. FormOK'
    <2>. SUFFICES ASSUME NEW b \in DOMAIN block', NEW name \in DOMAIN block'[b].incomplete_phis
         PROVE  /\ name \in DOMAIN block'[b].ssa_map
                /\ phi'[-block'[b].incomplete_phis[name]].block = b
      BY DEF FormOK
    <2>1. b \in DOMAIN block
      BY DEF Grown
    <2>. QED  BY <2>1 DEF Grown, Form, FormOK
  <1>. QED  BY <1>4, <1>5, <1>6 DEF Form

LEMMA StatementUntouched ==
  ASSUME Sound, Sound', Grown, Starts, NEW b, b # bb',
         Untouched(b) \/ b \notin DOMAIN block
  PROVE  Untouched(b)'
  <1>1. bb \in DOMAIN block /\ (\A k \in DOMAIN phi : phi[k].block \in DOMAIN block)
    BY DEF Sound, ASTOK, DataOK, PhisKnown, PhiKnown
  <1>2. b # bb /\ \A c \in DOMAIN block : b \notin block[c].predecessors
    BY <1>1, BlockTypes DEF Untouched
  <1>3. \A c \in DOMAIN block' : b \notin block'[c].predecessors
    BY <1>2 DEF Grown
  <1>4. \A k \in DOMAIN phi' : phi'[k].block # b
    BY <1>1 DEF Grown, Untouched
  <1>5. \A j \in DOMAIN stack' : FrameFree(stack'[j], b)
    BY DEF Starts, FrameFree
  <1>. QED  BY <1>3, <1>4, <1>5 DEF Untouched

LEMMA OwnKnown ==
  ASSUME NEW s \in Opens, NEW B, OpenKnown(s, B)
  PROVE  Unreached(s) \subseteq Own(s) /\ Own(s) \subseteq DOMAIN B
  <1>1. Unreached(s) \subseteq DOMAIN B
    BY DEF Unreached, OpenKnown, IsLoop, Opens, Kinds
  <1>. QED  BY <1>1 DEF Own, OpenKnown

LEMMA StatementKept ==
  ASSUME Sound, Sound', Grown, Starts, NEW s \in Opens, OpenKnown(s, block), StatementOK(s),
         bb' \notin Unreached(s),
         IsLoop(s) => \A j \in DOMAIN stack' : stack'[j].fn = "seal" => stack'[j].block # s.t
  PROVE  StatementOK(s)'
  <1>1. \A b \in Unreached(s) : Untouched(b)'
    BY StatementUntouched DEF StatementOK
  <1>2. IsLoop(s) => ~block'[s.t].sealed /\ ~SealOn(s.t)'
    BY DEF StatementOK, Grown, SealOn, OpenKnown
  <1>. QED  BY <1>1, <1>2 DEF StatementOK

(* The statements a step leaves open.                                      *)
LEMMA OpenParts ==
  ASSUME Sound, Form
  PROVE  /\ Disjoint(open)
         /\ \A i \in DOMAIN open :
              /\ open[i] \in Opens /\ OpenKnown(open[i], block) /\ StatementOK(open[i])
              /\ Unreached(open[i]) \subseteq Own(open[i]) /\ Own(open[i]) \subseteq DOMAIN block
              /\ bb \notin Unreached(open[i])
  <1>1. \A i \in DOMAIN open :
          open[i] \in Opens /\ OpenKnown(open[i], block) /\ StatementOK(open[i])
    BY DEF Sound, ASTOK, Form, OpensOK
  <1>2. \A i \in DOMAIN open : bb \notin Unreached(open[i])
    BY <1>1 DEF StatementOK, Untouched
  <1>. QED  BY <1>1, <1>2, OwnKnown DEF Form, OpensOK, Disjoint

LEMMA TailParts ==
  ASSUME Sound, Form, open # <<>>, NEW s, s = Head(open)
  PROVE  /\ s \in Opens /\ OpenKnown(s, block) /\ StatementOK(s)
         /\ Unreached(s) \subseteq Own(s) /\ Own(s) \subseteq DOMAIN block
         /\ Tail(open) \in Seq(Opens) /\ Disjoint(Tail(open))
         /\ \A i \in DOMAIN Tail(open) :
              /\ Tail(open)[i] \in Opens /\ OpenKnown(Tail(open)[i], block)
              /\ StatementOK(Tail(open)[i])
              /\ Unreached(Tail(open)[i]) \subseteq Own(Tail(open)[i])
              /\ Own(Tail(open)[i]) \cap Own(s) = {}
  <1>1. open \in Seq(Opens)
    BY DEF Sound, ASTOK
  <1>2. PICK R : R = Tail(open)
    OBVIOUS
  <1>3. /\ R \in Seq(Opens) /\ s = open[1] /\ 1 \in DOMAIN open
        /\ \A i \in DOMAIN R : i \in Int /\ i >= 1 /\ i + 1 \in DOMAIN open /\ R[i] = open[i + 1]
    BY <1>1, <1>2
  <1>4. Disjoint(R)
    <2>. SUFFICES ASSUME NEW i \in DOMAIN R, NEW j \in DOMAIN R, i # j
         PROVE  Own(R[i]) \cap Own(R[j]) = {}
      BY DEF Disjoint
    <2>1. /\ i + 1 \in DOMAIN open /\ j + 1 \in DOMAIN open /\ i + 1 # j + 1
          /\ R[i] = open[i + 1] /\ R[j] = open[j + 1]
      BY <1>3
    <2>2. Disjoint(open)
      BY OpenParts
    <2>. QED  BY <2>1, <2>2, Zenon DEF Disjoint
  <1>5. \A i \in DOMAIN R :
          /\ R[i] \in Opens /\ OpenKnown(R[i], block) /\ StatementOK(R[i])
          /\ Unreached(R[i]) \subseteq Own(R[i])
          /\ Own(R[i]) \cap Own(s) = {}
    BY <1>3, OpenParts DEF Disjoint
  <1>6. /\ s \in Opens /\ OpenKnown(s, block) /\ StatementOK(s)
        /\ Unreached(s) \subseteq Own(s) /\ Own(s) \subseteq DOMAIN block
    BY <1>3, OpenParts
  <1>. QED  BY <1>2, <1>3, <1>4, <1>5, <1>6

LEMMA DisjointPush ==
  ASSUME NEW R \in Seq(Opens), NEW o \in Opens, Disjoint(R),
         \A i \in DOMAIN R : Own(R[i]) \cap Own(o) = {}
  PROVE  /\ Disjoint(<<o>> \o R)
         /\ \A i \in DOMAIN (<<o>> \o R) :
              (<<o>> \o R)[i] = o \/ \E j \in DOMAIN R : (<<o>> \o R)[i] = R[j]
  <1>1. PICK T : T = <<o>> \o R
    OBVIOUS
  <1>2. \A i \in DOMAIN T : (i = 1 /\ T[i] = o) \/ (i > 1 /\ i - 1 \in DOMAIN R /\ T[i] = R[i - 1])
    BY <1>1
  <1>3. \A i \in DOMAIN T : i \in Int
    BY <1>1, LenProperties
  <1>4. Disjoint(T)
    BY <1>2, <1>3 DEF Disjoint
  <1>5. \A i \in DOMAIN T : T[i] = o \/ \E j \in DOMAIN R : T[i] = R[j]
    BY <1>2
  <1>. QED  BY <1>1, <1>4, <1>5

LEMMA OpensMade ==
  ASSUME NEW R, open' = R, Disjoint(R),
         \A i \in DOMAIN R : \E s : s = R[i] /\ StatementOK(s)'
  PROVE  OpensOK'
  <1>1. ASSUME NEW i \in DOMAIN open'  PROVE StatementOK(open[i])'
    <2>1. PICK s : s = open'[i] /\ StatementOK(s)'
      BY <1>1
    <2>. QED  BY <2>1
  <1>2. (\A i, j \in DOMAIN open : i # j => Own(open[i]) \cap Own(open[j]) = {})'
    BY DEF Disjoint
  <1>. QED  BY <1>1, <1>2 DEF OpensOK

(* A statement that opens and closes none.                                 *)
LEMMA SameOpen ==
  ASSUME Sound, Sound', Form, stack = <<>>, Grown, Starts, open' = open,
         \A j \in DOMAIN stack' : stack'[j].fn # "seal",
         bb' = bb \/ bb' \notin DOMAIN block
  PROVE  Form'
  <1>1. PICK R : R = open
    OBVIOUS
  <1>2. ASSUME NEW i \in DOMAIN R  PROVE \E s : s = R[i] /\ StatementOK(s)'
    <2>1. PICK s : s = R[i]
      OBVIOUS
    <2>2. /\ s \in Opens /\ OpenKnown(s, block) /\ StatementOK(s) /\ bb' \notin Unreached(s)
      BY <1>1, <2>1, OpenParts
    <2>3. StatementOK(s)'
      BY <2>2, StatementKept
    <2>. QED  BY <2>1, <2>3
  <1>3. open' = R /\ Disjoint(R)
    BY <1>1, OpenParts
  <1>4. OpensOK'
    BY <1>2, <1>3, OpensMade
  <1>. QED  BY <1>4, StatementForm

(* The innermost statement is closed, and control goes on in its end.      *)
LEMMA TailOpen ==
  ASSUME Sound, Sound', Form, stack = <<>>, Grown, Starts,
         open # <<>>, NEW s, s = Head(open), open' = Tail(open), bb' \in Own(s),
         \A j \in DOMAIN stack' : stack'[j].fn = "seal" => stack'[j].block \in Own(s)
  PROVE  Form'
  <1>1. PICK R : R = Tail(open)
    OBVIOUS
  <1>2. ASSUME NEW i \in DOMAIN R  PROVE \E o : o = R[i] /\ StatementOK(o)'
    <2>1. PICK o : o = R[i]
      OBVIOUS
    <2>2. /\ o \in Opens /\ OpenKnown(o, block) /\ StatementOK(o)
          /\ Own(o) \cap Own(s) = {} /\ Unreached(o) \subseteq Own(o)
      BY <1>1, <2>1, TailParts
    <2>3. bb' \notin Unreached(o) /\ (IsLoop(o) => o.t \notin Own(s))
      BY <2>2 DEF Own
    <2>4. StatementOK(o)'
      BY <2>2, <2>3, StatementKept
    <2>. QED  BY <2>1, <2>4
  <1>3. open' = R /\ Disjoint(R)
    BY <1>1, TailParts
  <1>4. OpensOK'
    BY <1>2, <1>3, OpensMade
  <1>. QED  BY <1>4, StatementForm

(* The innermost statement goes on in one of its blocks.                   *)
LEMMA HeadOpened ==
  ASSUME Sound, Sound', Form, stack = <<>>, Grown, Starts, DOMAIN stack' = {},
         open # <<>>, NEW s, s = Head(open), NEW o \in Opens, open' = <<o>> \o Tail(open),
         o.t = s.t, Unreached(o) \subseteq Unreached(s), Shaped(o), IsLoop(o) => IsLoop(s),
         bb' \in Own(s), bb' \notin Unreached(o)
  PROVE  Form'
  <1>1. PICK R : R = Tail(open)
    OBVIOUS
  <1>2. /\ R \in Seq(Opens) /\ Disjoint(R)
        /\ s \in Opens /\ OpenKnown(s, block) /\ StatementOK(s)
        /\ \A i \in DOMAIN R :
              /\ R[i] \in Opens /\ OpenKnown(R[i], block) /\ StatementOK(R[i])
              /\ Unreached(R[i]) \subseteq Own(R[i])
              /\ Own(R[i]) \cap Own(s) = {}
    BY <1>1, TailParts
  <1>3. Own(o) \subseteq Own(s)
    BY DEF Own
  <1>4. /\ Disjoint(<<o>> \o R)
        /\ \A i \in DOMAIN (<<o>> \o R) :
              (<<o>> \o R)[i] = o \/ \E j \in DOMAIN R : (<<o>> \o R)[i] = R[j]
    <2>1. \A i \in DOMAIN R : Own(R[i]) \cap Own(o) = {}
      BY <1>2, <1>3
    <2>. QED  BY <1>2, <2>1, DisjointPush
  <1>5. StatementOK(o)'
    <2>1. \A b \in Unreached(o) : Untouched(b)'
      BY <1>2, StatementUntouched DEF StatementOK
    <2>2. IsLoop(o) => ~block'[o.t].sealed /\ ~SealOn(o.t)'
      BY <1>2 DEF StatementOK, OpenKnown, Grown, SealOn
    <2>. QED  BY <2>1, <2>2 DEF StatementOK
  <1>6. ASSUME NEW i \in DOMAIN R  PROVE \E r : r = R[i] /\ StatementOK(r)'
    <2>1. PICK r : r = R[i]
      OBVIOUS
    <2>2. /\ r \in Opens /\ OpenKnown(r, block) /\ StatementOK(r)
          /\ Own(r) \cap Own(s) = {} /\ Unreached(r) \subseteq Own(r)
      BY <1>2, <2>1
    <2>3. bb' \notin Unreached(r) /\ \A j \in DOMAIN stack' : stack'[j].fn # "seal"
      BY <2>2
    <2>4. StatementOK(r)'
      BY <2>2, <2>3, StatementKept
    <2>. QED  BY <2>1, <2>4
  <1>7. PICK T : T = <<o>> \o R
    OBVIOUS
  <1>8. \A i \in DOMAIN T : \E r : r = T[i] /\ StatementOK(r)'
    BY <1>4, <1>5, <1>6, <1>7
  <1>9. OpensOK'
    <2>1. open' = T /\ Disjoint(T)
      BY <1>1, <1>4, <1>7
    <2>. QED  BY <1>8, <2>1, OpensMade
  <1>. QED  BY <1>9, StatementForm

(* A statement is opened, with blocks of its own.                          *)
LEMMA MoreOpen ==
  ASSUME Sound, Sound', Form, stack = <<>>, Grown, Starts, DOMAIN stack' = {}, bb' = bb,
         NEW o \in Opens, open' = <<o>> \o open,
         Own(o) \cap DOMAIN block = {}, Unreached(o) \subseteq Own(o), Shaped(o),
         IsLoop(o) => ~block'[o.t].sealed
  PROVE  Form'
  <1>1. PICK R : R = open
    OBVIOUS
  <1>2. R \in Seq(Opens) /\ Disjoint(R)
    BY <1>1, OpenParts DEF Sound, ASTOK
  <1>3. \A i \in DOMAIN R :
          /\ R[i] \in Opens /\ OpenKnown(R[i], block) /\ StatementOK(R[i])
          /\ Own(R[i]) \subseteq DOMAIN block
          /\ bb \notin Unreached(R[i])
    BY <1>1, OpenParts
  <1>4. /\ Disjoint(<<o>> \o R)
        /\ \A i \in DOMAIN (<<o>> \o R) :
              (<<o>> \o R)[i] = o \/ \E j \in DOMAIN R : (<<o>> \o R)[i] = R[j]
    <2>1. \A i \in DOMAIN R : Own(R[i]) \cap Own(o) = {}
      BY <1>3
    <2>. QED  BY <1>2, <2>1, DisjointPush
  <1>5. StatementOK(o)'
    <2>1. \A b \in Unreached(o) : b \notin DOMAIN block /\ b # bb'
      BY DEF Sound, ASTOK
    <2>2. \A b \in Unreached(o) : Untouched(b)'
      BY <2>1, StatementUntouched
    <2>3. \A b : ~SealOn(b)'
      BY DEF SealOn
    <2>. QED  BY <2>2, <2>3 DEF StatementOK
  <1>6. ASSUME NEW i \in DOMAIN R  PROVE \E r : r = R[i] /\ StatementOK(r)'
    <2>1. PICK r : r = R[i]
      OBVIOUS
    <2>2. r \in Opens /\ OpenKnown(r, block) /\ StatementOK(r) /\ bb' \notin Unreached(r)
      BY <1>3, <2>1
    <2>3. StatementOK(r)'
      BY <2>2, StatementKept
    <2>. QED  BY <2>1, <2>3
  <1>7. PICK T : T = <<o>> \o R
    OBVIOUS
  <1>8. \A i \in DOMAIN T : \E r : r = T[i] /\ StatementOK(r)'
    BY <1>4, <1>5, <1>6, <1>7
  <1>9. OpensOK'
    <2>1. open' = T /\ Disjoint(T)
      BY <1>1, <1>4, <1>7
    <2>. QED  BY <1>8, <2>1, OpensMade
  <1>. QED  BY <1>9, StatementForm

(* Edges only lead to blocks without a phi or to a loop that is not sealed. *)
LEMMA EdgesGrown ==
  ASSUME Sound, NEW T \in SUBSET DOMAIN block, phi' = phi, block' = Edges(block, bb, T),
         \A b \in T : Untouched(b) \/ ~block[b].sealed
  PROVE  Grown
  <1>1. bb \in DOMAIN block /\ T \in SUBSET Nat
    BY BlockTypes DEF Sound, ASTOK
  <1>2. HasEdges(block', block, bb, T)
    BY <1>1, EdgesBlocks DEF Sound, DataOK
  <1>3. DOMAIN block' = DOMAIN block
    BY <1>2 DEF HasEdges
  <1>4. ASSUME NEW b \in DOMAIN block
        PROVE  /\ block'[b].sealed = block[b].sealed
               /\ block'[b].incomplete_phis = block[b].incomplete_phis
               /\ block'[b].phis = block[b].phis
               /\ block'[b].ssa_map = block[b].ssa_map
               /\ b \in T => block'[b].predecessors = block[b].predecessors \cup {bb}
               /\ b \notin T => block'[b].predecessors = block[b].predecessors
    BY <1>2 DEF HasEdges
  <1>5. \A b \in T : ~block[b].sealed \/ \A k \in DOMAIN phi : phi[k].block # b
    BY DEF Untouched
  <1>. QED  BY <1>3, <1>4, <1>5 DEF Grown

LEMMA SameGrown ==
  ASSUME phi' = phi, block' = block
  PROVE  Grown
  BY DEF Grown

LEMMA JumpGrown ==
  ASSUME Sound, NEW target \in DOMAIN block, phi' = phi, block' = JumpTo(target),
         Untouched(target)
  PROVE  Grown
  <1>1. CASE afterJump
    BY <1>1, SameGrown DEF JumpTo
  <1>2. CASE ~afterJump
    <2>1. block' = Edges(block, bb, {target})
      BY <1>2 DEF JumpTo
    <2>. QED  BY <2>1, EdgesGrown
  <1>. QED  BY <1>1, <1>2

LEMMA StartsNothing ==
  ASSUME stack' = <<>>
  PROVE  DOMAIN stack' = {} /\ Starts
  BY DEF Starts

LEMMA StartsSealing ==
  ASSUME Sound, NEW b \in DOMAIN block, stack' = <<Sealing(b)>>
  PROVE  Starts /\ \A j \in DOMAIN stack' : stack'[j].block = b
  <1>1. PICK x : x = Sealing(b)
    OBVIOUS
  <1>2. x.fn = "seal" /\ x.block = b /\ x.rest = DOMAIN block[b].incomplete_phis
    BY <1>1 DEF Sealing, SealFrame
  <1>3. DOMAIN stack' = {1} /\ stack'[1] = x
    BY <1>1
  <1>. QED  BY <1>2, <1>3 DEF Starts

LEMMA AssignForm ==
  ASSUME Sound, Sound', Form, NEW name \in Vars, Assign(name)
  PROVE  Form'
  <1>01. PICK ins : ins = [op |-> "def", name |-> name, value |-> defs']
    OBVIOUS
  <1>02. PICK M : M = Mapped(block, bb, name, defs')
    OBVIOUS
  <1>1. /\ stack = <<>> /\ defs < MaxDefs /\ defs' = defs + 1
        /\ block' = LongerIn(M, bb, ins)
        /\ phi' = phi /\ bb' = bb /\ open' = open /\ stack' = <<>>
    BY <1>01, <1>02 DEF Assign, Ready, LongerIn
  <1>2. bb \in DOMAIN block /\ defs' \in Int /\ block \in Seq(BlockRecords)
    BY <1>1, BoundsAssumption DEF Sound, ASTOK, DataOK
  <1>3. ins \in Instructions
    BY <1>2, <1>01 DEF Instructions
  <1>4. IsMapped(M, block, bb, name, defs')
    BY <1>2, <1>02, MappedBlocks
  <1>5. IsLonger(block', M, bb, ins)
    <2>1. M \in Seq(BlockRecords) /\ bb \in DOMAIN M
      BY <1>2, <1>4 DEF IsMapped
    <2>. QED  BY <1>1, <1>3, <2>1, LongerBlocks
  <1>6. /\ DOMAIN M = DOMAIN block
        /\ \A c \in DOMAIN block :
              /\ M[c].sealed = block[c].sealed /\ M[c].predecessors = block[c].predecessors
              /\ M[c].incomplete_phis = block[c].incomplete_phis /\ M[c].phis = block[c].phis
              /\ DOMAIN block[c].ssa_map \subseteq DOMAIN M[c].ssa_map
    <2>1. DOMAIN With(block[bb].ssa_map, name, defs') = {name} \cup DOMAIN block[bb].ssa_map
      BY WithMore
    <2>. QED  BY <1>2, <1>4, <2>1 DEF IsMapped
  <1>7. /\ DOMAIN block' = DOMAIN M
        /\ \A c \in DOMAIN M :
              /\ block'[c].sealed = M[c].sealed /\ block'[c].predecessors = M[c].predecessors
              /\ block'[c].incomplete_phis = M[c].incomplete_phis /\ block'[c].phis = M[c].phis
              /\ block'[c].ssa_map = M[c].ssa_map
    BY <1>5 DEF IsLonger
  <1>8. Grown
    BY <1>1, <1>6, <1>7 DEF Grown
  <1>9. Starts /\ DOMAIN stack' = {}
    BY <1>1, StartsNothing
  <1>. QED  BY <1>1, <1>8, <1>9, SameOpen

LEMMA ReadVariableForm ==
  ASSUME Sound, Sound', Form, NEW op \in {"use", "copy"}, NEW name \in Vars, NEW to \in Vars,
         ReadVariable(op, name, to)
  PROVE  Form'
  <1>01. PICK x, y : x = ReadFrame("read", bb, name) /\ y = [fn |-> op, name |-> name, to |-> to]
    OBVIOUS
  <1>1. /\ stack = <<>> /\ stack' = <<x, y>> /\ block' = block /\ phi' = phi /\ bb' = bb
        /\ open' = open
    BY <1>01 DEF ReadVariable, Ready
  <1>2. x.fn = "read" /\ x.block = bb /\ y.fn \in {"use", "copy"}
    BY <1>01 DEF ReadFrame
  <1>3. DOMAIN stack' = {1, 2} /\ stack'[1] = x /\ stack'[2] = y
    BY <1>1
  <1>4. Starts /\ \A j \in DOMAIN stack' : stack'[j].fn # "seal"
    BY <1>1, <1>2, <1>3 DEF Starts
  <1>5. Grown
    BY <1>1, SameGrown
  <1>. QED  BY <1>1, <1>4, <1>5, SameOpen

LEMMA OpenStatementForm ==
  ASSUME Sound, Sound', Form, NEW kind \in {"ifCond", "ifElseCond", "whileCond"},
         NEW N \in Seq(BlockRecords), Len(N) = 2 \/ Len(N) = 3,
         \A i \in DOMAIN N : N[i] \in {NewBlock(TRUE), NewBlock(FALSE)},
         NEW judge \in Nat, NEW end \in Nat,
         kind = "ifCond" => end = Fresh(2),
         kind = "ifElseCond" => end = Fresh(3) /\ Len(N) = 3,
         kind = "whileCond" =>
           judge = Fresh(3) /\ end = Fresh(2) /\ Len(N) = 3 /\ N[1] = NewBlock(FALSE),
         OpenStatement(kind, N, judge, end)
  PROVE  Form'
  <1>01. PICK o : o = [kind |-> kind, t |-> Fresh(1), f |-> Fresh(2), judge |-> judge,
                       end |-> end, jumped |-> FALSE]
    OBVIOUS
  <1>1. /\ stack = <<>> /\ block' = block \o N /\ open' = <<o>> \o open
        /\ phi' = phi /\ bb' = bb /\ stack' = <<>>
    BY <1>01 DEF OpenStatement, Ready
  <1>2. /\ block \in Seq(BlockRecords) /\ DOMAIN block = 1 .. Len(block) /\ Len(block) \in Nat
        /\ Fresh(1) = Len(block) + 1 /\ Fresh(2) = Len(block) + 2 /\ Fresh(3) = Len(block) + 3
    BY LenProperties DEF Sound, DataOK, Fresh
  <1>3. /\ o \in Opens /\ o.kind = kind /\ o.t = Fresh(1) /\ o.f = Fresh(2)
        /\ o.judge = judge /\ o.end = end
    BY <1>2, <1>01 DEF Opens, Kinds
  <1>4. /\ \A b \in DOMAIN block : b \in DOMAIN block' /\ block'[b] = block[b]
        /\ \A b \in DOMAIN block' \ DOMAIN block :
             b - Len(block) \in DOMAIN N /\ block'[b] = N[b - Len(block)]
        /\ 1 \in DOMAIN N /\ Len(block) + 1 \in DOMAIN block'
    BY <1>1, <1>2, MoreBlocks, LenProperties
  <1>5. Grown
    <2>1. \A b \in DOMAIN block' \ DOMAIN block :
            DOMAIN block'[b].incomplete_phis = {} /\ block'[b].predecessors = {}
      BY <1>4 DEF NewBlock
    <2>. QED  BY <1>1, <1>4, <2>1 DEF Grown
  <1>6. Starts /\ DOMAIN stack' = {}
    BY <1>1, StartsNothing
  <1>7. /\ Unreached(o) \subseteq {Fresh(1), Fresh(2), Fresh(3)} /\ Shaped(o)
        /\ Own(o) \subseteq {Fresh(1), Fresh(2), Fresh(3)}
        /\ Unreached(o) \subseteq Own(o)
    <2>1. CASE kind = "ifCond"
      BY <1>2, <1>3, <2>1 DEF Unreached, Own, Shaped, IsLoop
    <2>2. CASE kind = "ifElseCond"
      BY <1>2, <1>3, <2>2 DEF Unreached, Own, Shaped, IsLoop
    <2>3. CASE kind = "whileCond"
      BY <1>2, <1>3, <2>3 DEF Unreached, Own, Shaped, IsLoop
    <2>. QED  BY <2>1, <2>2, <2>3
  <1>8. Own(o) \cap DOMAIN block = {}
    BY <1>2, <1>7
  <1>9. IsLoop(o) => ~block'[o.t].sealed
    <2>. SUFFICES ASSUME kind = "whileCond"  PROVE ~block'[Fresh(1)].sealed
      BY <1>3 DEF IsLoop
    <2>1. block'[Fresh(1)] = N[1]
      <3>1. Fresh(1) \in DOMAIN block' \ DOMAIN block /\ Fresh(1) - Len(block) = 1
        BY <1>2, <1>4
      <3>. QED  BY <1>4, <3>1
    <2>. QED  BY <2>1 DEF NewBlock
  <1>. QED  BY <1>1, <1>3, <1>5, <1>6, <1>7, <1>8, <1>9, MoreOpen

LEMMA OpenedForm ==
  ASSUME Sound, Sound', Form, If \/ IfElse \/ While
  PROVE  Form'
  <1>0. /\ Fresh(1) \in Nat /\ Fresh(2) \in Nat /\ Fresh(3) \in Nat /\ 0 \in Nat
    BY LenProperties DEF Fresh, Sound, DataOK
  <1>1. CASE If
    <2>1. PICK N : N = <<NewBlock(TRUE), NewBlock(TRUE)>>
      OBVIOUS
    <2>2. /\ N \in Seq(BlockRecords) /\ Len(N) = 2
          /\ \A i \in DOMAIN N : N[i] \in {NewBlock(TRUE), NewBlock(FALSE)}
      BY <2>1, NewBlocks
    <2>3. OpenStatement("ifCond", N, 0, Fresh(2))
      BY <1>1, <2>1 DEF If
    <2>. QED  BY <1>0, <2>2, <2>3, OpenStatementForm
  <1>2. CASE IfElse
    <2>1. PICK N : N = <<NewBlock(TRUE), NewBlock(TRUE), NewBlock(TRUE)>>
      OBVIOUS
    <2>2. /\ N \in Seq(BlockRecords) /\ Len(N) = 3
          /\ \A i \in DOMAIN N : N[i] \in {NewBlock(TRUE), NewBlock(FALSE)}
      BY <2>1, NewBlocks
    <2>3. OpenStatement("ifElseCond", N, 0, Fresh(3))
      BY <1>2, <2>1 DEF IfElse
    <2>. QED  BY <1>0, <2>2, <2>3, OpenStatementForm
  <1>3. CASE While
    <2>1. PICK N : N = <<NewBlock(FALSE), NewBlock(TRUE), NewBlock(TRUE)>>
      OBVIOUS
    <2>2. /\ N \in Seq(BlockRecords) /\ Len(N) = 3 /\ N[1] = NewBlock(FALSE)
          /\ \A i \in DOMAIN N : N[i] \in {NewBlock(TRUE), NewBlock(FALSE)}
      BY <2>1, NewBlocks
    <2>3. OpenStatement("whileCond", N, Fresh(3), Fresh(2))
      BY <1>3, <2>1 DEF While
    <2>. QED  BY <1>0, <2>2, <2>3, OpenStatementForm
  <1>. QED  BY <1>1, <1>2, <1>3

(* The targets of a condition.                                             *)
LEMMA Targets ==
  ASSUME Sound, Form, open # <<>>, NEW s, s = Head(open)
  PROVE  /\ InCondition => /\ Untouched(s.f)
                           /\ Untouched(s.t) \/ ~block[s.t].sealed
         /\ s.kind = "judge" => Untouched(s.f) /\ ~block[s.t].sealed
         /\ s.t \in DOMAIN block /\ s.f \in DOMAIN block /\ s.end \in DOMAIN block
         /\ IsLoop(s) => s.judge \in DOMAIN block
  <1>1. /\ StatementOK(s) /\ s \in Opens
        /\ s.t \in DOMAIN block /\ s.f \in DOMAIN block /\ s.end \in DOMAIN block
        /\ IsLoop(s) => s.judge \in DOMAIN block
    BY TailParts, HeadOpen
  <1>2. ASSUME s.kind = "ifCond"  PROVE Untouched(s.f) /\ Untouched(s.t)
    BY <1>1, <1>2 DEF StatementOK, Shaped, Unreached
  <1>3. ASSUME s.kind = "ifElseCond"  PROVE Untouched(s.f) /\ Untouched(s.t)
    BY <1>1, <1>3 DEF StatementOK, Shaped, Unreached
  <1>4. ASSUME s.kind = "whileCond"  PROVE Untouched(s.f) /\ Untouched(s.t)
    BY <1>1, <1>4 DEF StatementOK, Shaped, Unreached
  <1>5. ASSUME s.kind = "judge"  PROVE Untouched(s.f) /\ ~block[s.t].sealed
    BY <1>1, <1>5 DEF StatementOK, Shaped, Unreached, IsLoop
  <1>. QED  BY <1>1, <1>2, <1>3, <1>4, <1>5 DEF InCondition

LEMMA ShortCircuitForm ==
  ASSUME Sound, Sound', Form, InCondition,
         ShortCircuit(Head(open).t) \/ ShortCircuit(Head(open).f)
  PROVE  Form'
  <1>01. PICK s : s = Head(open)
    OBVIOUS
  <1>02. PICK target \in {s.t, s.f} : ShortCircuit(target)
    BY <1>01
  <1>03. PICK M, e : M = block \o <<NewBlock(TRUE)>> /\ e = Len(block) + 1
    OBVIOUS
  <1>1. /\ stack = <<>> /\ block' = Edges(M, bb, {target, e}) /\ bb' = e
        /\ phi' = phi /\ open' = open /\ stack' = <<>>
    <2>1. Append(block, NewBlock(TRUE)) = M
      BY <1>03, NewRecords, AppendIsConcat DEF Sound, DataOK
    <2>. QED  BY <1>02, <1>03, <2>1 DEF ShortCircuit, Ready, Fresh
  <1>2. target \in DOMAIN block /\ (Untouched(target) \/ ~block[target].sealed)
    BY <1>01, Targets DEF InCondition
  <1>3. PICK N : N = <<NewBlock(TRUE)>>
    OBVIOUS
  <1>4. N \in Seq(BlockRecords) /\ Len(N) = 1 /\ N[1] = NewBlock(TRUE) /\ M = block \o N
    BY <1>3, <1>03, NewBlocks
  <1>5. /\ block \in Seq(BlockRecords) /\ DOMAIN block = 1 .. Len(block) /\ Len(block) \in Nat
        /\ e \in Nat /\ e \notin DOMAIN block /\ e = Len(block) + 1
    BY <1>03, LenProperties DEF Sound, DataOK
  <1>6. /\ M \in Seq(BlockRecords) /\ DOMAIN M = DOMAIN block \cup {e}
        /\ \A b \in DOMAIN block : M[b] = block[b]
        /\ M[e] = NewBlock(TRUE)
    <2>1. /\ M \in Seq(BlockRecords) /\ Len(M) = e
          /\ \A b \in DOMAIN block : b \in DOMAIN M /\ M[b] = block[b]
          /\ \A b \in DOMAIN M \ DOMAIN block : M[b] = N[b - Len(block)]
      <3>0. block \in Seq(BlockRecords) /\ N \in Seq(BlockRecords)
        BY <1>4, <1>5
      <3>1. /\ block \o N \in Seq(BlockRecords) /\ Len(block \o N) = Len(block) + Len(N)
            /\ \A b \in DOMAIN block : b \in DOMAIN (block \o N) /\ (block \o N)[b] = block[b]
            /\ \A b \in DOMAIN (block \o N) \ DOMAIN block :
                 (block \o N)[b] = N[b - Len(block)]
        BY <3>0, MoreBlocks
      <3>. QED  BY <1>4, <1>5, <3>1
    <2>2. DOMAIN M = 1 .. e
      BY <2>1, LenProperties
    <2>3. M[e] = NewBlock(TRUE)
      <3>1. e - Len(block) = 1 /\ e \in DOMAIN M
        BY <1>5, <2>2
      <3>. QED  BY <1>4, <1>5, <2>1, <3>1
    <2>4. 1 .. e = 1 .. Len(block) \cup {e}
      BY <1>5
    <2>. QED  BY <1>5, <2>1, <2>2, <2>3, <2>4
  <1>7. HasEdges(block', M, bb, {target, e})
    <2>1. bb \in DOMAIN M /\ {target, e} \in SUBSET Nat
      BY <1>2, <1>5, <1>6 DEF Sound, ASTOK
    <2>. QED  BY <1>1, <1>6, <2>1, EdgesBlocks
  <1>8. /\ DOMAIN block' = DOMAIN block \cup {e}
        /\ \A b \in DOMAIN block :
              /\ block'[b].sealed = block[b].sealed
              /\ block'[b].incomplete_phis = block[b].incomplete_phis
              /\ block'[b].phis = block[b].phis
              /\ block'[b].ssa_map = block[b].ssa_map
              /\ b = target => block'[b].predecessors = block[b].predecessors \cup {bb}
              /\ b # target => block'[b].predecessors = block[b].predecessors
        /\ DOMAIN block'[e].incomplete_phis = {} /\ block'[e].predecessors = {bb}
    <2>1. DOMAIN NewBlock(TRUE).incomplete_phis = {} /\ NewBlock(TRUE).predecessors = {}
      BY DEF NewBlock
    <2>2. /\ DOMAIN block' = DOMAIN M
          /\ block'[e].incomplete_phis = M[e].incomplete_phis
          /\ block'[e].predecessors = M[e].predecessors \cup {bb}
      BY <1>6, <1>7 DEF HasEdges
    <2>3. \A b \in DOMAIN block :
              /\ block'[b].sealed = block[b].sealed
              /\ block'[b].incomplete_phis = block[b].incomplete_phis
              /\ block'[b].phis = block[b].phis
              /\ block'[b].ssa_map = block[b].ssa_map
              /\ b = target => block'[b].predecessors = block[b].predecessors \cup {bb}
              /\ b # target => block'[b].predecessors = block[b].predecessors
      <3>1. \A b \in DOMAIN block : b \in DOMAIN M /\ M[b] = block[b] /\ b # e
        BY <1>5, <1>6
      <3>. SUFFICES ASSUME NEW b \in DOMAIN block
           PROVE  /\ block'[b].sealed = block[b].sealed
                  /\ block'[b].incomplete_phis = block[b].incomplete_phis
                  /\ block'[b].phis = block[b].phis
                  /\ block'[b].ssa_map = block[b].ssa_map
                  /\ b = target => block'[b].predecessors = block[b].predecessors \cup {bb}
                  /\ b # target => block'[b].predecessors = block[b].predecessors
        OBVIOUS
      <3>2. /\ block'[b].sealed = M[b].sealed
            /\ block'[b].incomplete_phis = M[b].incomplete_phis
            /\ block'[b].phis = M[b].phis /\ block'[b].ssa_map = M[b].ssa_map
            /\ block'[b].predecessors = IF b \in {target, e} THEN M[b].predecessors \cup {bb}
                                        ELSE M[b].predecessors
        BY <1>7, <3>1, Zenon DEF HasEdges
      <3>. QED  BY <3>1, <3>2
    <2>. QED  BY <1>6, <2>1, <2>2, <2>3
  <1>9. Grown
    <2>1. Untouched(target) => \A k \in DOMAIN phi : phi[k].block # target
      BY DEF Untouched
    <2>. QED  BY <1>1, <1>2, <1>8, <2>1 DEF Grown
  <1>10. Starts /\ DOMAIN stack' = {}
    BY <1>1, StartsNothing
  <1>. QED  BY <1>1, <1>5, <1>9, <1>10, SameOpen

LEMMA OpenAgainParts ==
  ASSUME NEW s \in Opens, NEW kind \in Kinds, NEW jumped \in BOOLEAN, NEW o,
         o = [s EXCEPT !.kind = kind, !.jumped = jumped]
  PROVE  /\ o \in Opens /\ o.kind = kind /\ o.t = s.t /\ o.f = s.f
         /\ o.judge = s.judge /\ o.end = s.end
  BY DEF Opens

LEMMA BranchForm ==
  ASSUME Sound, Sound', Form, Branch
  PROVE  Form'
  <1>01. PICK s : s = Head(open)
    OBVIOUS
  <1>02. PICK K : K = CASE s.kind = "ifCond" -> "if"
                        [] s.kind = "ifElseCond" -> "then"
                        [] s.kind = "whileCond" -> "body"
    OBVIOUS
  <1>03. PICK o : o = [s EXCEPT !.kind = K]
    OBVIOUS
  <1>1. /\ stack = <<>> /\ open # <<>> /\ InCondition
        /\ s.kind \in {"ifCond", "ifElseCond", "whileCond"}
        /\ block' = Edges(block, bb, {s.t, s.f}) /\ bb' = s.t
        /\ open' = <<o>> \o Tail(open)
        /\ phi' = phi /\ stack' = <<>>
    BY <1>01, <1>02, <1>03 DEF Branch, Ready, InCondition
  <1>2. K \in Kinds
    BY <1>1, <1>02 DEF Kinds
  <1>3. s \in Opens /\ StatementOK(s) /\ s.jumped \in BOOLEAN
    <2>1. s \in Opens /\ StatementOK(s)
      BY <1>1, <1>01, TailParts
    <2>. QED  BY <2>1 DEF Opens
  <1>4. /\ o \in Opens /\ o.kind = K /\ o.t = s.t /\ o.f = s.f
        /\ o.judge = s.judge /\ o.end = s.end
    BY <1>2, <1>3, <1>03 DEF Opens
  <1>5. /\ Untouched(s.f) /\ (Untouched(s.t) \/ ~block[s.t].sealed)
        /\ {s.t, s.f} \in SUBSET DOMAIN block
    BY <1>1, <1>01, Targets
  <1>6. Grown
    BY <1>1, <1>5, EdgesGrown
  <1>7. Starts /\ DOMAIN stack' = {}
    BY <1>1, StartsNothing
  <1>8. /\ Unreached(o) \subseteq Unreached(s) /\ Shaped(o) /\ (IsLoop(o) => IsLoop(s))
        /\ s.t \in Own(s) /\ s.t \notin Unreached(o)
    <2>1. CASE s.kind = "ifCond"
      BY <1>3, <1>4, <1>02, <2>1 DEF Unreached, Own, Shaped, IsLoop, StatementOK
    <2>2. CASE s.kind = "ifElseCond"
      BY <1>3, <1>4, <1>02, <2>2 DEF Unreached, Own, Shaped, IsLoop, StatementOK
    <2>3. CASE s.kind = "whileCond"
      BY <1>3, <1>4, <1>02, <2>3 DEF Unreached, Own, Shaped, IsLoop, StatementOK
    <2>. QED  BY <1>1, <2>1, <2>2, <2>3
  <1>. QED  BY <1>1, <1>4, <1>6, <1>7, <1>8, <1>01, HeadOpened

LEMMA EndIfForm ==
  ASSUME Sound, Sound', Form, EndIf \/ EndElse
  PROVE  Form'
  <1>01. PICK s : s = Head(open)
    OBVIOUS
  <1>1. /\ stack = <<>> /\ open # <<>> /\ s.kind \in {"if", "else"}
        /\ block' = JumpTo(s.end) /\ bb' = s.end
        /\ open' = Tail(open) /\ phi' = phi /\ stack' = <<>>
    BY <1>01 DEF EndIf, EndElse, Closing
  <1>2. StatementOK(s) /\ s.end \in DOMAIN block
    BY <1>1, <1>01, TailParts, Targets
  <1>3. Untouched(s.end) /\ s.end \in Own(s)
    BY <1>1, <1>2 DEF StatementOK, Unreached, Own
  <1>4. Grown
    BY <1>1, <1>2, <1>3, JumpGrown
  <1>5. Starts /\ DOMAIN stack' = {}
    BY <1>1, StartsNothing
  <1>. QED  BY <1>1, <1>3, <1>4, <1>5, <1>01, TailOpen

LEMMA EndThenForm ==
  ASSUME Sound, Sound', Form, EndThen
  PROVE  Form'
  <1>01. PICK s : s = Head(open)
    OBVIOUS
  <1>02. PICK o : o = [s EXCEPT !.kind = "else", !.jumped = afterJump]
    OBVIOUS
  <1>1. /\ stack = <<>> /\ open # <<>> /\ s.kind = "then"
        /\ block' = JumpTo(s.end) /\ bb' = s.f
        /\ open' = <<o>> \o Tail(open) /\ phi' = phi /\ stack' = <<>>
    BY <1>01, <1>02 DEF EndThen, Closing
  <1>2. s \in Opens /\ StatementOK(s) /\ s.end \in DOMAIN block
    BY <1>1, <1>01, TailParts, Targets
  <1>3. /\ o \in Opens /\ o.kind = "else" /\ o.t = s.t /\ o.f = s.f
        /\ o.judge = s.judge /\ o.end = s.end
    <2>1. "else" \in Kinds /\ afterJump \in BOOLEAN
      BY DEF Kinds, Sound, ASTOK
    <2>. QED  BY <1>2, <1>02, <2>1 DEF Opens
  <1>4. Untouched(s.end)
    BY <1>1, <1>2 DEF StatementOK, Unreached
  <1>5. Grown
    BY <1>1, <1>2, <1>4, JumpGrown
  <1>6. Starts /\ DOMAIN stack' = {}
    BY <1>1, StartsNothing
  <1>7. /\ Unreached(o) \subseteq Unreached(s) /\ Shaped(o) /\ (IsLoop(o) => IsLoop(s))
        /\ s.f \in Own(s) /\ s.f \notin Unreached(o)
    BY <1>1, <1>2, <1>3 DEF Unreached, Own, Shaped, IsLoop, StatementOK
  <1>. QED  BY <1>1, <1>3, <1>5, <1>6, <1>7, <1>01, HeadOpened

LEMMA EndBodyForm ==
  ASSUME Sound, Sound', Form, EndBody
  PROVE  Form'
  <1>01. PICK s : s = Head(open)
    OBVIOUS
  <1>02. PICK o : o = [s EXCEPT !.kind = "judge"]
    OBVIOUS
  <1>1. /\ stack = <<>> /\ open # <<>> /\ s.kind = "body" /\ block' = JumpTo(s.judge)
        /\ \/ bb' = s.judge /\ open' = <<o>> \o Tail(open) /\ stack' = <<>>
           \/ bb' = s.end /\ open' = Tail(open) /\ stack' = <<Sealing(s.t)>>
        /\ phi' = phi
    BY <1>01, <1>02 DEF EndBody, Closing
  <1>2. /\ s \in Opens /\ StatementOK(s) /\ IsLoop(s)
        /\ s.end \in DOMAIN block /\ s.judge \in DOMAIN block /\ s.t \in DOMAIN block
    BY <1>1, <1>01, TailParts, Targets DEF IsLoop
  <1>3. Untouched(s.judge) /\ s.judge \in Own(s) /\ s.end \in Own(s) /\ s.t \in Own(s)
    BY <1>1, <1>2 DEF StatementOK, Unreached, Own
  <1>4. Grown
    BY <1>1, <1>2, <1>3, JumpGrown
  <1>5. CASE bb' = s.judge /\ open' = <<o>> \o Tail(open) /\ stack' = <<>>
    <2>1. /\ o \in Opens /\ o.kind = "judge" /\ o.t = s.t /\ o.f = s.f
          /\ o.judge = s.judge /\ o.end = s.end
      BY <1>2, <1>02 DEF Opens, Kinds
    <2>2. Starts /\ DOMAIN stack' = {}
      BY <1>5, StartsNothing
    <2>3. /\ Unreached(o) \subseteq Unreached(s) /\ Shaped(o) /\ s.judge \notin Unreached(o)
      BY <1>1, <1>2, <2>1 DEF Unreached, Shaped, StatementOK
    <2>. QED  BY <1>1, <1>2, <1>3, <1>4, <1>5, <1>01, <2>1, <2>2, <2>3, HeadOpened
  <1>6. CASE bb' = s.end /\ open' = Tail(open) /\ stack' = <<Sealing(s.t)>>
    <2>1. Starts /\ \A j \in DOMAIN stack' : stack'[j].block = s.t
      BY <1>2, <1>6, StartsSealing
    <2>. QED  BY <1>1, <1>3, <1>4, <1>6, <1>01, <2>1, TailOpen
  <1>. QED  BY <1>1, <1>5, <1>6

LEMMA EndWhileForm ==
  ASSUME Sound, Sound', Form, EndWhile
  PROVE  Form'
  <1>01. PICK s : s = Head(open)
    OBVIOUS
  <1>1. /\ stack = <<>> /\ open # <<>> /\ s.kind = "judge"
        /\ block' = Edges(block, bb, {s.t, s.f}) /\ bb' = s.end
        /\ open' = Tail(open) /\ stack' = <<Sealing(s.t)>> /\ phi' = phi
    BY <1>01 DEF EndWhile, Closing
  <1>2. /\ Untouched(s.f) /\ ~block[s.t].sealed
        /\ s.t \in DOMAIN block /\ s.f \in DOMAIN block /\ s.end \in DOMAIN block
    BY <1>1, <1>01, Targets
  <1>3. s.end \in Own(s) /\ s.t \in Own(s)
    BY <1>1 DEF Unreached, Own, IsLoop
  <1>4. Grown
    BY <1>1, <1>2, EdgesGrown
  <1>5. Starts /\ \A j \in DOMAIN stack' : stack'[j].block = s.t
    BY <1>1, <1>2, StartsSealing
  <1>. QED  BY <1>1, <1>3, <1>4, <1>5, <1>01, TailOpen

LEMMA BreakForm ==
  ASSUME Sound, Sound', Form, BreakOrContinue
  PROVE  Form'
  <1>1. /\ stack = <<>> /\ bb' = bb /\ open' = open /\ phi' = phi /\ stack' = <<>>
    BY DEF BreakOrContinue, Ready
  <1>2. PICK loop \in InnerLoop : \E target \in {loop.end, loop.judge} :
          block' = Edges(block, bb, {target})
    BY DEF BreakOrContinue
  <1>3. PICK i \in DOMAIN open : loop = open[i] /\ open[i].kind = "body"
    BY DEF InnerLoop
  <1>4. PICK target \in {loop.end, loop.judge} : block' = Edges(block, bb, {target})
    BY <1>2
  <1>5. Untouched(target) /\ target \in DOMAIN block
    <2>1. OpenKnown(loop, block) /\ StatementOK(loop)
      BY <1>3, OpenParts
    <2>2. loop.kind = "body"
      BY <1>3
    <2>. QED  BY <2>1, <2>2 DEF StatementOK, Unreached, OpenKnown, IsLoop
  <1>6. Grown
    BY <1>1, <1>4, <1>5, EdgesGrown
  <1>7. Starts /\ DOMAIN stack' = {}
    BY <1>1, StartsNothing
  <1>. QED  BY <1>1, <1>6, <1>7, SameOpen

LEMMA ReturnStatementForm ==
  ASSUME Sound, Sound', Form, ReturnStatement
  PROVE  Form'
  <1>1. /\ stack = <<>> /\ bb' = bb /\ open' = open /\ phi' = phi /\ stack' = <<>> /\ block' = block
    BY DEF ReturnStatement, Ready
  <1>2. Grown
    BY <1>1, SameGrown
  <1>3. Starts /\ DOMAIN stack' = {}
    BY <1>1, StartsNothing
  <1>. QED  BY <1>1, <1>2, <1>3, SameOpen

-----------------------------------------------------------------------------
(* The invariant and what it says between statements.                      *)

LEMMA InitForm == Init => Form
  <1>. SUFFICES ASSUME Init  PROVE Form
    OBVIOUS
  <1>1. /\ block = <<NewBlock(TRUE)>> /\ phi = <<>> /\ open = <<>> /\ stack = <<>>
    BY DEF Init
  <1>2. DOMAIN phi = {} /\ DOMAIN open = {} /\ DOMAIN stack = {}
    BY <1>1
  <1>3. \A b \in DOMAIN block : DOMAIN block[b].incomplete_phis = {}
    <2>1. \A b \in DOMAIN block : block[b] \in {NewBlock(TRUE), NewBlock(FALSE)}
      BY <1>1, NewBlocks
    <2>2. DOMAIN NewBlock(TRUE).incomplete_phis = {} /\ DOMAIN NewBlock(FALSE).incomplete_phis = {}
      BY DEF NewBlock
    <2>. QED  BY <2>1, <2>2
  <1>4. PhisOK /\ OpensOK
    BY <1>2 DEF PhisOK, OpensOK
  <1>5. CallsOK
    BY <1>2 DEF CallsOK, Within, NamesOK
  <1>6. FormOK
    BY <1>3 DEF FormOK
  <1>. QED  BY <1>4, <1>5, <1>6 DEF Form

LEMMA StepForm ==
  ASSUME Sound, Sound', Form, SsaStep
  PROVE  Form'
  <1>1. CASE ReadHit \/ ReadIncomplete \/ ReadSingle \/ ReadSingleReturn \/ ReadJoin \/ ReadJoinReturn
    BY <1>1, ReadHitForm, ReadIncompleteForm, ReadSingleForm, ReadSingleReturnForm, ReadJoinForm,
       ReadJoinReturnForm
  <1>2. CASE NextOperand \/ GotOperand \/ OperandsComplete
    BY <1>2, NextOperandForm, GotOperandForm, OperandsCompleteForm
  <1>3. CASE KeepPhi \/ RemovePhi \/ NextUser \/ GotUser \/ CascadeDone
    BY <1>3, KeepPhiForm, RemovePhiForm, NextUserForm, GotUserForm, CascadeDoneForm
  <1>4. CASE SealNext \/ SealReturn \/ SealDone
    BY <1>4, SealNextForm, SealReturnForm, SealDoneForm
  <1>5. CASE UseValue \/ CopyValue
    BY <1>5, UseValueForm, CopyValueForm
  <1>. QED  BY <1>1, <1>2, <1>3, <1>4, <1>5 DEF SsaStep

LEMMA AnyStatementForm ==
  ASSUME Sound, Sound', Form, Statement
  PROVE  Form'
  <1>1. CASE \E name \in Vars : Assign(name) \/ ReadVariable("use", name, name)
    BY <1>1, AssignForm, ReadVariableForm
  <1>2. CASE \E copy \in Copies : ReadVariable("copy", copy[1], copy[2])
    <2>1. PICK copy \in Copies : ReadVariable("copy", copy[1], copy[2])
      BY <1>2
    <2>2. copy[1] \in Vars /\ copy[2] \in Vars
      BY BoundsAssumption
    <2>. QED  BY <2>1, <2>2, ReadVariableForm
  <1>3. CASE If \/ IfElse \/ While
    BY <1>3, OpenedForm
  <1>4. CASE InCondition /\ (ShortCircuit(Head(open).t) \/ ShortCircuit(Head(open).f))
    BY <1>4, ShortCircuitForm
  <1>5. CASE Branch
    BY <1>5, BranchForm
  <1>6. CASE EndIf \/ EndElse
    BY <1>6, EndIfForm
  <1>7. CASE EndThen
    BY <1>7, EndThenForm
  <1>8. CASE EndBody
    BY <1>8, EndBodyForm
  <1>9. CASE EndWhile
    BY <1>9, EndWhileForm
  <1>10. CASE BreakOrContinue
    BY <1>10, BreakForm
  <1>11. CASE ReturnStatement
    BY <1>11, ReturnStatementForm
  <1>. QED  BY <1>1, <1>2, <1>3, <1>4, <1>5, <1>6, <1>7, <1>8, <1>9, <1>10, <1>11 DEF Statement

(* A phi that is live waits for its block to be sealed, or its operands    *)
(* are being asked for, or it has one for each predecessor of its block;   *)
(* if it is trivial it is about to be reconsidered; and the blocks of an   *)
(* open statement that control has not reached have no phi.                *)
THEOREM SpecForm == Spec => []Form
  <1>1. Sound /\ Sound' /\ Form /\ [Next]_vars => Form'
    <2>. SUFFICES ASSUME Sound, Sound', Form, [Next]_vars  PROVE Form'
      OBVIOUS
    <2>1. CASE Next
      BY <2>1, StepForm, AnyStatementForm DEF Next
    <2>2. CASE UNCHANGED vars
      <3>1. /\ block' = block /\ phi' = phi /\ stack' = stack /\ ret' = ret /\ bb' = bb /\ open' = open
        BY <2>2 DEF vars
      <3>2. PhisOK'
        <4>. SUFFICES ASSUME NEW k \in DOMAIN phi  PROVE PhiOK(k)'
          BY <3>1 DEF PhisOK
        <4>1. Incomplete(k)' = Incomplete(k)
          BY <3>1 DEF Incomplete
        <4>2. InOperands(k)' = InOperands(k) /\ Awaited(k)' = Awaited(k)
          BY <3>1 DEF InOperands, Awaited
        <4>3. Filled(k)' = Filled(k)
          BY <3>1 DEF Filled, Settled, SealOn
        <4>4. Listed(k)' = Listed(k)
          BY <3>1 DEF Listed
        <4>5. Joining(k)' = Joining(k)
          BY <3>1 DEF Joining
        <4>6. Others(-k)' = Others(-k)
          BY <3>1 DEF Others, PhiAt
        <4>. QED  BY <3>1, <4>1, <4>2, <4>3, <4>4, <4>5, <4>6 DEF Form, PhisOK, PhiOK
      <3>3. CallsOK'
        <4>1. Within' /\ NamesOK'
          BY <3>1 DEF Form, CallsOK, Within, NamesOK
        <4>2. ASSUME NEW i \in DOMAIN stack, stack[i].fn = "operands"  PROVE OperandsOK(i)'
          <5>1. OperandsOK(i)
            BY <4>2 DEF Form, CallsOK
          <5>. QED  BY <3>1, <5>1 DEF OperandsOK, Waiting, Settled, SealOn
        <4>. QED  BY <3>1, <4>1, <4>2 DEF CallsOK
      <3>4. FormOK'
        BY <3>1 DEF Form, FormOK
      <3>5. OpensOK'
        BY <3>1 DEF Form, OpensOK, StatementOK, Untouched, SealOn
      <3>. QED  BY <3>2, <3>3, <3>4, <3>5 DEF Form
    <2>. QED  BY <2>1, <2>2
  <1>. QED  BY <1>1, InitForm, SpecSound, PTL DEF Spec

LEMMA BetweenStatements ==
  ASSUME Sound, Form, stack = <<>>, NEW p \in Complete
  PROVE  /\ DOMAIN PhiAt(p).operands = block[PhiAt(p).block].predecessors
         /\ p \in block[PhiAt(p).block].phis
         /\ Cardinality(Others(p)) > 1
  <1>1. PICK k \in DOMAIN phi : p = -k
    BY DEF Complete, Live, Phis
  <1>2. -p = k /\ PhiAt(p) = phi[k] /\ phi[k].valid /\ block[phi[k].block].sealed
    <2>1. -p = k
      BY <1>1, BlockTypes
    <2>. QED  BY <2>1 DEF PhiAt, Complete, Live
  <1>3. DOMAIN stack = {}
    OBVIOUS
  <1>4. PhiOK(k) /\ ~Incomplete(k) /\ ~InOperands(k) /\ ~Joining(k) /\ ~Awaited(k)
    BY <1>2, <1>3 DEF Form, PhisOK, Incomplete, InOperands, Joining, Awaited
  <1>5. Filled(k) /\ Listed(k) /\ Cardinality(Others(-k)) > 1
    BY <1>2, <1>4 DEF PhiOK
  <1>. QED  BY <1>1, <1>2, <1>5 DEF Filled, Listed

(* Between statements a phi of a sealed block has an operand for each      *)
(* predecessor of its block, for every function.                           *)
THEOREM SpecOperandPerPredecessor == Spec => []OperandPerPredecessor
  <1>1. Sound /\ Form => OperandPerPredecessor
    BY BetweenStatements DEF OperandPerPredecessor
  <1>. QED  BY <1>1, SpecSound, SpecForm, PTL

(* Between statements no phi of a sealed block is trivial: removal         *)
(* reconsiders every phi that becomes so, for every function.              *)
THEOREM SpecNoTrivialPhi == Spec => []NoTrivialPhi
  <1>1. Sound /\ Form => NoTrivialPhi
    BY BetweenStatements DEF NoTrivialPhi
  <1>. QED  BY <1>1, SpecSound, SpecForm, PTL

(* Between statements a phi of a sealed block is in the phis of its block, *)
(* where phi elimination looks for it, for every function.                 *)
THEOREM SpecPhiListed == Spec => []PhiListed
  <1>1. Sound /\ Form => PhiListed
    BY BetweenStatements DEF PhiListed
  <1>. QED  BY <1>1, SpecSound, SpecForm, PTL
=============================================================================
