----------------------- MODULE SsaConstructionProofs -----------------------
(***************************************************************************)
(* Proofs about SsaConstruction, for every function: any variables, any    *)
(* nesting of statements, any number of blocks, phis and calls.            *)
(***************************************************************************)
EXTENDS SsaConstruction, SequenceTheorems, FiniteSetTheorems, TLAPS

-----------------------------------------------------------------------------
(* Types, of blocks B and phis P.                                          *)

Users == {"block", "phi", "ins"} \X Int \X Int

Maps(K) == UNION {[D -> Int] : D \in SUBSET K}

Instructions ==
  [op : {"def", "use"}, name : Vars, value : Int]
    \cup [op : {"copy"}, name : Vars, to : Vars, value : Int]

BlockRecords ==
  [predecessors : SUBSET Nat, successors : SUBSET Nat, sealed : BOOLEAN,
   ssa_map : Maps(Vars), incomplete_phis : Maps(Vars), phis : SUBSET Int,
   instructions : Seq(Instructions)]

PhiRecords ==
  [block : Nat, localVarName : Vars, operands : Maps(Nat), users : SUBSET Users,
   valid : BOOLEAN]

Frames ==
  [fn : {"read", "single", "join"}, block : Nat, name : Vars]
    \cup [fn : {"operands"}, phi : Int, name : Vars, rest : SUBSET Nat, pred : Nat]
    \cup [fn : {"remove"}, phi : Int]
    \cup [fn : {"cascade"}, same : Int, rest : SUBSET Int, use : Int]
    \cup [fn : {"seal"}, block : Nat, rest : SUBSET Vars]
    \cup [fn : {"use", "copy"}, name : Vars, to : Vars]

Kinds == {"ifCond", "if", "ifElseCond", "then", "else", "whileCond", "body", "judge"}

Opens == [kind : Kinds, t : Nat, f : Nat, judge : Nat, end : Nat, jumped : BOOLEAN]

-----------------------------------------------------------------------------
(* What is known: the values that are held are values there are, so that   *)
(* nobody holds a phi before it is made; blocks that are named exist.      *)

ValuesOf(P) == {v \in Int : -Len(P) <= v /\ v <= MaxDefs}
PhisOf(P) == {v \in Int : -Len(P) <= v /\ v < 0}

BlockKnown(r, P) ==
  /\ \A name \in DOMAIN r.ssa_map : r.ssa_map[name] \in ValuesOf(P)
  /\ \A name \in DOMAIN r.incomplete_phis : r.incomplete_phis[name] \in PhisOf(P)
  /\ \A i \in DOMAIN r.instructions : r.instructions[i].value \in ValuesOf(P) \cup {Nothing}

PhiKnown(r, B, P) ==
  /\ r.block \in DOMAIN B
  /\ \A b \in DOMAIN r.operands : r.operands[b] \in ValuesOf(P)

FrameKnown(fr, B, P) ==
  /\ fr.fn \in {"read", "single", "join", "seal"} => fr.block \in DOMAIN B
  /\ fr.fn \in {"operands", "remove"} => fr.phi \in PhisOf(P)
  /\ fr.fn = "cascade" => fr.same \in ValuesOf(P) /\ fr.rest \subseteq PhisOf(P)
  /\ fr.fn = "operands" => fr.rest \subseteq DOMAIN B
  /\ fr.fn = "seal" => fr.rest \subseteq DOMAIN B[fr.block].incomplete_phis

IsLoop(s) == s.kind \in {"whileCond", "body", "judge"}

OpenKnown(s, B) ==
  /\ {s.t, s.f, s.end} \subseteq DOMAIN B
  /\ IsLoop(s) => s.judge \in DOMAIN B

GraphKnown(B) == \A b \in DOMAIN B : B[b].predecessors \subseteq DOMAIN B

BlocksKnown(B, P) == \A b \in DOMAIN B : BlockKnown(B[b], P)
PhisKnown(B, P) == \A k \in DOMAIN P : PhiKnown(P[k], B, P)
FramesKnown(S, B, P) == \A i \in DOMAIN S : FrameKnown(S[i], B, P)

(* Whoever started the calls waits at the bottom of the stack.             *)
Bottom(S) == \A i \in DOMAIN S : S[i].fn \in {"seal", "use", "copy"} <=> i = Len(S)

-----------------------------------------------------------------------------
(* Every place that holds the live phi -k has its user among P[k].users.   *)

UsersOK(B, P) ==
  \A k \in DOMAIN P : P[k].valid =>
    /\ \A j \in DOMAIN P : P[j].valid =>
         \A b \in DOMAIN P[j].operands : P[j].operands[b] = -k => PhiUser(-j) \in P[k].users
    /\ \A b \in DOMAIN B :
         /\ \A name \in DOMAIN B[b].ssa_map :
              B[b].ssa_map[name] = -k => BlockUser(b) \in P[k].users
         /\ \A i \in DOMAIN B[b].instructions :
              B[b].instructions[i].value = -k => InsUser(b, i) \in P[k].users

-----------------------------------------------------------------------------
(* The stack.                                                              *)

LEMMA Popped ==
  ASSUME NEW S \in Seq(Frames), S # <<>>
  PROVE  /\ Tail(S) \in Seq(Frames)
         /\ Head(S) = S[1] /\ 1 \in DOMAIN S /\ Head(S) \in Frames
         /\ Len(Tail(S)) = Len(S) - 1
         /\ \A i \in DOMAIN Tail(S) : i + 1 \in DOMAIN S /\ Tail(S)[i] = S[i + 1]
  OBVIOUS

LEMMA Replaced ==
  ASSUME NEW S \in Seq(Frames), S # <<>>, NEW a \in Frames
  PROVE  /\ <<a>> \o Tail(S) \in Seq(Frames)
         /\ Len(<<a>> \o Tail(S)) = Len(S)
         /\ (<<a>> \o Tail(S))[1] = a
         /\ \A i \in 2 .. Len(S) : (<<a>> \o Tail(S))[i] = S[i]
  OBVIOUS

LEMMA Pushed ==
  ASSUME NEW S \in Seq(Frames), S # <<>>, NEW a \in Frames, NEW b \in Frames
  PROVE  /\ <<a, b>> \o Tail(S) \in Seq(Frames)
         /\ Len(<<a, b>> \o Tail(S)) = Len(S) + 1
         /\ (<<a, b>> \o Tail(S))[1] = a
         /\ (<<a, b>> \o Tail(S))[2] = b
         /\ \A i \in 3 .. Len(S) + 1 : (<<a, b>> \o Tail(S))[i] = S[i - 1]
  OBVIOUS

LEMMA FrameFields ==
  ASSUME NEW fr \in Frames
  PROVE  /\ fr.fn \in {"read", "single", "join"} => fr.block \in Nat /\ fr.name \in Vars
         /\ fr.fn = "operands" => /\ fr.phi \in Int /\ fr.name \in Vars
                                  /\ fr.rest \in SUBSET Nat /\ fr.pred \in Nat
         /\ fr.fn = "remove" => fr.phi \in Int
         /\ fr.fn = "cascade" => fr.same \in Int /\ fr.rest \in SUBSET Int /\ fr.use \in Int
         /\ fr.fn = "seal" => fr.block \in Nat /\ fr.rest \in SUBSET Vars
         /\ fr.fn \in {"use", "copy"} => fr.name \in Vars /\ fr.to \in Vars
  BY DEF Frames

LEMMA FrameMade ==
  /\ \A fn \in {"read", "single", "join"}, b \in Nat, name \in Vars :
       ReadFrame(fn, b, name) \in Frames
  /\ \A p \in Int, name \in Vars, rest \in SUBSET Nat, pred \in Nat :
       OperandsFrame(p, name, rest, pred) \in Frames
  /\ \A p \in Int : RemoveFrame(p) \in Frames
  /\ \A same \in Int, rest \in SUBSET Int, use \in Int : CascadeFrame(same, rest, use) \in Frames
  /\ \A b \in Nat, rest \in SUBSET Vars : SealFrame(b, rest) \in Frames
  BY DEF Frames, ReadFrame, OperandsFrame, RemoveFrame, CascadeFrame, SealFrame

-----------------------------------------------------------------------------
(* Maps and the operators on blocks and phis.                              *)

LEMMA WithMap ==
  ASSUME NEW K, NEW f \in Maps(K), NEW k \in K, NEW v \in Int
  PROVE  With(f, k, v) \in Maps(K)
  <1>. PICK D \in SUBSET K : f \in [D -> Int]
    BY DEF Maps
  <1>1. With(f, k, v) \in [{k} \cup D -> Int]
    BY DEF With
  <1>2. {k} \cup D \in SUBSET K
    OBVIOUS
  <1>. QED  BY <1>1, <1>2, Zenon DEF Maps

LEMMA WithValues ==
  ASSUME NEW f, NEW k, NEW v
  PROVE  /\ DOMAIN With(f, k, v) = {k} \cup DOMAIN f
         /\ With(f, k, v)[k] = v
         /\ \A x \in DOMAIN f : x # k => With(f, k, v)[x] = f[x]
  BY DEF With

LEMMA FunctionSeq ==
  ASSUME NEW n \in Nat, NEW T, NEW F \in [1 .. n -> T]
  PROVE  F \in Seq(T) /\ Len(F) = n
  OBVIOUS

LEMMA BlockFields ==
  ASSUME NEW r \in BlockRecords
  PROVE  /\ r.predecessors \in SUBSET Nat /\ r.successors \in SUBSET Nat
         /\ r.sealed \in BOOLEAN
         /\ r.ssa_map \in Maps(Vars) /\ r.incomplete_phis \in Maps(Vars)
         /\ r.phis \in SUBSET Int /\ r.instructions \in Seq(Instructions)
  BY DEF BlockRecords

LEMMA PhiFields ==
  ASSUME NEW r \in PhiRecords
  PROVE  /\ r.block \in Nat /\ r.localVarName \in Vars /\ r.operands \in Maps(Nat)
         /\ r.users \in SUBSET Users /\ r.valid \in BOOLEAN
  BY DEF PhiRecords

LEMMA NewRecords ==
  /\ \A s \in BOOLEAN : NewBlock(s) \in BlockRecords
  /\ \A name \in Vars, b \in Nat : NewPhi(name, b) \in PhiRecords
  /\ <<>> \in Maps(Vars) /\ <<>> \in Maps(Nat)
  <1>1. ASSUME NEW K  PROVE <<>> \in Maps(K)
    <2>1. <<>> \in [{} -> Int] /\ {} \in SUBSET K
      OBVIOUS
    <2>. QED  BY <2>1, Zenon DEF Maps
  <1>. QED  BY <1>1 DEF NewBlock, NewPhi, BlockRecords, PhiRecords

IsMapped(C, B, b, name, v) ==
  /\ C \in Seq(BlockRecords)
  /\ Len(C) = Len(B) /\ DOMAIN C = DOMAIN B
  /\ \A c \in DOMAIN B :
       /\ C[c].sealed = B[c].sealed
       /\ C[c].ssa_map = IF c = b THEN With(B[b].ssa_map, name, v) ELSE B[c].ssa_map
       /\ C[c].incomplete_phis = B[c].incomplete_phis
       /\ C[c].phis = B[c].phis /\ C[c].instructions = B[c].instructions
       /\ C[c].successors = B[c].successors
       /\ C[c].predecessors = B[c].predecessors

LEMMA MappedBlocks ==
  ASSUME NEW B \in Seq(BlockRecords), NEW b \in DOMAIN B, NEW name \in Vars, NEW v \in Int
  PROVE  IsMapped(Mapped(B, b, name, v), B, b, name, v)
  <1>. DEFINE r == [B[b] EXCEPT !.ssa_map = With(B[b].ssa_map, name, v)]
  <1>1. B[b] \in BlockRecords
    BY ElementOfSeq, LenProperties
  <1>2. With(B[b].ssa_map, name, v) \in Maps(Vars)
    BY <1>1, BlockFields, WithMap
  <1>3. /\ r \in BlockRecords /\ r.ssa_map = With(B[b].ssa_map, name, v)
        /\ r.sealed = B[b].sealed /\ r.incomplete_phis = B[b].incomplete_phis
        /\ r.phis = B[b].phis /\ r.instructions = B[b].instructions
        /\ r.successors = B[b].successors /\ r.predecessors = B[b].predecessors
    BY <1>1, <1>2 DEF BlockRecords
  <1>4. Mapped(B, b, name, v) = [B EXCEPT ![b] = r]
    BY DEF Mapped
  <1>. HIDE DEF r
  <1>5. /\ [B EXCEPT ![b] = r] \in Seq(BlockRecords)
        /\ Len([B EXCEPT ![b] = r]) = Len(B)
        /\ DOMAIN [B EXCEPT ![b] = r] = DOMAIN B
    BY <1>3, ExceptSeq
  <1>. QED  BY <1>3, <1>4, <1>5 DEF IsMapped

IsUsed(Q, P, v, u) ==
  /\ Q \in Seq(PhiRecords)
  /\ Len(Q) = Len(P) /\ DOMAIN Q = DOMAIN P
  /\ \A k \in DOMAIN P :
       /\ Q[k].block = P[k].block /\ Q[k].localVarName = P[k].localVarName
       /\ Q[k].operands = P[k].operands /\ Q[k].valid = P[k].valid
       /\ P[k].users \subseteq Q[k].users
  /\ v < 0 => u \in Q[-v].users

LEMMA UsedPhis ==
  ASSUME NEW P \in Seq(PhiRecords), NEW v \in Int, -Len(P) <= v, NEW u \in Users
  PROVE  IsUsed(Used(P, v, u), P, v, u)
  <1>1. CASE ~(v < 0)
    BY <1>1 DEF Used, IsPhi, IsUsed
  <1>2. CASE v < 0
    <2>. DEFINE k == -v
                r == [P[k] EXCEPT !.users = P[k].users \cup {u}]
    <2>1. k \in DOMAIN P /\ P[k] \in PhiRecords
      BY <1>2, ElementOfSeq, LenProperties
    <2>2. r \in PhiRecords /\ r.users = P[k].users \cup {u} /\ r.block = P[k].block
          /\ r.localVarName = P[k].localVarName /\ r.operands = P[k].operands
          /\ r.valid = P[k].valid
      BY <2>1 DEF PhiRecords
    <2>3. Used(P, v, u) = [P EXCEPT ![k] = r]
      BY <1>2 DEF Used, IsPhi
    <2>. HIDE DEF r
    <2>. QED  BY <2>1, <2>2, <2>3 DEF IsUsed
  <1>. QED  BY <1>1, <1>2

LEMMA SubstMap ==
  ASSUME NEW K, NEW f \in Maps(K), NEW p \in Int, NEW same \in Int
  PROVE  /\ Subst(f, p, same) \in Maps(K)
         /\ DOMAIN Subst(f, p, same) = DOMAIN f
         /\ \A x \in DOMAIN f : Subst(f, p, same)[x] = IF f[x] = p THEN same ELSE f[x]
  <1>. PICK D \in SUBSET K : f \in [D -> Int]
    BY DEF Maps
  <1>1. Subst(f, p, same) \in [D -> Int]
    BY DEF Subst
  <1>. QED  BY <1>1, Zenon DEF Maps, Subst

HasEdges(C, B, b, T) ==
  /\ C \in Seq(BlockRecords)
  /\ Len(C) = Len(B) /\ DOMAIN C = DOMAIN B
  /\ \A c \in DOMAIN B :
       /\ C[c].sealed = B[c].sealed /\ C[c].ssa_map = B[c].ssa_map
       /\ C[c].incomplete_phis = B[c].incomplete_phis
       /\ C[c].phis = B[c].phis /\ C[c].instructions = B[c].instructions
       /\ C[c].successors = IF c = b THEN B[c].successors \cup T ELSE B[c].successors
       /\ C[c].predecessors =
            IF c \in T THEN B[c].predecessors \cup {b} ELSE B[c].predecessors

LEMMA EdgesBlocks ==
  ASSUME NEW B \in Seq(BlockRecords), NEW b \in DOMAIN B, NEW T \in SUBSET Nat
  PROVE  HasEdges(Edges(B, b, T), B, b, T)
  <1>. DEFINE r(c) ==
         [B[c] EXCEPT !.successors = IF c = b THEN B[c].successors \cup T ELSE B[c].successors,
                      !.predecessors = IF c \in T THEN B[c].predecessors \cup {b}
                                       ELSE B[c].predecessors]
  <1>1. ASSUME NEW c \in DOMAIN B
        PROVE  /\ r(c) \in BlockRecords
               /\ r(c).sealed = B[c].sealed /\ r(c).ssa_map = B[c].ssa_map
               /\ r(c).incomplete_phis = B[c].incomplete_phis
               /\ r(c).phis = B[c].phis /\ r(c).instructions = B[c].instructions
               /\ r(c).successors = IF c = b THEN B[c].successors \cup T ELSE B[c].successors
               /\ r(c).predecessors =
                    IF c \in T THEN B[c].predecessors \cup {b} ELSE B[c].predecessors
    <2>1. B[c] \in BlockRecords /\ b \in Nat
      BY ElementOfSeq, LenProperties
    <2>. QED  BY <2>1 DEF BlockRecords
  <1>2. Edges(B, b, T) = [c \in DOMAIN B |-> r(c)]
    BY DEF Edges
  <1>. HIDE DEF r
  <1>3. Len(B) \in Nat /\ DOMAIN B = 1 .. Len(B)
    BY LenProperties
  <1>4. Edges(B, b, T) \in [1 .. Len(B) -> BlockRecords]
    <2>1. \A c \in 1 .. Len(B) : r(c) \in BlockRecords
      BY <1>1, <1>3
    <2>2. [c \in 1 .. Len(B) |-> r(c)] \in [1 .. Len(B) -> BlockRecords]
      BY <2>1
    <2>. QED  BY <1>2, <1>3, <2>2
  <1>5. Edges(B, b, T) \in Seq(BlockRecords) /\ Len(Edges(B, b, T)) = Len(B)
    BY <1>3, <1>4, FunctionSeq
  <1>6. DOMAIN Edges(B, b, T) = DOMAIN B /\ \A c \in DOMAIN B : Edges(B, b, T)[c] = r(c)
    BY <1>2
  <1>. QED  BY <1>1, <1>5, <1>6, Zenon DEF HasEdges

(* The changes of one block or one phi that the actions make.              *)

ListedIn(B, b, p) == [B EXCEPT ![b].phis = @ \cup {p}]
IncompleteIn(B, b, name, p) == [B EXCEPT ![b].incomplete_phis = With(@, name, p)]
SealedIn(B, b) == [B EXCEPT ![b].incomplete_phis = <<>>, ![b].sealed = TRUE]
LongerIn(B, b, ins) == [B EXCEPT ![b].instructions = Append(@, ins)]
OperandIn(P, k, b, v) ==
  [P EXCEPT ![k].operands = IF b \in DOMAIN @ THEN @ ELSE With(@, b, v)]

LEMMA ChangedBlocks ==
  ASSUME NEW B \in Seq(BlockRecords), NEW b \in DOMAIN B, NEW r \in BlockRecords
  PROVE  LET C == [B EXCEPT ![b] = r] IN
           /\ C \in Seq(BlockRecords)
           /\ Len(C) = Len(B) /\ DOMAIN C = DOMAIN B
           /\ \A c \in DOMAIN B : C[c] = IF c = b THEN r ELSE B[c]
  OBVIOUS

IsListed(C, B, b, p) ==
  /\ C \in Seq(BlockRecords)
  /\ Len(C) = Len(B) /\ DOMAIN C = DOMAIN B
  /\ \A c \in DOMAIN B :
       /\ C[c].sealed = B[c].sealed /\ C[c].ssa_map = B[c].ssa_map
       /\ C[c].incomplete_phis = B[c].incomplete_phis
       /\ C[c].phis = IF c = b THEN B[c].phis \cup {p} ELSE B[c].phis
       /\ C[c].instructions = B[c].instructions
       /\ C[c].successors = B[c].successors
       /\ C[c].predecessors = B[c].predecessors

LEMMA ListedBlocks ==
  ASSUME NEW B \in Seq(BlockRecords), NEW b \in DOMAIN B, NEW p \in Int
  PROVE  IsListed(ListedIn(B, b, p), B, b, p)
  <1>. DEFINE r == [B[b] EXCEPT !.phis = B[b].phis \cup {p}]
              C == ListedIn(B, b, p)
  <1>1. B[b] \in BlockRecords
    BY ElementOfSeq, LenProperties
  <1>2. /\ r \in BlockRecords /\ r.ssa_map = B[b].ssa_map
        /\ r.sealed = B[b].sealed /\ r.incomplete_phis = B[b].incomplete_phis
        /\ r.phis = B[b].phis \cup {p} /\ r.instructions = B[b].instructions
        /\ r.successors = B[b].successors /\ r.predecessors = B[b].predecessors
    BY <1>1 DEF BlockRecords
  <1>3. C = [B EXCEPT ![b] = r]
    BY DEF ListedIn, IncompleteIn
  <1>. HIDE DEF r, C
  <1>4. C \in Seq(BlockRecords) /\ Len(C) = Len(B) /\ DOMAIN C = DOMAIN B
    BY <1>2, <1>3, ChangedBlocks
  <1>5. \A c \in DOMAIN B : C[c] = IF c = b THEN r ELSE B[c]
    BY <1>2, <1>3
  <1>6. C[b] = r /\ \A c \in DOMAIN B : c # b => C[c] = B[c]
    BY <1>5
  <1>. QED  BY <1>2, <1>4, <1>6 DEF C, IsListed

IsIncomplete(C, B, b, name, p) ==
  /\ C \in Seq(BlockRecords)
  /\ Len(C) = Len(B) /\ DOMAIN C = DOMAIN B
  /\ \A c \in DOMAIN B :
       /\ C[c].sealed = B[c].sealed /\ C[c].ssa_map = B[c].ssa_map
       /\ C[c].incomplete_phis =
            IF c = b THEN With(B[c].incomplete_phis, name, p) ELSE B[c].incomplete_phis
       /\ C[c].phis = B[c].phis /\ C[c].instructions = B[c].instructions
       /\ C[c].successors = B[c].successors
       /\ C[c].predecessors = B[c].predecessors

LEMMA IncompleteBlocks ==
  ASSUME NEW B \in Seq(BlockRecords), NEW b \in DOMAIN B, NEW name \in Vars, NEW p \in Int
  PROVE  IsIncomplete(IncompleteIn(B, b, name, p), B, b, name, p)
  <1>. DEFINE r == [B[b] EXCEPT !.incomplete_phis = With(B[b].incomplete_phis, name, p)]
              C == IncompleteIn(B, b, name, p)
  <1>1. B[b] \in BlockRecords
    BY ElementOfSeq, LenProperties
  <1>2. With(B[b].incomplete_phis, name, p) \in Maps(Vars)
    BY <1>1, BlockFields, WithMap
  <1>3. /\ r \in BlockRecords /\ r.ssa_map = B[b].ssa_map
        /\ r.sealed = B[b].sealed
        /\ r.incomplete_phis = With(B[b].incomplete_phis, name, p)
        /\ r.phis = B[b].phis /\ r.instructions = B[b].instructions
        /\ r.successors = B[b].successors /\ r.predecessors = B[b].predecessors
    BY <1>1, <1>2 DEF BlockRecords
  <1>4. C = [B EXCEPT ![b] = r]
    BY DEF ListedIn, IncompleteIn
  <1>. HIDE DEF r, C
  <1>5. C \in Seq(BlockRecords) /\ Len(C) = Len(B) /\ DOMAIN C = DOMAIN B
    BY <1>3, <1>4, ChangedBlocks
  <1>6. \A c \in DOMAIN B : C[c] = IF c = b THEN r ELSE B[c]
    BY <1>3, <1>4
  <1>7. C[b] = r /\ \A c \in DOMAIN B : c # b => C[c] = B[c]
    BY <1>6
  <1>. QED  BY <1>3, <1>5, <1>7 DEF C, IsIncomplete

IsSealed(C, B, b) ==
  /\ C \in Seq(BlockRecords)
  /\ Len(C) = Len(B) /\ DOMAIN C = DOMAIN B
  /\ \A c \in DOMAIN B :
       /\ C[c].sealed = IF c = b THEN TRUE ELSE B[c].sealed
       /\ C[c].ssa_map = B[c].ssa_map
       /\ C[c].incomplete_phis = IF c = b THEN <<>> ELSE B[c].incomplete_phis
       /\ C[c].phis = B[c].phis /\ C[c].instructions = B[c].instructions
       /\ C[c].successors = B[c].successors
       /\ C[c].predecessors = B[c].predecessors

LEMMA SealedBlocks ==
  ASSUME NEW B \in Seq(BlockRecords), NEW b \in DOMAIN B
  PROVE  IsSealed(SealedIn(B, b), B, b)
  <1>. DEFINE r == [B[b] EXCEPT !.incomplete_phis = <<>>, !.sealed = TRUE]
              C == SealedIn(B, b)
  <1>1. B[b] \in BlockRecords
    BY ElementOfSeq, LenProperties
  <1>2. /\ r \in BlockRecords /\ r.ssa_map = B[b].ssa_map
        /\ r.sealed = TRUE /\ r.incomplete_phis = <<>>
        /\ r.phis = B[b].phis /\ r.instructions = B[b].instructions
        /\ r.successors = B[b].successors /\ r.predecessors = B[b].predecessors
    BY <1>1, NewRecords DEF BlockRecords
  <1>3. C = [B EXCEPT ![b] = r]
    BY <1>1 DEF BlockRecords, SealedIn
  <1>. HIDE DEF r, C
  <1>4. C \in Seq(BlockRecords) /\ Len(C) = Len(B) /\ DOMAIN C = DOMAIN B
    BY <1>2, <1>3, ChangedBlocks
  <1>5. \A c \in DOMAIN B : C[c] = IF c = b THEN r ELSE B[c]
    BY <1>2, <1>3
  <1>6. C[b] = r /\ \A c \in DOMAIN B : c # b => C[c] = B[c]
    BY <1>5
  <1>. QED  BY <1>2, <1>4, <1>6 DEF C, IsSealed

IsLonger(C, B, b, ins) ==
  LET n == Len(B[b].instructions) + 1 IN
  /\ C \in Seq(BlockRecords)
  /\ Len(C) = Len(B) /\ DOMAIN C = DOMAIN B
  /\ \A c \in DOMAIN B :
       /\ C[c].sealed = B[c].sealed /\ C[c].ssa_map = B[c].ssa_map
       /\ C[c].incomplete_phis = B[c].incomplete_phis
       /\ C[c].phis = B[c].phis
       /\ c # b => C[c].instructions = B[c].instructions
       /\ C[c].successors = B[c].successors
       /\ C[c].predecessors = B[c].predecessors
  /\ n \in Nat
  /\ DOMAIN C[b].instructions = DOMAIN B[b].instructions \cup {n}
  /\ C[b].instructions[n] = ins
  /\ \A i \in DOMAIN B[b].instructions : C[b].instructions[i] = B[b].instructions[i]

LEMMA LongerBlocks ==
  ASSUME NEW B \in Seq(BlockRecords), NEW b \in DOMAIN B, NEW ins \in Instructions
  PROVE  IsLonger(LongerIn(B, b, ins), B, b, ins)
  <1>. DEFINE ext == Append(B[b].instructions, ins)
              r == [B[b] EXCEPT !.instructions = ext]
              n == Len(B[b].instructions) + 1
  <1>1. B[b] \in BlockRecords /\ B[b].instructions \in Seq(Instructions)
    BY ElementOfSeq, LenProperties, BlockFields
  <1>2. /\ ext \in Seq(Instructions) /\ n \in Nat
        /\ DOMAIN ext = DOMAIN B[b].instructions \cup {n}
        /\ ext[n] = ins /\ \A i \in DOMAIN B[b].instructions : ext[i] = B[b].instructions[i]
    BY <1>1
  <1>. HIDE DEF ext, n
  <1>3. /\ r \in BlockRecords /\ r.ssa_map = B[b].ssa_map
        /\ r.sealed = B[b].sealed /\ r.incomplete_phis = B[b].incomplete_phis
        /\ r.phis = B[b].phis /\ r.instructions = ext
        /\ r.successors = B[b].successors /\ r.predecessors = B[b].predecessors
    BY <1>1, <1>2 DEF BlockRecords
  <1>. DEFINE C == LongerIn(B, b, ins)
  <1>4. C = [B EXCEPT ![b] = r]
    BY DEF ext, LongerIn
  <1>. HIDE DEF r, C
  <1>5. /\ C \in Seq(BlockRecords)
        /\ Len(C) = Len(B) /\ DOMAIN C = DOMAIN B
        /\ \A c \in DOMAIN B : C[c] = IF c = b THEN r ELSE B[c]
    BY <1>3, <1>4, ChangedBlocks
  <1>6. /\ \A c \in DOMAIN B :
                /\ C[c].sealed = B[c].sealed /\ C[c].ssa_map = B[c].ssa_map
                /\ C[c].incomplete_phis = B[c].incomplete_phis
                /\ C[c].phis = B[c].phis
                /\ c # b => C[c].instructions = B[c].instructions
                /\ C[c].successors = B[c].successors
                /\ C[c].predecessors = B[c].predecessors
        /\ C[b].instructions = ext
    BY <1>3, <1>5
  <1>. QED  BY <1>2, <1>5, <1>6 DEF C, n, IsLonger

LEMMA MoreBlocks ==
  ASSUME NEW B \in Seq(BlockRecords), NEW N \in Seq(BlockRecords)
  PROVE  /\ B \o N \in Seq(BlockRecords)
         /\ Len(B \o N) = Len(B) + Len(N)
         /\ \A b \in DOMAIN B : b \in DOMAIN (B \o N) /\ (B \o N)[b] = B[b]
         /\ \A b \in DOMAIN (B \o N) \ DOMAIN B :
              b - Len(B) \in DOMAIN N /\ (B \o N)[b] = N[b - Len(B)]
  OBVIOUS

HasMore(Q, P, name, b) ==
  /\ Q \in Seq(PhiRecords)
  /\ Len(Q) = Len(P) + 1 /\ DOMAIN Q = DOMAIN P \cup {Len(P) + 1}
  /\ \A k \in DOMAIN P : Q[k] = P[k]
  /\ Q[Len(P) + 1] = NewPhi(name, b)

LEMMA MorePhis ==
  ASSUME NEW P \in Seq(PhiRecords), NEW name \in Vars, NEW b \in Nat
  PROVE  HasMore(Append(P, NewPhi(name, b)), P, name, b)
  <1>1. NewPhi(name, b) \in PhiRecords
    BY NewRecords
  <1>. QED  BY <1>1 DEF HasMore

(* What add_phi_operands inserts.                                          *)
HasOperand(Q, P, k, b, v) ==
  /\ Q \in Seq(PhiRecords)
  /\ Len(Q) = Len(P) /\ DOMAIN Q = DOMAIN P
  /\ \A j \in DOMAIN P :
       /\ Q[j].block = P[j].block /\ Q[j].localVarName = P[j].localVarName
       /\ Q[j].users = P[j].users /\ Q[j].valid = P[j].valid
       /\ j # k => Q[j].operands = P[j].operands
  /\ DOMAIN Q[k].operands = DOMAIN P[k].operands \cup {b}
  /\ \A c \in DOMAIN P[k].operands : Q[k].operands[c] = P[k].operands[c]
  /\ b \notin DOMAIN P[k].operands => Q[k].operands[b] = v

LEMMA OperandPhis ==
  ASSUME NEW P \in Seq(PhiRecords), NEW k \in DOMAIN P, NEW b \in Nat, NEW v \in Int
  PROVE  HasOperand(OperandIn(P, k, b, v), P, k, b, v)
  <1>. DEFINE ops == IF b \in DOMAIN P[k].operands THEN P[k].operands
                     ELSE With(P[k].operands, b, v)
              r == [P[k] EXCEPT !.operands = ops]
              Q == OperandIn(P, k, b, v)
  <1>1. P[k] \in PhiRecords /\ P[k].operands \in Maps(Nat)
    BY ElementOfSeq, LenProperties, PhiFields
  <1>2. /\ ops \in Maps(Nat) /\ DOMAIN ops = DOMAIN P[k].operands \cup {b}
        /\ \A c \in DOMAIN P[k].operands : ops[c] = P[k].operands[c]
        /\ b \notin DOMAIN P[k].operands => ops[b] = v
    <2>1. With(P[k].operands, b, v) \in Maps(Nat)
      BY <1>1, WithMap
    <2>. QED  BY <1>1, <2>1 DEF With
  <1>3. Q = [P EXCEPT ![k] = r]
    BY DEF OperandIn
  <1>. HIDE DEF ops
  <1>4. /\ r \in PhiRecords /\ r.block = P[k].block /\ r.localVarName = P[k].localVarName
        /\ r.users = P[k].users /\ r.valid = P[k].valid /\ r.operands = ops
    BY <1>1, <1>2 DEF PhiRecords
  <1>. HIDE DEF r, Q
  <1>5. /\ Q \in Seq(PhiRecords) /\ Len(Q) = Len(P) /\ DOMAIN Q = DOMAIN P
        /\ \A j \in DOMAIN P : Q[j] = IF j = k THEN r ELSE P[j]
    BY <1>3, <1>4
  <1>6. /\ \A j \in DOMAIN P :
             /\ Q[j].block = P[j].block /\ Q[j].localVarName = P[j].localVarName
             /\ Q[j].users = P[j].users /\ Q[j].valid = P[j].valid
             /\ j # k => Q[j].operands = P[j].operands
        /\ Q[k].operands = ops
    BY <1>4, <1>5
  <1>. QED  BY <1>2, <1>5, <1>6 DEF Q, HasOperand

-----------------------------------------------------------------------------
(* What the operators do to the users.                                     *)

LEMMA UsersUsed ==
  ASSUME NEW B, NEW P \in Seq(PhiRecords), NEW v \in Int, -Len(P) <= v, NEW u \in Users,
         UsersOK(B, P)
  PROVE  UsersOK(B, Used(P, v, u))
  <1>1. IsUsed(Used(P, v, u), P, v, u)
    BY UsedPhis
  <1>. QED  BY <1>1 DEF UsersOK, IsUsed

LEMMA UsersMapped ==
  ASSUME NEW B \in Seq(BlockRecords), NEW P, NEW b \in DOMAIN B, NEW name \in Vars, NEW v \in Int,
         UsersOK(B, P),
         \A k \in DOMAIN P : v = -k => BlockUser(b) \in P[k].users
  PROVE  UsersOK(Mapped(B, b, name, v), P)
  <1>. DEFINE C == Mapped(B, b, name, v)
  <1>1. DOMAIN C = DOMAIN B
        /\ \A c \in DOMAIN B :
             /\ C[c].ssa_map = IF c = b THEN With(B[b].ssa_map, name, v) ELSE B[c].ssa_map
             /\ C[c].instructions = B[c].instructions
    <2>1. IsMapped(C, B, b, name, v)
      BY MappedBlocks
    <2>. QED  BY <2>1 DEF IsMapped
  <1>2. B[b].ssa_map \in Maps(Vars)
    BY ElementOfSeq, LenProperties, BlockFields
  <1>3. /\ DOMAIN With(B[b].ssa_map, name, v) = {name} \cup DOMAIN B[b].ssa_map
        /\ With(B[b].ssa_map, name, v)[name] = v
        /\ \A x \in DOMAIN B[b].ssa_map :
             x # name => With(B[b].ssa_map, name, v)[x] = B[b].ssa_map[x]
    BY DEF With
  <1>. HIDE DEF C
  <1>. SUFFICES UsersOK(C, P)
    BY DEF C
  <1>. SUFFICES ASSUME NEW k \in DOMAIN P, P[k].valid, NEW c \in DOMAIN C,
                       NEW x \in DOMAIN C[c].ssa_map, C[c].ssa_map[x] = -k
                PROVE  BlockUser(c) \in P[k].users
    BY <1>1 DEF UsersOK
  <1>. QED  BY <1>1, <1>3 DEF UsersOK

LEMMA UsersSame ==
  ASSUME NEW B, NEW C, NEW P, UsersOK(B, P),
         \A b \in DOMAIN C :
           \/ b \in DOMAIN B /\ C[b].ssa_map = B[b].ssa_map /\ C[b].instructions = B[b].instructions
           \/ C[b].ssa_map = <<>> /\ C[b].instructions = <<>>
  PROVE  UsersOK(C, P)
  <1>. SUFFICES ASSUME NEW k \in DOMAIN P, P[k].valid, NEW b \in DOMAIN C
                PROVE  /\ \A name \in DOMAIN C[b].ssa_map :
                            C[b].ssa_map[name] = -k => BlockUser(b) \in P[k].users
                       /\ \A i \in DOMAIN C[b].instructions :
                            C[b].instructions[i].value = -k => InsUser(b, i) \in P[k].users
    BY DEF UsersOK
  <1>. QED  BY DEF UsersOK

LEMMA UsersMore ==
  ASSUME NEW B, NEW P \in Seq(PhiRecords), NEW name \in Vars, NEW b \in Nat,
         UsersOK(B, P), BlocksKnown(B, P), PhisKnown(B, P), MaxDefs \in Nat
  PROVE  UsersOK(B, Append(P, NewPhi(name, b)))
  <1>. DEFINE Q == Append(P, NewPhi(name, b))
              n == Len(P) + 1
  <1>1. /\ DOMAIN Q = DOMAIN P \cup {n} /\ \A k \in DOMAIN P : Q[k] = P[k]
        /\ Q[n] = NewPhi(name, b) /\ n \in Nat /\ n > Len(P) /\ DOMAIN P = 1 .. Len(P)
    <2>1. HasMore(Q, P, name, b)
      BY MorePhis
    <2>. QED  BY <2>1, LenProperties DEF HasMore
  <1>2. DOMAIN Q[n].operands = {}
    BY <1>1 DEF NewPhi
  <1>3. /\ -n \notin ValuesOf(P) /\ -n # Nothing
    BY <1>1 DEF ValuesOf, Nothing
  <1>4. \A c \in DOMAIN B :
          /\ \A x \in DOMAIN B[c].ssa_map : B[c].ssa_map[x] # -n
          /\ \A i \in DOMAIN B[c].instructions : B[c].instructions[i].value # -n
    BY <1>3 DEF BlocksKnown, BlockKnown
  <1>5. \A k \in DOMAIN P : \A c \in DOMAIN P[k].operands : P[k].operands[c] # -n
    BY <1>3 DEF PhisKnown, PhiKnown
  <1>. HIDE DEF Q, n
  <1>. SUFFICES UsersOK(B, Q)
    BY DEF Q
  <1>. QED  BY <1>1, <1>2, <1>4, <1>5 DEF UsersOK

LEMMA UsersOperand ==
  ASSUME NEW B, NEW P \in Seq(PhiRecords), NEW k \in DOMAIN P, NEW b \in Nat,
         NEW v \in Int, -Len(P) <= v, UsersOK(B, P), PhiUser(-k) \in Users
  PROVE  UsersOK(B, Used(OperandIn(P, k, b, v), v, PhiUser(-k)))
  <1>. DEFINE Q == OperandIn(P, k, b, v)
              R == Used(Q, v, PhiUser(-k))
  <1>1. /\ Q \in Seq(PhiRecords)
        /\ Len(Q) = Len(P) /\ DOMAIN Q = DOMAIN P
        /\ \A j \in DOMAIN P :
             /\ Q[j].users = P[j].users /\ Q[j].valid = P[j].valid
             /\ j # k => Q[j].operands = P[j].operands
        /\ DOMAIN Q[k].operands = DOMAIN P[k].operands \cup {b}
        /\ \A c \in DOMAIN P[k].operands : Q[k].operands[c] = P[k].operands[c]
        /\ b \notin DOMAIN P[k].operands => Q[k].operands[b] = v
    <2>1. HasOperand(Q, P, k, b, v)
      BY OperandPhis
    <2>. QED  BY <2>1 DEF HasOperand
  <1>. HIDE DEF Q
  <1>2. /\ DOMAIN R = DOMAIN P
        /\ \A j \in DOMAIN P : /\ R[j].operands = Q[j].operands /\ R[j].valid = P[j].valid
                               /\ P[j].users \subseteq R[j].users
        /\ v < 0 => PhiUser(-k) \in R[-v].users
    <2>1. IsUsed(R, Q, v, PhiUser(-k))
      BY <1>1, UsedPhis
    <2>. QED  BY <1>1, <2>1 DEF IsUsed
  <1>. HIDE DEF R
  <1>. SUFFICES UsersOK(B, R)
    BY DEF R, Q
  <1>3. ASSUME NEW i \in DOMAIN P, NEW j \in DOMAIN P, P[i].valid, P[j].valid,
               NEW c \in DOMAIN Q[j].operands, Q[j].operands[c] = -i
        PROVE  PhiUser(-j) \in R[i].users
    <2>1. CASE j = k /\ c \notin DOMAIN P[k].operands
      <3>1. v = -i
        BY <1>1, <1>3, <2>1
      <3>2. i \in Nat /\ i > 0
        BY LenProperties
      <3>. QED  BY <1>2, <2>1, <3>1, <3>2
    <2>2. CASE ~(j = k /\ c \notin DOMAIN P[k].operands)
      <3>1. c \in DOMAIN P[j].operands /\ P[j].operands[c] = -i
        BY <1>1, <1>3, <2>2
      <3>. QED  BY <1>2, <1>3, <3>1 DEF UsersOK
    <2>. QED  BY <2>1, <2>2
  <1>. QED  BY <1>2, <1>3 DEF UsersOK

LEMMA UsersLonger ==
  ASSUME NEW B \in Seq(BlockRecords), NEW P, NEW b \in DOMAIN B, NEW ins \in Instructions,
         UsersOK(B, P),
         \A k \in DOMAIN P : ins.value = -k => InsUser(b, Len(B[b].instructions) + 1) \in P[k].users
  PROVE  UsersOK(LongerIn(B, b, ins), P)
  <1>. DEFINE C == LongerIn(B, b, ins)
              n == Len(B[b].instructions) + 1
  <1>1. /\ DOMAIN C = DOMAIN B
        /\ \A c \in DOMAIN B : /\ C[c].ssa_map = B[c].ssa_map
                               /\ c # b => C[c].instructions = B[c].instructions
        /\ DOMAIN C[b].instructions = DOMAIN B[b].instructions \cup {n}
        /\ C[b].instructions[n] = ins
        /\ \A i \in DOMAIN B[b].instructions : C[b].instructions[i] = B[b].instructions[i]
    <2>1. IsLonger(C, B, b, ins)
      BY LongerBlocks
    <2>. QED  BY <2>1 DEF IsLonger
  <1>2. \A k \in DOMAIN P : ins.value = -k => InsUser(b, n) \in P[k].users
    OBVIOUS
  <1>. HIDE DEF C, n
  <1>. SUFFICES UsersOK(C, P)
    BY DEF C
  <1>. SUFFICES ASSUME NEW k \in DOMAIN P, P[k].valid, NEW c \in DOMAIN C,
                       NEW i \in DOMAIN C[c].instructions, C[c].instructions[i].value = -k
                PROVE  InsUser(c, i) \in P[k].users
    BY <1>1 DEF UsersOK
  <1>. QED  BY <1>1, <1>2 DEF UsersOK

-----------------------------------------------------------------------------
(* The removal of a phi.                                                   *)

RemovedFrom(c, r, b, U, p, same) ==
  /\ c.sealed = r.sealed
  /\ c.incomplete_phis = r.incomplete_phis
  /\ c.successors = r.successors
  /\ c.predecessors = r.predecessors
  /\ c.phis = IF b = PhiAt(p).block THEN r.phis \ {p} ELSE r.phis
  /\ c.ssa_map = IF BlockUser(b) \in U THEN Subst(r.ssa_map, p, same) ELSE r.ssa_map
  /\ DOMAIN c.instructions = DOMAIN r.instructions
  /\ \A i \in DOMAIN r.instructions :
       /\ c.instructions[i].op = r.instructions[i].op
       /\ c.instructions[i].value =
            IF InsUser(b, i) \in U /\ r.instructions[i].value = p
            THEN same ELSE r.instructions[i].value

IsRemoved(C, U, p, same) ==
  /\ C \in Seq(BlockRecords)
  /\ Len(C) = Len(block) /\ DOMAIN C = DOMAIN block
  /\ \A b \in DOMAIN block : RemovedFrom(C[b], block[b], b, U, p, same)

LEMMA RemovedBlocks ==
  ASSUME block \in Seq(BlockRecords), NEW U, NEW p \in Int, NEW same \in Int
  PROVE  IsRemoved(BlocksWith(U, p, same), U, p, same)
  <1>. DEFINE I(b) == [i \in DOMAIN block[b].instructions |->
                         IF InsUser(b, i) \in U /\ block[b].instructions[i].value = p
                         THEN [block[b].instructions[i] EXCEPT !.value = same]
                         ELSE block[b].instructions[i]]
              M(b) == IF BlockUser(b) \in U THEN Subst(block[b].ssa_map, p, same)
                      ELSE block[b].ssa_map
              F(b) == IF b = PhiAt(p).block THEN block[b].phis \ {p} ELSE block[b].phis
              r(b) == [block[b] EXCEPT !.ssa_map = M(b), !.instructions = I(b), !.phis = F(b)]
              C == BlocksWith(U, p, same)
  <1>1. DOMAIN block = 1 .. Len(block) /\ Len(block) \in Nat
        /\ \A b \in DOMAIN block : block[b] \in BlockRecords
    BY ElementOfSeq, LenProperties
  <1>2. ASSUME NEW b \in DOMAIN block
        PROVE  /\ M(b) \in Maps(Vars) /\ F(b) \in SUBSET Int /\ I(b) \in Seq(Instructions)
               /\ DOMAIN I(b) = DOMAIN block[b].instructions
               /\ \A i \in DOMAIN block[b].instructions :
                     /\ I(b)[i].op = block[b].instructions[i].op
                     /\ I(b)[i].value =
                          IF InsUser(b, i) \in U /\ block[b].instructions[i].value = p
                          THEN same ELSE block[b].instructions[i].value
    <2>1. /\ block[b].ssa_map \in Maps(Vars) /\ block[b].phis \in SUBSET Int
          /\ block[b].instructions \in Seq(Instructions)
      BY <1>1, BlockFields
    <2>2. M(b) \in Maps(Vars)
      BY <2>1, SubstMap
    <2>3. ASSUME NEW i \in DOMAIN block[b].instructions
          PROVE  /\ I(b)[i] \in Instructions /\ I(b)[i].op = block[b].instructions[i].op
                 /\ I(b)[i].value =
                          IF InsUser(b, i) \in U /\ block[b].instructions[i].value = p
                          THEN same ELSE block[b].instructions[i].value
      <3>1. block[b].instructions[i] \in Instructions
        BY <2>1
      <3>. QED  BY <3>1 DEF Instructions
    <2>4. /\ Len(block[b].instructions) \in Nat
          /\ DOMAIN block[b].instructions = 1 .. Len(block[b].instructions)
      BY <2>1
    <2>5. I(b) \in [1 .. Len(block[b].instructions) -> Instructions]
      BY <2>3, <2>4
    <2>6. I(b) \in Seq(Instructions)
      BY <2>4, <2>5, FunctionSeq
    <2>. QED  BY <2>1, <2>2, <2>3, <2>6
  <1>. HIDE DEF I, M, F
  <1>3. ASSUME NEW b \in DOMAIN block
        PROVE  /\ r(b) \in BlockRecords
               /\ r(b).sealed = block[b].sealed /\ r(b).ssa_map = M(b)
               /\ r(b).incomplete_phis = block[b].incomplete_phis
               /\ r(b).phis = F(b) /\ r(b).instructions = I(b)
               /\ r(b).successors = block[b].successors
               /\ r(b).predecessors = block[b].predecessors
    BY <1>1, <1>2 DEF BlockRecords
  <1>4. C = [b \in DOMAIN block |-> r(b)]
    BY DEF BlocksWith, I, M, F, Blocks
  <1>. HIDE DEF r, C
  <1>5. C \in [1 .. Len(block) -> BlockRecords]
    <2>1. \A b \in 1 .. Len(block) : r(b) \in BlockRecords
      BY <1>1, <1>3
    <2>2. [b \in 1 .. Len(block) |-> r(b)] \in [1 .. Len(block) -> BlockRecords]
      BY <2>1
    <2>. QED  BY <1>1, <1>4, <2>2
  <1>6. C \in Seq(BlockRecords) /\ Len(C) = Len(block) /\ DOMAIN C = DOMAIN block
    BY <1>1, <1>5, FunctionSeq
  <1>7. ASSUME NEW b \in DOMAIN block
        PROVE  /\ C[b].sealed = block[b].sealed /\ C[b].ssa_map = M(b)
               /\ C[b].incomplete_phis = block[b].incomplete_phis
               /\ C[b].phis = F(b) /\ C[b].instructions = I(b)
               /\ C[b].successors = block[b].successors
               /\ C[b].predecessors = block[b].predecessors
    BY <1>3, <1>4
  <1>8. ASSUME NEW b \in DOMAIN block
        PROVE  /\ C[b].phis = IF b = PhiAt(p).block THEN block[b].phis \ {p} ELSE block[b].phis
               /\ C[b].ssa_map = IF BlockUser(b) \in U THEN Subst(block[b].ssa_map, p, same)
                                 ELSE block[b].ssa_map
               /\ DOMAIN C[b].instructions = DOMAIN block[b].instructions
               /\ \A i \in DOMAIN block[b].instructions :
                     /\ C[b].instructions[i].op = block[b].instructions[i].op
                     /\ C[b].instructions[i].value =
                          IF InsUser(b, i) \in U /\ block[b].instructions[i].value = p
                          THEN same ELSE block[b].instructions[i].value
    <2>1. /\ C[b].phis = F(b) /\ C[b].ssa_map = M(b) /\ C[b].instructions = I(b)
      BY <1>7
    <2>2. /\ DOMAIN I(b) = DOMAIN block[b].instructions
          /\ \A i \in DOMAIN block[b].instructions :
                     /\ I(b)[i].op = block[b].instructions[i].op
                     /\ I(b)[i].value =
                          IF InsUser(b, i) \in U /\ block[b].instructions[i].value = p
                          THEN same ELSE block[b].instructions[i].value
      BY <1>2
    <2>. QED  BY <2>1, <2>2 DEF M, F
  <1>. QED  BY <1>6, <1>7, <1>8 DEF C, IsRemoved, RemovedFrom

IsForgotten(Q, U, p, same) ==
  /\ Q \in Seq(PhiRecords)
  /\ Len(Q) = Len(phi) /\ DOMAIN Q = DOMAIN phi
  /\ \A k \in DOMAIN phi :
       /\ Q[k].block = phi[k].block /\ Q[k].localVarName = phi[k].localVarName
       /\ Q[k].valid = (phi[k].valid /\ -k # p)
       /\ Q[k].operands = IF PhiUser(-k) \in U THEN Subst(phi[k].operands, p, same)
                          ELSE phi[k].operands
       /\ -k # p => phi[k].users \ {PhiUser(p)} \subseteq Q[k].users
       /\ -k = same => Touched(U, p) \ {PhiUser(p)} \subseteq Q[k].users

LEMMA RemovedPhis ==
  ASSUME phi \in Seq(PhiRecords), NEW U \in SUBSET Users, NEW p \in Int, NEW same \in Int
  PROVE  IsForgotten(PhisWith(U, p, same), U, p, same)
  <1>. DEFINE O(k) == IF PhiUser(-k) \in U THEN Subst(phi[k].operands, p, same)
                      ELSE phi[k].operands
              W(k) == ((IF -k = p THEN U \ Touched(U, p) ELSE phi[k].users)
                         \cup (IF -k = same THEN Touched(U, p) ELSE {}))
                      \ (IF \E b \in DOMAIN PhiAt(p).operands : PhiAt(p).operands[b] = -k
                         THEN {PhiUser(p)} ELSE {})
              V(k) == phi[k].valid /\ -k # p
              r(k) == [phi[k] EXCEPT !.operands = O(k), !.users = W(k), !.valid = V(k)]
              Q == PhisWith(U, p, same)
  <1>1. DOMAIN phi = 1 .. Len(phi) /\ Len(phi) \in Nat
        /\ \A k \in DOMAIN phi : phi[k] \in PhiRecords
    BY ElementOfSeq, LenProperties
  <1>2. ASSUME NEW k \in DOMAIN phi
        PROVE  /\ O(k) \in Maps(Nat) /\ W(k) \in SUBSET Users /\ V(k) \in BOOLEAN
               /\ -k # p => phi[k].users \ {PhiUser(p)} \subseteq W(k)
               /\ -k = same => Touched(U, p) \ {PhiUser(p)} \subseteq W(k)
    <2>1. phi[k].operands \in Maps(Nat) /\ phi[k].users \in SUBSET Users
      BY <1>1, PhiFields
    <2>2. O(k) \in Maps(Nat)
      BY <2>1, SubstMap
    <2>3. Touched(U, p) \in SUBSET Users
      BY DEF Touched
    <2>. QED  BY <2>1, <2>2, <2>3
  <1>. HIDE DEF O, W, V
  <1>3. ASSUME NEW k \in DOMAIN phi
        PROVE  /\ r(k) \in PhiRecords
               /\ r(k).block = phi[k].block /\ r(k).localVarName = phi[k].localVarName
               /\ r(k).operands = O(k) /\ r(k).users = W(k) /\ r(k).valid = V(k)
    BY <1>1, <1>2 DEF PhiRecords
  <1>4. Q = [k \in DOMAIN phi |-> r(k)]
    BY DEF PhisWith, O, W, V
  <1>. HIDE DEF r, Q
  <1>5. Q \in [1 .. Len(phi) -> PhiRecords]
    <2>1. \A k \in 1 .. Len(phi) : r(k) \in PhiRecords
      BY <1>1, <1>3
    <2>2. [k \in 1 .. Len(phi) |-> r(k)] \in [1 .. Len(phi) -> PhiRecords]
      BY <2>1
    <2>. QED  BY <1>1, <1>4, <2>2
  <1>6. Q \in Seq(PhiRecords) /\ Len(Q) = Len(phi) /\ DOMAIN Q = DOMAIN phi
    BY <1>1, <1>5, FunctionSeq
  <1>7. ASSUME NEW k \in DOMAIN phi
        PROVE  /\ Q[k].block = phi[k].block /\ Q[k].localVarName = phi[k].localVarName
               /\ Q[k].operands = O(k) /\ Q[k].users = W(k) /\ Q[k].valid = V(k)
    BY <1>3, <1>4
  <1>. QED  BY <1>2, <1>6, <1>7 DEF Q, O, V, IsForgotten

-----------------------------------------------------------------------------
(* Blocks and phis that are well formed, and what keeps them so.           *)

DataOK(B, P) ==
  /\ B \in Seq(BlockRecords)
  /\ P \in Seq(PhiRecords)
  /\ GraphKnown(B)
  /\ BlocksKnown(B, P)
  /\ PhisKnown(B, P)
  /\ UsersOK(B, P)

LEMMA MoreValues ==
  ASSUME NEW P \in Seq(PhiRecords), NEW Q \in Seq(PhiRecords), Len(P) <= Len(Q)
  PROVE  ValuesOf(P) \subseteq ValuesOf(Q) /\ PhisOf(P) \subseteq PhisOf(Q)
  BY DEF ValuesOf, PhisOf

LEMMA ValueIsInt ==
  ASSUME NEW P \in Seq(PhiRecords), NEW v \in ValuesOf(P)
  PROVE  v \in Int /\ -Len(P) <= v /\ v < Nothing /\ (v < 0 => v \in PhisOf(P))
  BY BoundsAssumption DEF ValuesOf, PhisOf, Nothing

LEMMA PhiIsValue ==
  ASSUME NEW P \in Seq(PhiRecords), NEW p \in PhisOf(P)
  PROVE  /\ p \in Int /\ p < 0 /\ p \in ValuesOf(P)
         /\ -p \in DOMAIN P /\ -(-p) = p
  BY BoundsAssumption DEF ValuesOf, PhisOf

LEMMA UserIsUser ==
  \A i, j \in Int : BlockUser(i) \in Users /\ PhiUser(i) \in Users /\ InsUser(i, j) \in Users
  BY DEF Users, BlockUser, PhiUser, InsUser

LEMMA DataUsed ==
  ASSUME NEW B, NEW P, DataOK(B, P), NEW v \in ValuesOf(P), NEW u \in Users
  PROVE  /\ DataOK(B, Used(P, v, u))
         /\ ValuesOf(Used(P, v, u)) = ValuesOf(P) /\ PhisOf(Used(P, v, u)) = PhisOf(P)
         /\ \A k \in DOMAIN P : v = -k => u \in Used(P, v, u)[k].users
  <1>. DEFINE Q == Used(P, v, u)
  <1>1. P \in Seq(PhiRecords) /\ v \in Int /\ -Len(P) <= v
    BY ValueIsInt DEF DataOK
  <1>2. IsUsed(Q, P, v, u)
    BY <1>1, UsedPhis
  <1>4. UsersOK(B, Q)
    BY <1>1, UsersUsed DEF DataOK
  <1>. HIDE DEF Q
  <1>5. ValuesOf(Q) = ValuesOf(P) /\ PhisOf(Q) = PhisOf(P)
    BY <1>2 DEF ValuesOf, PhisOf, IsUsed
  <1>6. BlocksKnown(B, Q) /\ PhisKnown(B, Q)
    BY <1>2, <1>5 DEF DataOK, BlocksKnown, PhisKnown, BlockKnown, PhiKnown, IsUsed
  <1>7. \A k \in DOMAIN P : v = -k => u \in Q[k].users
    BY <1>1, <1>2, LenProperties DEF IsUsed
  <1>. QED  BY <1>2, <1>4, <1>5, <1>6, <1>7 DEF DataOK, Q, IsUsed

LEMMA DataMapped ==
  ASSUME NEW B, NEW P, DataOK(B, P), NEW b \in DOMAIN B, NEW name \in Vars, NEW v \in ValuesOf(P),
         \A k \in DOMAIN P : v = -k => BlockUser(b) \in P[k].users
  PROVE  DataOK(Mapped(B, b, name, v), P)
  <1>. DEFINE C == Mapped(B, b, name, v)
  <1>1. B \in Seq(BlockRecords) /\ P \in Seq(PhiRecords) /\ v \in Int
    BY ValueIsInt DEF DataOK
  <1>2. /\ C \in Seq(BlockRecords) /\ DOMAIN C = DOMAIN B
        /\ \A c \in DOMAIN B :
             /\ C[c].ssa_map = IF c = b THEN With(B[b].ssa_map, name, v) ELSE B[c].ssa_map
             /\ C[c].incomplete_phis = B[c].incomplete_phis
             /\ C[c].instructions = B[c].instructions
             /\ C[c].predecessors = B[c].predecessors
    <2>1. B \in Seq(BlockRecords)
      BY DEF DataOK
    <2>2. IsMapped(C, B, b, name, v)
      BY <1>1, <2>1, MappedBlocks
    <2>. QED  BY <2>2 DEF IsMapped
  <1>3. UsersOK(C, P)
    BY <1>1, UsersMapped DEF DataOK
  <1>. HIDE DEF C
  <1>4. \A x \in DOMAIN With(B[b].ssa_map, name, v) :
          With(B[b].ssa_map, name, v)[x] \in {v} \cup {B[b].ssa_map[y] : y \in DOMAIN B[b].ssa_map}
    BY DEF With
  <1>5. BlocksKnown(C, P)
    BY <1>2, <1>4 DEF DataOK, BlocksKnown, BlockKnown
  <1>6. GraphKnown(C) /\ PhisKnown(C, P)
    BY <1>2 DEF DataOK, GraphKnown, PhisKnown, PhiKnown
  <1>. QED  BY <1>1, <1>2, <1>3, <1>5, <1>6 DEF DataOK, C

(* write_variable.                                                         *)
LEMMA DataWritten ==
  ASSUME NEW B, NEW P, DataOK(B, P), NEW b \in DOMAIN B, NEW name \in Vars, NEW v \in ValuesOf(P)
  PROVE  DataOK(Mapped(B, b, name, v), Used(P, v, BlockUser(b)))
  <1>1. BlockUser(b) \in Users
    BY UserIsUser, LenProperties DEF DataOK
  <1>2. /\ DataOK(B, Used(P, v, BlockUser(b)))
        /\ v \in ValuesOf(Used(P, v, BlockUser(b)))
        /\ DOMAIN Used(P, v, BlockUser(b)) = DOMAIN P
        /\ \A k \in DOMAIN P : v = -k => BlockUser(b) \in Used(P, v, BlockUser(b))[k].users
    BY <1>1, DataUsed DEF Used
  <1>. QED  BY <1>2, DataMapped

LEMMA DataSame ==
  ASSUME NEW B, NEW P, DataOK(B, P), NEW C \in Seq(BlockRecords), DOMAIN C = DOMAIN B,
         \A b \in DOMAIN B :
           /\ C[b].ssa_map = B[b].ssa_map /\ C[b].instructions = B[b].instructions
           /\ C[b].predecessors \subseteq DOMAIN B
           /\ \A name \in DOMAIN C[b].incomplete_phis :
                C[b].incomplete_phis[name] \in PhisOf(P)
  PROVE  DataOK(C, P)
  <1>1. UsersOK(C, P)
    BY UsersSame DEF DataOK
  <1>2. BlocksKnown(C, P) /\ GraphKnown(C) /\ PhisKnown(C, P)
    BY DEF DataOK, BlocksKnown, BlockKnown, GraphKnown, PhisKnown, PhiKnown
  <1>. QED  BY <1>1, <1>2 DEF DataOK

LEMMA DataListed ==
  ASSUME NEW B, NEW P, DataOK(B, P), NEW b \in DOMAIN B, NEW p \in Int
  PROVE  DataOK(ListedIn(B, b, p), P)
  <1>. DEFINE C == ListedIn(B, b, p)
  <1>1. /\ C \in Seq(BlockRecords) /\ DOMAIN C = DOMAIN B
        /\ \A c \in DOMAIN B :
             /\ C[c].ssa_map = B[c].ssa_map /\ C[c].instructions = B[c].instructions
             /\ C[c].incomplete_phis = B[c].incomplete_phis
             /\ C[c].predecessors = B[c].predecessors
    <2>1. B \in Seq(BlockRecords)
      BY DEF DataOK
    <2>2. IsListed(C, B, b, p)
      BY <2>1, ListedBlocks
    <2>. QED  BY <2>2 DEF IsListed
  <1>. HIDE DEF C
  <1>2. \A c \in DOMAIN B : C[c].predecessors \subseteq DOMAIN B
    BY <1>1 DEF DataOK, GraphKnown
  <1>3. \A c \in DOMAIN B : \A x \in DOMAIN C[c].incomplete_phis :
          C[c].incomplete_phis[x] \in PhisOf(P)
    BY <1>1 DEF DataOK, BlocksKnown, BlockKnown
  <1>4. DataOK(C, P)
    BY <1>1, <1>2, <1>3, DataSame
  <1>. QED  BY <1>4 DEF C

LEMMA DataIncomplete ==
  ASSUME NEW B, NEW P, DataOK(B, P), NEW b \in DOMAIN B, NEW name \in Vars, NEW p \in PhisOf(P)
  PROVE  DataOK(IncompleteIn(B, b, name, p), P)
  <1>. DEFINE C == IncompleteIn(B, b, name, p)
  <1>1. B \in Seq(BlockRecords) /\ p \in Int
    BY DEF DataOK, PhisOf
  <1>2. /\ C \in Seq(BlockRecords) /\ DOMAIN C = DOMAIN B
        /\ \A c \in DOMAIN B :
             /\ C[c].ssa_map = B[c].ssa_map /\ C[c].instructions = B[c].instructions
             /\ C[c].incomplete_phis =
                  IF c = b THEN With(B[c].incomplete_phis, name, p) ELSE B[c].incomplete_phis
             /\ C[c].predecessors = B[c].predecessors
    <2>1. B \in Seq(BlockRecords)
      BY DEF DataOK
    <2>2. IsIncomplete(C, B, b, name, p)
      BY <1>1, <2>1, IncompleteBlocks
    <2>. QED  BY <2>2 DEF IsIncomplete
  <1>. HIDE DEF C
  <1>3. \A x \in DOMAIN With(B[b].incomplete_phis, name, p) :
          With(B[b].incomplete_phis, name, p)[x] \in
            {p} \cup {B[b].incomplete_phis[y] : y \in DOMAIN B[b].incomplete_phis}
    BY DEF With
  <1>4. \A c \in DOMAIN B : \A x \in DOMAIN C[c].incomplete_phis :
          C[c].incomplete_phis[x] \in PhisOf(P)
    BY <1>2, <1>3 DEF DataOK, BlocksKnown, BlockKnown
  <1>5. DataOK(C, P)
    BY <1>2, <1>4, DataSame DEF DataOK, GraphKnown
  <1>. QED  BY <1>5 DEF C

LEMMA DataSealed ==
  ASSUME NEW B, NEW P, DataOK(B, P), NEW b \in DOMAIN B
  PROVE  DataOK(SealedIn(B, b), P)
  <1>. DEFINE C == SealedIn(B, b)
  <1>1. /\ C \in Seq(BlockRecords) /\ DOMAIN C = DOMAIN B
        /\ \A c \in DOMAIN B :
             /\ C[c].ssa_map = B[c].ssa_map /\ C[c].instructions = B[c].instructions
             /\ C[c].incomplete_phis = IF c = b THEN <<>> ELSE B[c].incomplete_phis
             /\ C[c].predecessors = B[c].predecessors
    <2>1. B \in Seq(BlockRecords)
      BY DEF DataOK
    <2>2. IsSealed(C, B, b)
      BY <2>1, SealedBlocks
    <2>. QED  BY <2>2 DEF IsSealed
  <1>. HIDE DEF C
  <1>2. \A c \in DOMAIN B : \A x \in DOMAIN C[c].incomplete_phis :
          C[c].incomplete_phis[x] \in PhisOf(P)
    BY <1>1 DEF DataOK, BlocksKnown, BlockKnown
  <1>3. DataOK(C, P)
    BY <1>1, <1>2, DataSame DEF DataOK, GraphKnown
  <1>. QED  BY <1>3 DEF C

LEMMA DataEdges ==
  ASSUME NEW B, NEW P, DataOK(B, P), NEW b \in DOMAIN B, NEW T \in SUBSET DOMAIN B
  PROVE  DataOK(Edges(B, b, T), P)
  <1>. DEFINE C == Edges(B, b, T)
  <1>1. B \in Seq(BlockRecords) /\ T \in SUBSET Nat
    BY LenProperties DEF DataOK
  <1>2. /\ C \in Seq(BlockRecords) /\ DOMAIN C = DOMAIN B
        /\ \A c \in DOMAIN B :
             /\ C[c].ssa_map = B[c].ssa_map /\ C[c].instructions = B[c].instructions
             /\ C[c].incomplete_phis = B[c].incomplete_phis
             /\ C[c].predecessors =
                  IF c \in T THEN B[c].predecessors \cup {b} ELSE B[c].predecessors
    <2>1. HasEdges(C, B, b, T)
      BY <1>1, EdgesBlocks
    <2>. QED  BY <2>1 DEF HasEdges
  <1>. HIDE DEF C
  <1>3. \A c \in DOMAIN B : C[c].predecessors \subseteq DOMAIN B
    BY <1>2 DEF DataOK, GraphKnown
  <1>4. \A c \in DOMAIN B : \A x \in DOMAIN C[c].incomplete_phis :
          C[c].incomplete_phis[x] \in PhisOf(P)
    BY <1>2 DEF DataOK, BlocksKnown, BlockKnown
  <1>5. DataOK(C, P)
    BY <1>2, <1>3, <1>4, DataSame
  <1>. QED  BY <1>5 DEF C

LEMMA DataMoreBlocks ==
  ASSUME NEW B, NEW P, DataOK(B, P), NEW N \in Seq(BlockRecords),
         \A i \in DOMAIN N : N[i] \in {NewBlock(TRUE), NewBlock(FALSE)}
  PROVE  DataOK(B \o N, P)
  <1>. DEFINE C == B \o N
  <1>1. /\ C \in Seq(BlockRecords)
        /\ \A b \in DOMAIN B : b \in DOMAIN C /\ C[b] = B[b]
        /\ \A b \in DOMAIN C \ DOMAIN B : C[b] \in {NewBlock(TRUE), NewBlock(FALSE)}
    <2>1. B \in Seq(BlockRecords)
      BY DEF DataOK
    <2>2. C \in Seq(BlockRecords) /\ \A b \in DOMAIN B : b \in DOMAIN C /\ C[b] = B[b]
      BY <2>1, MoreBlocks
    <2>3. \A b \in DOMAIN C \ DOMAIN B : b - Len(B) \in DOMAIN N /\ C[b] = N[b - Len(B)]
      BY <2>1, MoreBlocks
    <2>. QED  BY <2>2, <2>3
  <1>. HIDE DEF C
  <1>2. \A b \in DOMAIN C \ DOMAIN B :
          /\ C[b].predecessors = {} /\ C[b].ssa_map = <<>>
          /\ C[b].incomplete_phis = <<>> /\ C[b].instructions = <<>>
    BY <1>1 DEF NewBlock
  <1>3. UsersOK(C, P)
    BY <1>1, <1>2, UsersSame DEF DataOK
  <1>4. GraphKnown(C)
    BY <1>1, <1>2 DEF DataOK, GraphKnown
  <1>5. BlocksKnown(C, P)
    BY <1>1, <1>2 DEF DataOK, BlocksKnown, BlockKnown
  <1>6. PhisKnown(C, P)
    BY <1>1 DEF DataOK, PhisKnown, PhiKnown
  <1>. QED  BY <1>1, <1>3, <1>4, <1>5, <1>6 DEF DataOK, C

LEMMA DataMorePhis ==
  ASSUME NEW B, NEW P, DataOK(B, P), NEW name \in Vars, NEW b \in DOMAIN B
  PROVE  LET Q == Append(P, NewPhi(name, b)) IN
           /\ DataOK(B, Q)
           /\ Len(P) <= Len(Q)
           /\ -(Len(P) + 1) \in PhisOf(Q)
  <1>. DEFINE Q == Append(P, NewPhi(name, b))
              n == Len(P) + 1
  <1>1. P \in Seq(PhiRecords) /\ b \in Nat
    BY LenProperties DEF DataOK
  <1>2. /\ Q \in Seq(PhiRecords) /\ Len(Q) = n /\ n \in Nat /\ Len(P) <= n
        /\ DOMAIN Q = DOMAIN P \cup {n}
        /\ \A k \in DOMAIN P : Q[k] = P[k]
        /\ Q[n] = NewPhi(name, b)
    <2>1. HasMore(Q, P, name, b)
      BY <1>1, MorePhis
    <2>. QED  BY <1>1, <2>1, LenProperties DEF HasMore
  <1>3. UsersOK(B, Q)
    BY <1>1, UsersMore, BoundsAssumption DEF DataOK
  <1>4. Q[n].block = b /\ DOMAIN Q[n].operands = {}
    BY <1>2 DEF NewPhi
  <1>. HIDE DEF Q, n
  <1>5. ValuesOf(P) \subseteq ValuesOf(Q) /\ PhisOf(P) \subseteq PhisOf(Q)
    BY <1>1, <1>2, MoreValues
  <1>6. PhisKnown(B, Q)
    BY <1>2, <1>4, <1>5 DEF DataOK, PhisKnown, PhiKnown
  <1>7. BlocksKnown(B, Q)
    BY <1>5 DEF DataOK, BlocksKnown, BlockKnown
  <1>8. -n \in PhisOf(Q)
    BY <1>1, <1>2, LenProperties DEF PhisOf, n
  <1>. QED  BY <1>2, <1>3, <1>6, <1>7, <1>8 DEF DataOK, Q, n

LEMMA DataOperand ==
  ASSUME NEW B, NEW P, DataOK(B, P), NEW k \in DOMAIN P, NEW b \in Nat, NEW v \in ValuesOf(P)
  PROVE  LET Q == Used(OperandIn(P, k, b, v), v, PhiUser(-k)) IN
           DataOK(B, Q) /\ Len(Q) = Len(P)
  <1>. DEFINE R == OperandIn(P, k, b, v)
              Q == Used(R, v, PhiUser(-k))
  <1>1. P \in Seq(PhiRecords) /\ v \in Int /\ -Len(P) <= v /\ PhiUser(-k) \in Users
    BY ValueIsInt, UserIsUser, LenProperties DEF DataOK
  <1>2. UsersOK(B, Q)
    BY <1>1, UsersOperand DEF DataOK
  <1>3. /\ R \in Seq(PhiRecords) /\ Len(R) = Len(P) /\ DOMAIN R = DOMAIN P
        /\ \A j \in DOMAIN P : R[j].block = P[j].block /\ (j # k => R[j].operands = P[j].operands)
        /\ DOMAIN R[k].operands = DOMAIN P[k].operands \cup {b}
        /\ \A c \in DOMAIN P[k].operands : R[k].operands[c] = P[k].operands[c]
        /\ b \notin DOMAIN P[k].operands => R[k].operands[b] = v
    <2>1. HasOperand(R, P, k, b, v)
      BY <1>1, OperandPhis
    <2>. QED  BY <2>1 DEF HasOperand
  <1>. HIDE DEF R
  <1>4. /\ Q \in Seq(PhiRecords) /\ Len(Q) = Len(R) /\ DOMAIN Q = DOMAIN R
        /\ \A j \in DOMAIN R : Q[j].block = R[j].block /\ Q[j].operands = R[j].operands
    <2>1. IsUsed(Q, R, v, PhiUser(-k))
      BY <1>1, <1>3, UsedPhis
    <2>. QED  BY <2>1 DEF IsUsed
  <1>. HIDE DEF Q
  <1>5. ValuesOf(Q) = ValuesOf(P) /\ PhisOf(Q) = PhisOf(P)
    BY <1>3, <1>4 DEF ValuesOf, PhisOf
  <1>6. \A c \in DOMAIN R[k].operands : R[k].operands[c] \in ValuesOf(P)
    BY <1>3 DEF DataOK, PhisKnown, PhiKnown
  <1>7. PhisKnown(B, Q)
    <2>. SUFFICES ASSUME NEW j \in DOMAIN Q  PROVE PhiKnown(Q[j], B, Q)
      BY DEF PhisKnown
    <2>1. j \in DOMAIN P /\ Q[j].block = P[j].block /\ Q[j].operands = R[j].operands
      BY <1>3, <1>4
    <2>2. PhiKnown(P[j], B, P)
      BY <2>1 DEF DataOK, PhisKnown
    <2>3. CASE j = k
      BY <1>5, <1>6, <2>1, <2>2, <2>3 DEF PhiKnown
    <2>4. CASE j # k
      BY <1>3, <1>5, <2>1, <2>2, <2>4 DEF PhiKnown
    <2>. QED  BY <2>3, <2>4
  <1>8. BlocksKnown(B, Q)
    BY <1>5 DEF DataOK, BlocksKnown, BlockKnown
  <1>. QED  BY <1>2, <1>3, <1>4, <1>7, <1>8 DEF DataOK, Q, R

LEMMA DataLonger ==
  ASSUME NEW B, NEW P, DataOK(B, P), NEW b \in DOMAIN B, NEW ins \in Instructions,
         ins.value \in ValuesOf(P) \cup {Nothing},
         \A k \in DOMAIN P :
           ins.value = -k => InsUser(b, Len(B[b].instructions) + 1) \in P[k].users
  PROVE  DataOK(LongerIn(B, b, ins), P)
  <1>. DEFINE C == LongerIn(B, b, ins)
              n == Len(B[b].instructions) + 1
  <1>1. /\ C \in Seq(BlockRecords) /\ DOMAIN C = DOMAIN B
        /\ \A c \in DOMAIN B :
             /\ C[c].ssa_map = B[c].ssa_map /\ C[c].incomplete_phis = B[c].incomplete_phis
             /\ c # b => C[c].instructions = B[c].instructions
             /\ C[c].predecessors = B[c].predecessors
        /\ DOMAIN C[b].instructions = DOMAIN B[b].instructions \cup {n}
        /\ C[b].instructions[n] = ins
        /\ \A i \in DOMAIN B[b].instructions : C[b].instructions[i] = B[b].instructions[i]
    <2>1. B \in Seq(BlockRecords)
      BY DEF DataOK
    <2>2. IsLonger(C, B, b, ins)
      BY <2>1, LongerBlocks
    <2>. QED  BY <2>2 DEF IsLonger
  <1>2. UsersOK(C, P)
    BY UsersLonger DEF DataOK
  <1>. HIDE DEF C, n
  <1>3. \A i \in DOMAIN C[b].instructions :
          C[b].instructions[i].value \in ValuesOf(P) \cup {Nothing}
    BY <1>1 DEF DataOK, BlocksKnown, BlockKnown
  <1>4. BlocksKnown(C, P)
    BY <1>1, <1>3 DEF DataOK, BlocksKnown, BlockKnown
  <1>5. GraphKnown(C) /\ PhisKnown(C, P)
    BY <1>1 DEF DataOK, GraphKnown, PhisKnown, PhiKnown
  <1>. QED  BY <1>1, <1>2, <1>4, <1>5 DEF DataOK, C

LEMMA TouchedUsers ==
  ASSUME NEW U, NEW p
  PROVE  /\ \A j \in DOMAIN phi : \A c \in DOMAIN phi[j].operands :
              j \in Int /\ PhiUser(-j) \in U /\ phi[j].operands[c] = p =>
                PhiUser(-j) \in Touched(U, p)
         /\ \A b, name : BlockUser(b) \in U /\ name \in DOMAIN block[b].ssa_map
                         /\ block[b].ssa_map[name] = p => BlockUser(b) \in Touched(U, p)
         /\ \A b, i : InsUser(b, i) \in U /\ block[b].instructions[i].value = p =>
                        InsUser(b, i) \in Touched(U, p)
  <1>1. ASSUME NEW j \in DOMAIN phi, NEW c \in DOMAIN phi[j].operands, j \in Int,
               PhiUser(-j) \in U, phi[j].operands[c] = p
        PROVE  PhiUser(-j) \in Touched(U, p)
    <2>1. -(-j) = j
      BY <1>1
    <2>. QED  BY <1>1, <2>1 DEF Touched, PhiUser, PhiAt
  <1>2. ASSUME NEW b, NEW name, BlockUser(b) \in U, name \in DOMAIN block[b].ssa_map,
               block[b].ssa_map[name] = p
        PROVE  BlockUser(b) \in Touched(U, p)
    BY <1>2 DEF Touched, BlockUser
  <1>3. ASSUME NEW b, NEW i, InsUser(b, i) \in U, block[b].instructions[i].value = p
        PROVE  InsUser(b, i) \in Touched(U, p)
    BY <1>3 DEF Touched, InsUser
  <1>. QED  BY <1>1, <1>2, <1>3

LEMMA DistinctUsers ==
  /\ \A i, j, k : BlockUser(i) # PhiUser(k) /\ InsUser(i, j) # PhiUser(k)
  /\ \A i, j : PhiUser(i) = PhiUser(j) => i = j
  BY DEF BlockUser, PhiUser, InsUser

(* A phi p is replaced by same in all its users, and is not valid any more. *)
LEMMA UsersRemoved ==
  ASSUME DataOK(block, phi), NEW p \in PhisOf(phi), NEW same \in ValuesOf(phi), NEW C, NEW Q,
         NEW U \in SUBSET Users, IsRemoved(C, U, p, same), IsForgotten(Q, U, p, same)
  PROVE  UsersOK(C, Q)
  <1>. SUFFICES ASSUME NEW k \in DOMAIN Q, Q[k].valid
                PROVE  /\ \A j \in DOMAIN Q : Q[j].valid => \A c \in DOMAIN Q[j].operands :
                            Q[j].operands[c] = -k => PhiUser(-j) \in Q[k].users
                       /\ \A b \in DOMAIN C :
                            /\ \A name \in DOMAIN C[b].ssa_map :
                                 C[b].ssa_map[name] = -k => BlockUser(b) \in Q[k].users
                            /\ \A i \in DOMAIN C[b].instructions :
                                 C[b].instructions[i].value = -k => InsUser(b, i) \in Q[k].users
    BY DEF UsersOK
  <1>1. /\ k \in DOMAIN phi /\ phi[k].valid /\ -k # p /\ k \in Int
        /\ phi[k].users \ {PhiUser(p)} \subseteq Q[k].users
        /\ -k = same => Touched(U, p) \ {PhiUser(p)} \subseteq Q[k].users
    <2>1. phi \in Seq(PhiRecords) /\ k \in DOMAIN phi
      BY DEF IsForgotten, DataOK
    <2>2. k \in Int
      BY <2>1, LenProperties
    <2>. QED  BY <2>1, <2>2 DEF IsForgotten
  <1>2. ASSUME NEW j \in DOMAIN Q, Q[j].valid, NEW c \in DOMAIN Q[j].operands,
               Q[j].operands[c] = -k
        PROVE  PhiUser(-j) \in Q[k].users
    <2>1. /\ j \in DOMAIN phi /\ phi[j].valid /\ -j # p /\ j \in Int
          /\ Q[j].operands = IF PhiUser(-j) \in U THEN Subst(phi[j].operands, p, same)
                             ELSE phi[j].operands
      <3>1. phi \in Seq(PhiRecords) /\ j \in DOMAIN phi
        BY DEF IsForgotten, DataOK
      <3>2. j \in Int
        BY <3>1, LenProperties
      <3>. QED  BY <1>2, <3>1, <3>2 DEF IsForgotten
    <2>2. c \in DOMAIN phi[j].operands
      BY <1>2, <2>1 DEF Subst
    <2>3. PhiUser(-j) # PhiUser(p)
      BY <2>1, DistinctUsers
    <2>4. CASE PhiUser(-j) \in U /\ phi[j].operands[c] = p
      <3>1. same = -k
        BY <1>2, <2>1, <2>2, <2>4 DEF Subst
      <3>2. PhiUser(-j) \in Touched(U, p)
        BY <2>1, <2>2, <2>4, TouchedUsers
      <3>. QED  BY <1>1, <2>3, <3>1, <3>2
    <2>5. CASE ~(PhiUser(-j) \in U /\ phi[j].operands[c] = p)
      <3>1. phi[j].operands[c] = -k
        BY <1>2, <2>1, <2>2, <2>5 DEF Subst
      <3>2. PhiUser(-j) \in phi[k].users
        BY <1>1, <2>1, <2>2, <3>1 DEF DataOK, UsersOK
      <3>. QED  BY <1>1, <2>3, <3>2
    <2>. QED  BY <2>4, <2>5
  <1>3. ASSUME NEW b \in DOMAIN C, NEW name \in DOMAIN C[b].ssa_map, C[b].ssa_map[name] = -k
        PROVE  BlockUser(b) \in Q[k].users
    <2>1. /\ b \in DOMAIN block
          /\ C[b].ssa_map = IF BlockUser(b) \in U THEN Subst(block[b].ssa_map, p, same)
                            ELSE block[b].ssa_map
      BY DEF IsRemoved, RemovedFrom
    <2>2. name \in DOMAIN block[b].ssa_map
      BY <1>3, <2>1 DEF Subst
    <2>4. CASE BlockUser(b) \in U /\ block[b].ssa_map[name] = p
      <3>1. same = -k
        BY <1>3, <2>1, <2>2, <2>4 DEF Subst
      <3>2. BlockUser(b) \in Touched(U, p)
        BY <2>1, <2>2, <2>4, TouchedUsers
      <3>. QED  BY <1>1, <3>1, <3>2, DistinctUsers
    <2>5. CASE ~(BlockUser(b) \in U /\ block[b].ssa_map[name] = p)
      <3>1. block[b].ssa_map[name] = -k
        BY <1>3, <2>1, <2>2, <2>5 DEF Subst
      <3>2. BlockUser(b) \in phi[k].users
        BY <1>1, <2>1, <2>2, <3>1 DEF DataOK, UsersOK
      <3>. QED  BY <1>1, <3>2, DistinctUsers
    <2>. QED  BY <2>4, <2>5
  <1>4. ASSUME NEW b \in DOMAIN C, NEW i \in DOMAIN C[b].instructions,
               C[b].instructions[i].value = -k
        PROVE  InsUser(b, i) \in Q[k].users
    <2>1. /\ b \in DOMAIN block /\ i \in DOMAIN block[b].instructions
          /\ C[b].instructions[i].value =
               IF InsUser(b, i) \in U /\ block[b].instructions[i].value = p
               THEN same ELSE block[b].instructions[i].value
      <3>1. b \in DOMAIN block /\ RemovedFrom(C[b], block[b], b, U, p, same)
        BY DEF IsRemoved
      <3>2. \A x \in DOMAIN block[b].instructions :
              C[b].instructions[x].value =
               IF InsUser(b, x) \in U /\ block[b].instructions[x].value = p
               THEN same ELSE block[b].instructions[x].value
        BY <3>1 DEF RemovedFrom
      <3>3. i \in DOMAIN block[b].instructions
        BY <1>4, <3>1 DEF RemovedFrom
      <3>. QED  BY <3>1, <3>2, <3>3
    <2>2. CASE InsUser(b, i) \in U /\ block[b].instructions[i].value = p
      <3>1. InsUser(b, i) \in Touched(U, p) /\ same = -k
        BY <1>4, <2>1, <2>2, TouchedUsers
      <3>. QED  BY <1>1, <3>1, DistinctUsers
    <2>3. CASE ~(InsUser(b, i) \in U /\ block[b].instructions[i].value = p)
      <3>1. InsUser(b, i) \in phi[k].users
        BY <1>1, <1>4, <2>1, <2>3 DEF DataOK, UsersOK
      <3>. QED  BY <1>1, <3>1, DistinctUsers
    <2>. QED  BY <2>2, <2>3
  <1>. QED  BY <1>2, <1>3, <1>4

LEMMA DataRemoved ==
  ASSUME DataOK(block, phi), NEW p \in PhisOf(phi), NEW same \in ValuesOf(phi),
         NEW U \in SUBSET Users
  PROVE  /\ DataOK(BlocksWith(U, p, same), PhisWith(U, p, same))
         /\ IsRemoved(BlocksWith(U, p, same), U, p, same)
         /\ IsForgotten(PhisWith(U, p, same), U, p, same)
  <1>. DEFINE C == BlocksWith(U, p, same)
              Q == PhisWith(U, p, same)
  <1>1. /\ block \in Seq(BlockRecords) /\ phi \in Seq(PhiRecords) /\ p \in Int /\ same \in Int
    BY ValueIsInt, PhiIsValue DEF DataOK
  <1>2. IsRemoved(C, U, p, same) /\ IsForgotten(Q, U, p, same)
    BY <1>1, RemovedBlocks, RemovedPhis
  <1>. HIDE DEF C, Q
  <1>3. UsersOK(C, Q)
    BY <1>2, UsersRemoved
  <1>4. ValuesOf(Q) = ValuesOf(phi) /\ PhisOf(Q) = PhisOf(phi)
    BY <1>2 DEF IsForgotten, ValuesOf, PhisOf
  <1>5. GraphKnown(C)
    BY <1>2 DEF IsRemoved, RemovedFrom, DataOK, GraphKnown
  <1>6. BlocksKnown(C, Q)
    <2>. SUFFICES ASSUME NEW b \in DOMAIN C  PROVE BlockKnown(C[b], Q)
      BY DEF BlocksKnown
    <2>1. /\ b \in DOMAIN block /\ BlockKnown(block[b], phi)
          /\ C[b].incomplete_phis = block[b].incomplete_phis
          /\ C[b].ssa_map = IF BlockUser(b) \in U THEN Subst(block[b].ssa_map, p, same)
                            ELSE block[b].ssa_map
      BY <1>2 DEF IsRemoved, RemovedFrom, DataOK, BlocksKnown
    <2>2. \A name \in DOMAIN C[b].ssa_map : C[b].ssa_map[name] \in ValuesOf(Q)
      BY <1>4, <2>1 DEF Subst, BlockKnown
    <2>3. \A i \in DOMAIN C[b].instructions :
            C[b].instructions[i].value \in ValuesOf(Q) \cup {Nothing}
      <3>1. ASSUME NEW i \in DOMAIN C[b].instructions
            PROVE  C[b].instructions[i].value \in {same, block[b].instructions[i].value}
                   /\ i \in DOMAIN block[b].instructions
        BY <1>2, <2>1 DEF IsRemoved, RemovedFrom
      <3>2. \A i \in DOMAIN block[b].instructions :
              block[b].instructions[i].value \in ValuesOf(phi) \cup {Nothing}
        BY <2>1 DEF BlockKnown
      <3>. QED  BY <1>4, <3>1, <3>2
    <2>. QED  BY <1>4, <2>1, <2>2, <2>3 DEF BlockKnown
  <1>7. PhisKnown(C, Q)
    <2>. SUFFICES ASSUME NEW k \in DOMAIN Q  PROVE PhiKnown(Q[k], C, Q)
      BY DEF PhisKnown
    <2>1. /\ k \in DOMAIN phi /\ PhiKnown(phi[k], block, phi)
          /\ Q[k].block = phi[k].block
          /\ Q[k].operands = IF PhiUser(-k) \in U THEN Subst(phi[k].operands, p, same)
                             ELSE phi[k].operands
          /\ DOMAIN C = DOMAIN block
      BY <1>2 DEF IsRemoved, RemovedFrom, IsForgotten, DataOK, PhisKnown
    <2>. QED  BY <1>4, <2>1 DEF Subst, PhiKnown
  <1>8. C \in Seq(BlockRecords) /\ Q \in Seq(PhiRecords)
    BY <1>2 DEF IsRemoved, RemovedFrom, IsForgotten
  <1>. QED  BY <1>2, <1>3, <1>5, <1>6, <1>7, <1>8 DEF DataOK, C, Q

-----------------------------------------------------------------------------
(* The stack and what its frames name.                                     *)

StackOK(S, B, P) ==
  /\ S \in Seq(Frames)
  /\ FramesKnown(S, B, P)
  /\ Bottom(S)

LEMMA StackTop ==
  ASSUME NEW S, NEW B, NEW P, StackOK(S, B, P), S # <<>>
  PROVE  /\ Head(S) \in Frames /\ FrameKnown(Head(S), B, P) /\ Head(S) = S[1] /\ 1 \in DOMAIN S
         /\ Head(S).fn \in {"seal", "use", "copy"} => Tail(S) = <<>>
  <1>1. S \in Seq(Frames)
    BY DEF StackOK
  <1>2. Head(S) = S[1] /\ 1 \in DOMAIN S /\ Head(S) \in Frames
    BY <1>1, Popped
  <1>3. FrameKnown(Head(S), B, P)
    BY <1>2 DEF StackOK, FramesKnown
  <1>4. ASSUME Head(S).fn \in {"seal", "use", "copy"}  PROVE Tail(S) = <<>>
    <2>1. Len(S) = 1
      BY <1>2, <1>4 DEF StackOK, Bottom
    <2>2. Tail(S) \in Seq(Frames) /\ Len(Tail(S)) = 0
      BY <1>1, <1>2, <2>1, Popped
    <2>. QED  BY <2>2, EmptySeq
  <1>. QED  BY <1>2, <1>3, <1>4

LEMMA StackPopped ==
  ASSUME NEW S, NEW B, NEW P, StackOK(S, B, P), S # <<>>
  PROVE  StackOK(Tail(S), B, P)
  <1>1. S \in Seq(Frames)
    BY DEF StackOK
  <1>. DEFINE T == Tail(S)
  <1>2. /\ T \in Seq(Frames) /\ Len(T) = Len(S) - 1 /\ Len(S) \in Nat
        /\ \A i \in DOMAIN T : i \in Int /\ i + 1 \in DOMAIN S /\ T[i] = S[i + 1]
    BY <1>1, Popped, LenProperties
  <1>. HIDE DEF T
  <1>3. FramesKnown(T, B, P) /\ Bottom(T)
    BY <1>2 DEF StackOK, FramesKnown, Bottom
  <1>. QED  BY <1>2, <1>3 DEF StackOK, T

LEMMA StackReplaced ==
  ASSUME NEW S, NEW B, NEW P, StackOK(S, B, P), S # <<>>,
         NEW a \in Frames, FrameKnown(a, B, P),
         a.fn \in {"seal", "use", "copy"} <=> Head(S).fn \in {"seal", "use", "copy"}
  PROVE  StackOK(<<a>> \o Tail(S), B, P)
  <1>. DEFINE T == <<a>> \o Tail(S)
  <1>1. S \in Seq(Frames)
    BY DEF StackOK
  <1>2. /\ T \in Seq(Frames) /\ Len(T) = Len(S) /\ T[1] = a
        /\ \A i \in 2 .. Len(S) : T[i] = S[i]
    BY <1>1, Replaced
  <1>3. Head(S) = S[1] /\ 1 \in DOMAIN S /\ DOMAIN S = 1 .. Len(S) /\ Len(S) \in Nat
    BY <1>1, Popped, LenProperties
  <1>. HIDE DEF T
  <1>4. DOMAIN T = DOMAIN S /\ \A i \in DOMAIN S : T[i] = IF i = 1 THEN a ELSE S[i]
    BY <1>2, <1>3, LenProperties
  <1>5. FramesKnown(T, B, P)
    BY <1>4 DEF StackOK, FramesKnown
  <1>6. Bottom(T)
    BY <1>2, <1>3, <1>4 DEF StackOK, Bottom
  <1>. QED  BY <1>2, <1>5, <1>6 DEF StackOK, T

LEMMA StackPushed ==
  ASSUME NEW S, NEW B, NEW P, StackOK(S, B, P), S # <<>>,
         NEW a \in Frames, FrameKnown(a, B, P), a.fn \notin {"seal", "use", "copy"},
         NEW b \in Frames, FrameKnown(b, B, P),
         b.fn \in {"seal", "use", "copy"} <=> Head(S).fn \in {"seal", "use", "copy"}
  PROVE  StackOK(<<a, b>> \o Tail(S), B, P)
  <1>. DEFINE T == <<a, b>> \o Tail(S)
  <1>1. S \in Seq(Frames)
    BY DEF StackOK
  <1>2. /\ T \in Seq(Frames) /\ Len(T) = Len(S) + 1 /\ T[1] = a /\ T[2] = b
        /\ \A i \in 3 .. Len(S) + 1 : T[i] = S[i - 1]
    BY <1>1, Pushed
  <1>3. Head(S) = S[1] /\ 1 \in DOMAIN S /\ DOMAIN S = 1 .. Len(S) /\ Len(S) \in Nat
    BY <1>1, Popped, LenProperties
  <1>. HIDE DEF T
  <1>4. DOMAIN T = 1 .. Len(S) + 1
    BY <1>2, LenProperties
  <1>5. \A i \in DOMAIN T : i = 1 \/ i = 2 \/ (i - 1 \in DOMAIN S /\ T[i] = S[i - 1] /\ i > 2)
    BY <1>2, <1>3, <1>4
  <1>6. FramesKnown(T, B, P)
    BY <1>2, <1>5 DEF StackOK, FramesKnown
  <1>7. Bottom(T)
    BY <1>2, <1>3, <1>4, <1>5 DEF StackOK, Bottom
  <1>. QED  BY <1>2, <1>6, <1>7 DEF StackOK, T

LEMMA StackKept ==
  ASSUME NEW S, NEW B, NEW P, StackOK(S, B, P), NEW C, NEW Q,
         ValuesOf(P) \subseteq ValuesOf(Q), PhisOf(P) \subseteq PhisOf(Q),
         \A b \in DOMAIN B : /\ b \in DOMAIN C
                             /\ DOMAIN B[b].incomplete_phis \subseteq DOMAIN C[b].incomplete_phis
  PROVE  StackOK(S, C, Q)
  <1>1. ASSUME NEW i \in DOMAIN S  PROVE FrameKnown(S[i], C, Q)
    BY DEF StackOK, FramesKnown, FrameKnown
  <1>. QED  BY <1>1 DEF StackOK, FramesKnown

-----------------------------------------------------------------------------
(* The invariant of the data.                                              *)

ASTOK ==
  /\ bb \in DOMAIN block
  /\ afterJump \in BOOLEAN
  /\ open \in Seq(Opens)
  /\ \A i \in DOMAIN open : OpenKnown(open[i], block)
  /\ defs \in 0 .. MaxDefs
  /\ reads \in Nat

Sound ==
  /\ DataOK(block, phi)
  /\ StackOK(stack, block, phi)
  /\ ret \in ValuesOf(phi) \cup {Nothing}
  /\ ASTOK

LEMMA ASTKept ==
  ASSUME ASTOK, UNCHANGED AST, \A b \in DOMAIN block : b \in DOMAIN block'
  PROVE  ASTOK'
  BY DEF ASTOK, AST, OpenKnown

LEMMA TopFrame ==
  ASSUME Sound, stack # <<>>
  PROVE  /\ Top \in Frames /\ FrameKnown(Top, block, phi)
         /\ Top.fn \in {"read", "single", "join"} => Top.block \in DOMAIN block /\ Top.name \in Vars
         /\ Top.fn = "operands" => /\ Top.phi \in PhisOf(phi) /\ Top.name \in Vars
                                   /\ Top.rest \in SUBSET DOMAIN block /\ Top.pred \in Nat
         /\ Top.fn = "remove" => Top.phi \in PhisOf(phi)
         /\ Top.fn = "cascade" => /\ Top.same \in ValuesOf(phi) /\ Top.rest \in SUBSET PhisOf(phi)
                                  /\ Top.use \in Int
         /\ Top.fn = "seal" =>
              /\ Top.block \in DOMAIN block
              /\ Top.rest \subseteq DOMAIN block[Top.block].incomplete_phis
              /\ Top.rest \in SUBSET Vars
         /\ Top.fn \in {"use", "copy"} => Top.name \in Vars /\ Top.to \in Vars
         /\ Top.fn \in {"seal", "use", "copy"} => Tail(stack) = <<>>
         /\ StackOK(Tail(stack), block, phi)
  <1>1. StackOK(stack, block, phi)
    BY DEF Sound
  <1>2. Top \in Frames /\ FrameKnown(Top, block, phi)
        /\ (Top.fn \in {"seal", "use", "copy"} => Tail(stack) = <<>>)
    BY <1>1, StackTop DEF Top
  <1>3. StackOK(Tail(stack), block, phi)
    BY <1>1, StackPopped
  <1>. HIDE DEF Top
  <1>. QED  BY <1>2, <1>3, FrameFields DEF FrameKnown, Top

LEMMA BlockTypes ==
  ASSUME Sound
  PROVE  /\ \A b \in DOMAIN block : b \in Nat /\ block[b] \in BlockRecords
         /\ \A k \in DOMAIN phi : k \in Nat /\ k > 0 /\ phi[k] \in PhiRecords
         /\ \A b \in DOMAIN block : block[b].predecessors \in SUBSET DOMAIN block
         /\ \A b \in DOMAIN block : \A name \in DOMAIN block[b].ssa_map :
              block[b].ssa_map[name] \in ValuesOf(phi)
         /\ \A b \in DOMAIN block : \A name \in DOMAIN block[b].incomplete_phis :
              block[b].incomplete_phis[name] \in PhisOf(phi)
         /\ Nothing \notin ValuesOf(phi)
  <1>1. block \in Seq(BlockRecords) /\ phi \in Seq(PhiRecords)
    BY DEF Sound, DataOK
  <1>2. /\ \A b \in DOMAIN block : b \in Nat /\ block[b] \in BlockRecords
        /\ \A k \in DOMAIN phi : k \in Nat /\ k > 0 /\ phi[k] \in PhiRecords
    BY <1>1, LenProperties
  <1>3. Nothing \notin ValuesOf(phi)
    BY BoundsAssumption DEF ValuesOf, Nothing
  <1>. QED  BY <1>2, <1>3 DEF Sound, DataOK, GraphKnown, BlocksKnown, BlockKnown

-----------------------------------------------------------------------------
(* The calls keep it.                                                      *)

LEMMA ReadHitSound ==
  ASSUME Sound, ReadHit
  PROVE  Sound'
  <1>1. stack # <<>> /\ Top.fn = "read" /\ stack' = Tail(stack) /\ block' = block /\ phi' = phi
        /\ ret' = block[Top.block].ssa_map[Top.name]
        /\ Top.name \in DOMAIN block[Top.block].ssa_map
        /\ UNCHANGED AST
    BY DEF ReadHit, Calling, Return
  <1>2. ret' \in ValuesOf(phi)
    BY <1>1, TopFrame, BlockTypes
  <1>3. StackOK(stack', block', phi')
    BY <1>1, TopFrame
  <1>4. ASTOK'
    BY <1>1, ASTKept DEF Sound
  <1>. QED  BY <1>1, <1>2, <1>3, <1>4 DEF Sound

LEMMA ReadIncompleteSound ==
  ASSUME Sound, ReadIncomplete
  PROVE  Sound'
  <1>. DEFINE b == Top.block
              name == Top.name
              p == -(Len(phi) + 1)
              P == Append(phi, NewPhi(name, b))
              Q == Used(P, p, BlockUser(b))
              M == Mapped(block, b, name, p)
  <1>1. /\ stack # <<>> /\ Top.fn = "read" /\ stack' = Tail(stack) /\ ret' = p
        /\ block' = IncompleteIn(M, b, name, p) /\ phi' = Q
        /\ UNCHANGED AST
    BY DEF ReadIncomplete, Calling, Return, IncompleteIn
  <1>2. b \in DOMAIN block /\ name \in Vars /\ StackOK(Tail(stack), block, phi)
    BY <1>1, TopFrame
  <1>3. DataOK(block, P) /\ p \in PhisOf(P) /\ p \in ValuesOf(P) /\ Len(phi) <= Len(P)
    BY <1>2, DataMorePhis, PhiIsValue DEF Sound, DataOK
  <1>. HIDE DEF p, P
  <1>4. DataOK(M, Q)
    BY <1>2, <1>3, DataWritten
  <1>5. PhisOf(Q) = PhisOf(P) /\ ValuesOf(Q) = ValuesOf(P)
    BY <1>2, <1>3, BlockTypes, DataUsed, UserIsUser
  <1>6. IsMapped(M, block, b, name, p)
    BY <1>2, <1>3, MappedBlocks, PhiIsValue DEF DataOK
  <1>. HIDE DEF M, Q
  <1>7. DOMAIN M = DOMAIN block
    BY <1>6 DEF IsMapped
  <1>8. DataOK(block', phi')
    BY <1>1, <1>2, <1>3, <1>4, <1>5, <1>7, DataIncomplete
  <1>9. IsIncomplete(block', M, b, name, p)
    BY <1>1, <1>2, <1>3, <1>4, <1>7, IncompleteBlocks, PhiIsValue DEF DataOK
  <1>10. ASSUME NEW c \in DOMAIN block
         PROVE  /\ c \in DOMAIN block'
                /\ DOMAIN block[c].incomplete_phis \subseteq DOMAIN block'[c].incomplete_phis
    <2>1. /\ c \in DOMAIN block' /\ M[c].incomplete_phis = block[c].incomplete_phis
          /\ block'[c].incomplete_phis =
               IF c = b THEN With(M[c].incomplete_phis, name, p) ELSE M[c].incomplete_phis
      BY <1>6, <1>7, <1>9 DEF IsMapped, IsIncomplete
    <2>. QED  BY <2>1 DEF With
  <1>11. ValuesOf(phi) \subseteq ValuesOf(phi') /\ PhisOf(phi) \subseteq PhisOf(phi')
    BY <1>1, <1>3, <1>5, MoreValues DEF Sound, DataOK
  <1>12. StackOK(stack', block', phi')
    BY <1>1, <1>2, <1>10, <1>11, StackKept
  <1>13. ASTOK'
    BY <1>1, <1>10, ASTKept DEF Sound
  <1>. QED  BY <1>1, <1>3, <1>5, <1>8, <1>12, <1>13 DEF Sound

LEMMA ReadSingleSound ==
  ASSUME Sound, ReadSingle
  PROVE  Sound'
  <1>1. PICK pre \in block[Top.block].predecessors :
          stack' = <<ReadFrame("read", pre, Top.name), ReadFrame("single", Top.block, Top.name)>>
                     \o Tail(stack)
    BY DEF ReadSingle, Replace
  <1>2. stack # <<>> /\ Top.fn = "read" /\ block' = block /\ phi' = phi /\ ret' = ret /\ UNCHANGED AST
    BY DEF ReadSingle, Calling
  <1>3. Top.block \in DOMAIN block /\ Top.name \in Vars /\ pre \in DOMAIN block
    BY <1>1, <1>2, TopFrame, BlockTypes
  <1>. DEFINE x == ReadFrame("read", pre, Top.name)
              y == ReadFrame("single", Top.block, Top.name)
  <1>4. x \in Frames /\ y \in Frames
    BY <1>3, BlockTypes, FrameMade
  <1>5. /\ FrameKnown(x, block, phi) /\ FrameKnown(y, block, phi)
        /\ x.fn = "read" /\ y.fn = "single"
    BY <1>3 DEF FrameKnown, ReadFrame
  <1>. HIDE DEF x, y
  <1>6. StackOK(<<x, y>> \o Tail(stack), block, phi)
    BY <1>2, <1>4, <1>5, StackPushed DEF Sound, Top
  <1>7. StackOK(stack', block', phi')
    BY <1>1, <1>2, <1>6 DEF x, y
  <1>8. ASTOK'
    BY <1>2, ASTKept DEF Sound
  <1>. QED  BY <1>2, <1>7, <1>8 DEF Sound

(* write_variable and the return of the value written.                     *)
LEMMA WrittenSound ==
  ASSUME Sound, stack # <<>>, NEW b \in DOMAIN block, NEW name \in Vars, NEW v \in ValuesOf(phi),
         NEW C, DataOK(C, Used(phi, v, BlockUser(b))),
         \A c \in DOMAIN block : c \in DOMAIN C /\ C[c].incomplete_phis = block[c].incomplete_phis,
         block' = C, phi' = Used(phi, v, BlockUser(b)), stack' = Tail(stack),
         ret' = v \/ ret' = Nothing, UNCHANGED AST
  PROVE  Sound'
  <1>1. ValuesOf(phi') = ValuesOf(phi) /\ PhisOf(phi') = PhisOf(phi)
    BY DataUsed, UserIsUser, BlockTypes DEF Sound
  <1>2. StackOK(Tail(stack), block, phi)
    BY StackPopped DEF Sound
  <1>3. StackOK(stack', block', phi')
    BY <1>1, <1>2, StackKept
  <1>4. ASTOK'
    BY ASTKept DEF Sound
  <1>. QED  BY <1>1, <1>3, <1>4 DEF Sound

LEMMA ReadSingleReturnSound ==
  ASSUME Sound, ReadSingleReturn
  PROVE  Sound'
  <1>1. /\ stack # <<>> /\ Top.fn = "single" /\ ret # Nothing /\ stack' = Tail(stack) /\ ret' = ret
        /\ block' = Mapped(block, Top.block, Top.name, ret)
        /\ phi' = Used(phi, ret, BlockUser(Top.block))
        /\ UNCHANGED AST
    BY DEF ReadSingleReturn, Returned, Return
  <1>2. Top.block \in DOMAIN block /\ Top.name \in Vars /\ ret \in ValuesOf(phi)
    BY <1>1, TopFrame DEF Sound
  <1>3. DataOK(block', phi')
    BY <1>1, <1>2, DataWritten DEF Sound
  <1>4. IsMapped(block', block, Top.block, Top.name, ret)
    BY <1>1, <1>2, MappedBlocks, ValueIsInt DEF Sound, DataOK
  <1>5. \A c \in DOMAIN block : c \in DOMAIN block' /\ block'[c].incomplete_phis = block[c].incomplete_phis
    BY <1>4 DEF IsMapped
  <1>. QED  BY <1>1, <1>2, <1>3, <1>5, WrittenSound

LEMMA ReadJoinReturnSound ==
  ASSUME Sound, ReadJoinReturn
  PROVE  Sound'
  <1>. DEFINE M == Mapped(block, Top.block, Top.name, ret)
  <1>1. /\ stack # <<>> /\ Top.fn = "join" /\ ret # Nothing /\ stack' = Tail(stack) /\ ret' = ret
        /\ block' = ListedIn(M, Top.block, ret)
        /\ phi' = Used(phi, ret, BlockUser(Top.block))
        /\ UNCHANGED AST
    BY DEF ReadJoinReturn, Returned, Return, ListedIn
  <1>2. Top.block \in DOMAIN block /\ Top.name \in Vars /\ ret \in ValuesOf(phi) /\ ret \in Int
    BY <1>1, TopFrame, ValueIsInt DEF Sound, DataOK
  <1>3. DataOK(M, phi')
    BY <1>1, <1>2, DataWritten DEF Sound
  <1>4. IsMapped(M, block, Top.block, Top.name, ret)
    BY <1>2, MappedBlocks DEF Sound, DataOK
  <1>. HIDE DEF M
  <1>5. DOMAIN M = DOMAIN block
    BY <1>4 DEF IsMapped
  <1>6. DataOK(block', phi')
    BY <1>1, <1>2, <1>3, <1>5, DataListed
  <1>7. IsListed(block', M, Top.block, ret)
    BY <1>1, <1>2, <1>3, <1>5, ListedBlocks DEF DataOK
  <1>8. \A c \in DOMAIN block : c \in DOMAIN block' /\ block'[c].incomplete_phis = block[c].incomplete_phis
    BY <1>4, <1>7 DEF IsMapped, IsListed
  <1>. QED  BY <1>1, <1>2, <1>6, <1>8, WrittenSound

LEMMA ReadJoinSound ==
  ASSUME Sound, ReadJoin
  PROVE  Sound'
  <1>. DEFINE b == Top.block
              name == Top.name
              p == -(Len(phi) + 1)
              P == Append(phi, NewPhi(name, b))
              Q == Used(P, p, BlockUser(b))
              x == OperandsFrame(p, name, block[b].predecessors, 0)
              y == ReadFrame("join", b, name)
  <1>1. /\ stack # <<>> /\ Top.fn = "read" /\ ret' = ret
        /\ stack' = <<x, y>> \o Tail(stack)
        /\ block' = Mapped(block, b, name, p) /\ phi' = Q
        /\ UNCHANGED AST
    BY DEF ReadJoin, Calling, Replace
  <1>2. b \in DOMAIN block /\ name \in Vars /\ block[b].predecessors \in SUBSET DOMAIN block
    BY <1>1, TopFrame, BlockTypes
  <1>3. DataOK(block, P) /\ p \in PhisOf(P) /\ p \in ValuesOf(P) /\ Len(phi) <= Len(P) /\ p \in Int
    BY <1>2, DataMorePhis, PhiIsValue DEF Sound, DataOK
  <1>4. x \in Frames /\ y \in Frames
    BY <1>2, <1>3, BlockTypes, FrameMade
  <1>. HIDE DEF p, P
  <1>5. DataOK(block', phi')
    BY <1>1, <1>2, <1>3, DataWritten
  <1>6. PhisOf(Q) = PhisOf(P) /\ ValuesOf(Q) = ValuesOf(P)
    BY <1>2, <1>3, BlockTypes, DataUsed, UserIsUser
  <1>7. IsMapped(block', block, b, name, p)
    BY <1>1, <1>2, <1>3, MappedBlocks DEF DataOK
  <1>8. \A c \in DOMAIN block : /\ c \in DOMAIN block'
                                /\ block'[c].incomplete_phis = block[c].incomplete_phis
    BY <1>7 DEF IsMapped
  <1>9. FrameKnown(x, block', phi') /\ FrameKnown(y, block', phi') /\ x.fn = "operands" /\ y.fn = "join"
    BY <1>1, <1>2, <1>3, <1>6, <1>8 DEF FrameKnown, OperandsFrame, ReadFrame
  <1>. HIDE DEF x, y, Q
  <1>10. ValuesOf(phi) \subseteq ValuesOf(phi') /\ PhisOf(phi) \subseteq PhisOf(phi')
    BY <1>1, <1>3, <1>6, MoreValues DEF Sound, DataOK
  <1>11. StackOK(stack, block', phi')
    BY <1>8, <1>10, StackKept DEF Sound
  <1>12. StackOK(stack', block', phi')
    BY <1>1, <1>4, <1>9, <1>11, StackPushed DEF Top
  <1>13. ASTOK'
    BY <1>1, <1>8, ASTKept DEF Sound
  <1>. QED  BY <1>1, <1>5, <1>10, <1>12, <1>13 DEF Sound
-----------------------------------------------------------------------------
LEMMA OnlyStackSound ==
  ASSUME Sound, block' = block, phi' = phi, UNCHANGED AST, StackOK(stack', block, phi),
         ret' \in ValuesOf(phi) \cup {Nothing}
  PROVE  Sound'
  <1>1. ASTOK'
    BY ASTKept DEF Sound
  <1>. QED  BY <1>1 DEF Sound

LEMMA ReplacedSound ==
  ASSUME Sound, stack # <<>>, Top.fn \notin {"seal", "use", "copy"},
         NEW a \in Frames, FrameKnown(a, block, phi), a.fn \notin {"seal", "use", "copy"},
         stack' = <<a>> \o Tail(stack),
         block' = block, phi' = phi, UNCHANGED AST, ret' = ret \/ ret' = Nothing
  PROVE  Sound'
  <1>1. StackOK(<<a>> \o Tail(stack), block, phi)
    BY StackReplaced DEF Sound, Top
  <1>. QED  BY <1>1, OnlyStackSound DEF Sound

LEMMA ReturnedSound ==
  ASSUME Sound, stack # <<>>, stack' = Tail(stack), block' = block, phi' = phi, UNCHANGED AST,
         ret' \in ValuesOf(phi)
  PROVE  Sound'
  <1>1. StackOK(Tail(stack), block, phi)
    BY TopFrame
  <1>. QED  BY <1>1, OnlyStackSound

LEMMA NextOperandSound ==
  ASSUME Sound, NextOperand
  PROVE  Sound'
  <1>1. /\ stack # <<>> /\ Top.fn = "operands" /\ block' = block /\ phi' = phi /\ ret' = ret
        /\ UNCHANGED AST
    BY DEF NextOperand, Calling
  <1>2. PICK pred \in Top.rest :
          stack' = <<ReadFrame("read", pred, Top.name),
                     OperandsFrame(Top.phi, Top.name, Top.rest \ {pred}, pred)>> \o Tail(stack)
    BY DEF NextOperand, Replace
  <1>. DEFINE x == ReadFrame("read", pred, Top.name)
              y == OperandsFrame(Top.phi, Top.name, Top.rest \ {pred}, pred)
  <1>3. /\ Top.phi \in PhisOf(phi) /\ Top.name \in Vars /\ Top.rest \in SUBSET DOMAIN block
        /\ pred \in DOMAIN block /\ pred \in Nat /\ Top.rest \in SUBSET Nat /\ Top.phi \in Int
    BY <1>1, TopFrame, BlockTypes DEF PhisOf
  <1>4. x \in Frames /\ y \in Frames
    BY <1>3, FrameMade
  <1>5. /\ FrameKnown(x, block, phi) /\ FrameKnown(y, block, phi)
        /\ x.fn = "read" /\ y.fn = "operands"
    BY <1>3 DEF FrameKnown, ReadFrame, OperandsFrame
  <1>. HIDE DEF x, y
  <1>6. StackOK(<<x, y>> \o Tail(stack), block, phi)
    BY <1>1, <1>4, <1>5, StackPushed DEF Sound, Top
  <1>7. StackOK(stack', block, phi)
    BY <1>2, <1>6 DEF x, y
  <1>. QED  BY <1>1, <1>7, OnlyStackSound DEF Sound

LEMMA GotOperandSound ==
  ASSUME Sound, GotOperand
  PROVE  Sound'
  <1>1. /\ stack # <<>> /\ Top.fn = "operands" /\ ret # Nothing
        /\ phi' = Used(OperandIn(phi, -Top.phi, Top.pred, ret), ret, PhiUser(Top.phi))
        /\ ret' = Nothing /\ block' = block /\ stack' = stack /\ UNCHANGED AST
    BY DEF GotOperand, Returned, OperandIn
  <1>2. Top.phi \in PhisOf(phi) /\ Top.pred \in Nat /\ ret \in ValuesOf(phi)
    BY <1>1, TopFrame DEF Sound
  <1>3. -Top.phi \in DOMAIN phi /\ -(-Top.phi) = Top.phi
    BY <1>2, PhiIsValue DEF Sound, DataOK
  <1>4. DataOK(block, phi') /\ Len(phi') = Len(phi)
    BY <1>1, <1>2, <1>3, DataOperand DEF Sound
  <1>5. ValuesOf(phi') = ValuesOf(phi) /\ PhisOf(phi') = PhisOf(phi)
    BY <1>4 DEF ValuesOf, PhisOf
  <1>6. StackOK(stack', block', phi')
    BY <1>1, <1>5, StackKept DEF Sound
  <1>7. ASTOK'
    BY <1>1, ASTKept DEF Sound
  <1>. QED  BY <1>1, <1>4, <1>6, <1>7 DEF Sound

LEMMA OperandsCompleteSound ==
  ASSUME Sound, OperandsComplete
  PROVE  Sound'
  <1>1. /\ stack # <<>> /\ Top.fn = "operands" /\ block' = block /\ phi' = phi /\ ret' = ret
        /\ stack' = <<RemoveFrame(Top.phi)>> \o Tail(stack)
        /\ UNCHANGED AST
    BY DEF OperandsComplete, Calling, Replace
  <1>2. Top.phi \in PhisOf(phi) /\ Top.phi \in Int
    BY <1>1, TopFrame DEF PhisOf
  <1>3. /\ RemoveFrame(Top.phi) \in Frames
        /\ FrameKnown(RemoveFrame(Top.phi), block, phi) /\ RemoveFrame(Top.phi).fn = "remove"
    BY <1>2, FrameMade DEF FrameKnown, RemoveFrame
  <1>. QED  BY <1>1, <1>3, ReplacedSound

LEMMA KeepPhiSound ==
  ASSUME Sound, KeepPhi
  PROVE  Sound'
  <1>1. /\ stack # <<>> /\ Top.fn = "remove" /\ block' = block /\ phi' = phi
        /\ stack' = Tail(stack) /\ ret' = Top.phi /\ UNCHANGED AST
    BY DEF KeepPhi, Calling, Return
  <1>2. Top.phi \in ValuesOf(phi)
    BY <1>1, TopFrame, PhiIsValue DEF Sound, DataOK
  <1>. QED  BY <1>1, <1>2, ReturnedSound

(* What a phi is replaced by is another value there is.                    *)
LEMMA SameKnown ==
  ASSUME Sound, NEW p \in PhisOf(phi)
  PROVE  Same(p) \in ValuesOf(phi) /\ Same(p) # p
  <1>1. -p \in DOMAIN phi /\ p \in Int /\ p < 0
    BY PhiIsValue DEF Sound, DataOK
  <1>2. Others(p) \subseteq ValuesOf(phi) \ {p}
    BY <1>1 DEF Sound, DataOK, PhisKnown, PhiKnown, Others, PhiAt
  <1>3. Undefined \in ValuesOf(phi) /\ Undefined # p
    <2>1. Len(phi) \in Nat
      BY LenProperties DEF Sound, DataOK
    <2>. QED  BY <1>1, <2>1, BoundsAssumption DEF ValuesOf, Undefined
  <1>4. CASE Others(p) = {}
    BY <1>3, <1>4 DEF Same
  <1>5. CASE Others(p) # {}
    <2>1. Same(p) \in Others(p)
      BY <1>5 DEF Same
    <2>. QED  BY <1>2, <2>1
  <1>. QED  BY <1>4, <1>5

LEMMA RemovePhiSound ==
  ASSUME Sound, RemovePhi
  PROVE  Sound'
  <1>. DEFINE p == Top.phi
              U == PhiAt(p).users \ {PhiUser(p)}
              R == {q \in Phis : PhiUser(q) \in U}
              x == CascadeFrame(Same(p), R, Nothing)
  <1>1. /\ stack # <<>> /\ Top.fn = "remove" /\ ret' = ret
        /\ block' = BlocksWith(U, p, Same(p)) /\ phi' = PhisWith(U, p, Same(p))
        /\ stack' = <<x>> \o Tail(stack) /\ UNCHANGED AST
    BY DEF RemovePhi, Calling, Replace
  <1>2. p \in PhisOf(phi)
    BY <1>1, TopFrame
  <1>3. Same(p) \in ValuesOf(phi) /\ Same(p) \in Int /\ Nothing \in Int
    BY <1>2, SameKnown, BoundsAssumption DEF ValuesOf, Nothing
  <1>4. U \in SUBSET Users
    BY <1>2, PhiIsValue, PhiFields, BlockTypes DEF PhiAt, Sound, DataOK
  <1>5. R \in SUBSET PhisOf(phi) /\ R \in SUBSET Int
    BY BlockTypes, LenProperties DEF Phis, PhisOf, Sound, DataOK
  <1>6. x \in Frames
    BY <1>3, <1>5, FrameMade
  <1>7. FrameKnown(x, block, phi) /\ x.fn = "cascade"
    BY <1>3, <1>5 DEF FrameKnown, CascadeFrame
  <1>. HIDE DEF U, R, x, p
  <1>8. StackOK(stack', block, phi)
    BY <1>1, <1>6, <1>7, StackReplaced DEF Sound, Top
  <1>9. DataOK(block', phi') /\ IsRemoved(block', U, p, Same(p)) /\ IsForgotten(phi', U, p, Same(p))
    BY <1>1, <1>2, <1>3, <1>4, DataRemoved DEF Sound
  <1>10. ValuesOf(phi') = ValuesOf(phi) /\ PhisOf(phi') = PhisOf(phi)
    BY <1>9 DEF IsForgotten, ValuesOf, PhisOf
  <1>11. \A c \in DOMAIN block : /\ c \in DOMAIN block'
                                 /\ block'[c].incomplete_phis = block[c].incomplete_phis
    BY <1>9 DEF IsRemoved, RemovedFrom
  <1>12. StackOK(stack', block', phi')
    BY <1>8, <1>10, <1>11, StackKept
  <1>13. ASTOK'
    BY <1>1, <1>11, ASTKept DEF Sound
  <1>. QED  BY <1>1, <1>9, <1>10, <1>12, <1>13 DEF Sound

LEMMA NextUserSound ==
  ASSUME Sound, NextUser
  PROVE  Sound'
  <1>1. /\ stack # <<>> /\ Top.fn = "cascade" /\ block' = block /\ phi' = phi /\ ret' = ret
        /\ UNCHANGED AST
    BY DEF NextUser, Calling
  <1>2. PICK use \in Top.rest :
          stack' = <<RemoveFrame(use), CascadeFrame(Top.same, Top.rest \ {use}, use)>> \o Tail(stack)
    BY DEF NextUser, Replace
  <1>. DEFINE x == RemoveFrame(use)
              y == CascadeFrame(Top.same, Top.rest \ {use}, use)
  <1>3. /\ Top.same \in ValuesOf(phi) /\ Top.rest \in SUBSET PhisOf(phi) /\ use \in PhisOf(phi)
        /\ Top.same \in Int /\ Top.rest \in SUBSET Int /\ use \in Int
    BY <1>1, TopFrame DEF PhisOf, ValuesOf
  <1>4. x \in Frames /\ y \in Frames
    BY <1>3, FrameMade
  <1>5. /\ FrameKnown(x, block, phi) /\ FrameKnown(y, block, phi)
        /\ x.fn = "remove" /\ y.fn = "cascade"
    BY <1>3 DEF FrameKnown, RemoveFrame, CascadeFrame
  <1>. HIDE DEF x, y
  <1>6. StackOK(<<x, y>> \o Tail(stack), block, phi)
    BY <1>1, <1>4, <1>5, StackPushed DEF Sound, Top
  <1>7. StackOK(stack', block, phi)
    BY <1>2, <1>6 DEF x, y
  <1>. QED  BY <1>1, <1>7, OnlyStackSound DEF Sound

LEMMA GotUserSound ==
  ASSUME Sound, GotUser
  PROVE  Sound'
  <1>. DEFINE same == IF Top.use = Top.same THEN ret ELSE Top.same
              x == CascadeFrame(same, Top.rest, Top.use)
  <1>1. /\ stack # <<>> /\ Top.fn = "cascade" /\ ret # Nothing /\ block' = block /\ phi' = phi
        /\ ret' = Nothing /\ stack' = <<x>> \o Tail(stack) /\ UNCHANGED AST
    BY DEF GotUser, Returned, Replace
  <1>2. same \in ValuesOf(phi) /\ Top.rest \in SUBSET PhisOf(phi) /\ Top.use \in Int
    BY <1>1, TopFrame DEF Sound
  <1>. HIDE DEF same
  <1>3. same \in Int /\ Top.rest \in SUBSET Int
    BY <1>2 DEF PhisOf, ValuesOf
  <1>4. x \in Frames /\ FrameKnown(x, block, phi) /\ x.fn = "cascade"
    BY <1>2, <1>3, FrameMade DEF FrameKnown, CascadeFrame
  <1>. QED  BY <1>1, <1>4, ReplacedSound

LEMMA CascadeDoneSound ==
  ASSUME Sound, CascadeDone
  PROVE  Sound'
  <1>1. /\ stack # <<>> /\ Top.fn = "cascade" /\ block' = block /\ phi' = phi
        /\ stack' = Tail(stack) /\ ret' = Top.same /\ UNCHANGED AST
    BY DEF CascadeDone, Calling, Return
  <1>. QED  BY <1>1, TopFrame, ReturnedSound

LEMMA SealNextSound ==
  ASSUME Sound, SealNext
  PROVE  Sound'
  <1>. DEFINE b == Top.block
  <1>1. /\ stack # <<>> /\ Top.fn = "seal" /\ phi' = phi /\ ret' = ret /\ UNCHANGED AST
    BY DEF SealNext, Calling
  <1>2. PICK name \in Top.rest :
          /\ block' = ListedIn(block, b, block[b].incomplete_phis[name])
          /\ stack' = <<OperandsFrame(block[b].incomplete_phis[name], name,
                                      block[b].predecessors, 0),
                        SealFrame(b, Top.rest \ {name})>> \o Tail(stack)
    BY DEF SealNext, Replace, ListedIn
  <1>. DEFINE p == block[b].incomplete_phis[name]
              x == OperandsFrame(p, name, block[b].predecessors, 0)
              y == SealFrame(b, Top.rest \ {name})
  <1>3. /\ b \in DOMAIN block /\ b \in Nat /\ Top.rest \in SUBSET Vars /\ name \in Vars
        /\ Top.rest \subseteq DOMAIN block[b].incomplete_phis
    BY <1>1, TopFrame, BlockTypes
  <1>4. /\ p \in PhisOf(phi) /\ p \in Int
        /\ block[b].predecessors \in SUBSET DOMAIN block
        /\ block[b].predecessors \in SUBSET Nat
    BY <1>3, BlockTypes DEF PhisOf
  <1>. HIDE DEF p, b
  <1>5. x \in Frames /\ y \in Frames
    BY <1>3, <1>4, FrameMade
  <1>6. DataOK(block', phi)
    BY <1>2, <1>3, <1>4, DataListed DEF Sound, p
  <1>7. IsListed(block', block, b, p)
    BY <1>2, <1>3, <1>4, ListedBlocks DEF Sound, DataOK, p
  <1>8. \A c \in DOMAIN block : /\ c \in DOMAIN block'
                                /\ block'[c].incomplete_phis = block[c].incomplete_phis
    BY <1>7 DEF IsListed
  <1>9. DOMAIN block' = DOMAIN block
    BY <1>7 DEF IsListed
  <1>10. /\ FrameKnown(x, block', phi) /\ FrameKnown(y, block', phi)
         /\ x.fn = "operands" /\ y.fn = "seal"
    BY <1>3, <1>4, <1>8, <1>9 DEF FrameKnown, OperandsFrame, SealFrame
  <1>. HIDE DEF x, y
  <1>11. StackOK(stack, block', phi)
    BY <1>8, StackKept DEF Sound
  <1>12. StackOK(<<x, y>> \o Tail(stack), block', phi)
    BY <1>1, <1>5, <1>10, <1>11, StackPushed DEF Top
  <1>13. StackOK(stack', block', phi')
    BY <1>1, <1>2, <1>12 DEF x, y, p
  <1>14. ASTOK'
    BY <1>1, <1>8, ASTKept DEF Sound
  <1>. QED  BY <1>1, <1>6, <1>13, <1>14 DEF Sound

LEMMA SealReturnSound ==
  ASSUME Sound, SealReturn
  PROVE  Sound'
  <1>1. /\ block' = block /\ phi' = phi /\ stack' = stack /\ ret' = Nothing /\ UNCHANGED AST
    BY DEF SealReturn
  <1>. QED  BY <1>1, OnlyStackSound DEF Sound

LEMMA EmptyStack ==
  ASSUME NEW B, NEW P
  PROVE  StackOK(<<>>, B, P)
  BY DEF StackOK, FramesKnown, Bottom

LEMMA SealDoneSound ==
  ASSUME Sound, SealDone
  PROVE  Sound'
  <1>1. /\ stack # <<>> /\ Top.fn = "seal" /\ block' = SealedIn(block, Top.block)
        /\ stack' = Tail(stack) /\ phi' = phi /\ ret' = ret /\ UNCHANGED AST
    BY DEF SealDone, Calling, SealedIn
  <1>2. Top.block \in DOMAIN block /\ Tail(stack) = <<>>
    BY <1>1, TopFrame
  <1>3. DataOK(block', phi')
    BY <1>1, <1>2, DataSealed DEF Sound
  <1>4. IsSealed(block', block, Top.block)
    BY <1>1, <1>2, SealedBlocks DEF Sound, DataOK
  <1>5. \A c \in DOMAIN block : c \in DOMAIN block'
    BY <1>4 DEF IsSealed
  <1>6. ASTOK'
    BY <1>1, <1>5, ASTKept DEF Sound
  <1>. QED  BY <1>1, <1>2, <1>3, <1>6, EmptyStack DEF Sound
(* The value has been read: the statement that asked for it is made.       *)
LEMMA UseValueSound ==
  ASSUME Sound, UseValue
  PROVE  Sound'
  <1>. DEFINE n == Len(block[bb].instructions) + 1
              ins == [op |-> "use", name |-> Top.name, value |-> ret]
  <1>1. /\ stack # <<>> /\ Top.fn = "use" /\ ret # Nothing
        /\ block' = LongerIn(block, bb, ins)
        /\ phi' = Used(phi, ret, InsUser(bb, n))
        /\ stack' = <<>> /\ ret' = Nothing /\ UNCHANGED AST
    BY DEF UseValue, Returned, LongerIn
  <1>2. /\ Top.name \in Vars /\ ret \in ValuesOf(phi) /\ ret \in Int
        /\ bb \in DOMAIN block /\ n \in Int /\ bb \in Int
    <2>1. bb \in DOMAIN block
      BY DEF Sound, ASTOK
    <2>2. block[bb].instructions \in Seq(Instructions) /\ bb \in Int
      BY <2>1, BlockTypes, BlockFields
    <2>3. n \in Int
      BY <2>2, LenProperties
    <2>. QED  BY <1>1, <2>1, <2>2, <2>3, TopFrame DEF Sound, ValuesOf
  <1>3. ins \in Instructions /\ ins.value = ret
    BY <1>2 DEF Instructions
  <1>. HIDE DEF n, ins
  <1>4. /\ DataOK(block, phi') /\ ValuesOf(phi') = ValuesOf(phi)
        /\ \A k \in DOMAIN phi : ret = -k => InsUser(bb, n) \in phi'[k].users
        /\ DOMAIN phi' = DOMAIN phi
    <2>1. InsUser(bb, n) \in Users
      BY <1>2, UserIsUser
    <2>2. DOMAIN phi' = DOMAIN phi
      BY <1>1 DEF Used
    <2>. QED  BY <1>1, <1>2, <2>1, <2>2, DataUsed DEF Sound
  <1>5. DataOK(block', phi')
    BY <1>1, <1>2, <1>3, <1>4, DataLonger DEF n
  <1>6. IsLonger(block', block, bb, ins)
    BY <1>1, <1>2, <1>3, LongerBlocks DEF Sound, DataOK
  <1>7. \A c \in DOMAIN block : c \in DOMAIN block'
    BY <1>6 DEF IsLonger
  <1>8. ASTOK'
    BY <1>1, <1>7, ASTKept DEF Sound
  <1>. QED  BY <1>1, <1>5, <1>8, EmptyStack DEF Sound

LEMMA WrittenLonger ==
  ASSUME NEW B, NEW P, DataOK(B, P), NEW b \in DOMAIN B, NEW name \in Vars, NEW v \in ValuesOf(P),
         \A k \in DOMAIN P : v = -k => BlockUser(b) \in P[k].users,
         NEW ins \in Instructions, ins.value > 0, ins.value \in ValuesOf(P) \cup {Nothing}
  PROVE  LET C == LongerIn(Mapped(B, b, name, v), b, ins) IN
           DataOK(C, P) /\ DOMAIN C = DOMAIN B
  <1>. DEFINE M == Mapped(B, b, name, v)
              C == LongerIn(M, b, ins)
  <1>1. DataOK(M, P)
    BY DataMapped
  <1>2. IsMapped(M, B, b, name, v)
    BY MappedBlocks, ValueIsInt DEF DataOK
  <1>. HIDE DEF M
  <1>3. DOMAIN M = DOMAIN B
    BY <1>2 DEF IsMapped
  <1>4. \A k \in DOMAIN P : ins.value # -k
    BY LenProperties DEF DataOK
  <1>5. DataOK(C, P)
    BY <1>1, <1>3, <1>4, DataLonger
  <1>6. IsLonger(C, M, b, ins)
    BY <1>1, <1>3, LongerBlocks DEF DataOK
  <1>. HIDE DEF C
  <1>7. DOMAIN C = DOMAIN B
    BY <1>3, <1>6 DEF IsLonger
  <1>. QED  BY <1>5, <1>7 DEF C, M

LEMMA CopyValueSound ==
  ASSUME Sound, CopyValue
  PROVE  Sound'
  <1>. DEFINE ins == [op |-> "copy", name |-> Top.name, to |-> Top.to, value |-> Nothing]
  <1>1. /\ stack # <<>> /\ Top.fn = "copy" /\ ret # Nothing
        /\ block' = LongerIn(Mapped(block, bb, Top.to, ret), bb, ins)
        /\ phi' = Used(phi, ret, BlockUser(bb))
        /\ stack' = <<>> /\ ret' = Nothing /\ UNCHANGED AST
    BY DEF CopyValue, Returned, LongerIn
  <1>2. /\ Top.name \in Vars /\ Top.to \in Vars /\ ret \in ValuesOf(phi)
        /\ bb \in DOMAIN block /\ BlockUser(bb) \in Users
    BY <1>1, TopFrame, BlockTypes, UserIsUser DEF Sound, ASTOK
  <1>3. ins \in Instructions /\ ins.value = Nothing /\ ins.value > 0
    BY <1>2, BoundsAssumption DEF Instructions, Nothing
  <1>. HIDE DEF ins
  <1>4. /\ DataOK(block, phi') /\ ValuesOf(phi') = ValuesOf(phi)
        /\ \A k \in DOMAIN phi' : ret = -k => BlockUser(bb) \in phi'[k].users
    <2>2. DOMAIN phi' = DOMAIN phi
      BY <1>1 DEF Used
    <2>. QED  BY <1>1, <1>2, <2>2, DataUsed DEF Sound
  <1>5. DataOK(block', phi') /\ DOMAIN block' = DOMAIN block
    BY <1>1, <1>2, <1>3, <1>4, WrittenLonger
  <1>8. ASTOK'
    BY <1>1, <1>5, ASTKept DEF Sound
  <1>. QED  BY <1>1, <1>5, <1>8, EmptyStack DEF Sound

-----------------------------------------------------------------------------
(* The statements keep it.                                                 *)

LEMMA AssignSound ==
  ASSUME Sound, NEW name \in Vars, Assign(name)
  PROVE  Sound'
  <1>. DEFINE ins == [op |-> "def", name |-> name, value |-> defs']
  <1>1. /\ stack = <<>> /\ defs < MaxDefs /\ defs' = defs + 1
        /\ block' = LongerIn(Mapped(block, bb, name, defs'), bb, ins)
        /\ phi' = phi /\ bb' = bb /\ afterJump' = afterJump /\ open' = open
        /\ stack' = stack /\ ret' = ret /\ reads' = reads
    BY DEF Assign, Ready, LongerIn
  <1>2. /\ bb \in DOMAIN block /\ defs' \in 1 .. MaxDefs /\ defs' \in ValuesOf(phi)
        /\ phi \in Seq(PhiRecords)
    BY <1>1, BoundsAssumption, LenProperties DEF Sound, ASTOK, DataOK, ValuesOf
  <1>3. ins \in Instructions /\ ins.value = defs' /\ ins.value > 0
    BY <1>2, BoundsAssumption DEF Instructions
  <1>. HIDE DEF ins
  <1>4. \A k \in DOMAIN phi : defs' # -k
    BY <1>2, LenProperties, BoundsAssumption
  <1>5. DataOK(block', phi) /\ DOMAIN block' = DOMAIN block
    BY <1>1, <1>2, <1>3, <1>4, WrittenLonger DEF Sound
  <1>6. ASTOK'
    BY <1>1, <1>2, <1>5, BoundsAssumption DEF Sound, ASTOK, OpenKnown
  <1>. QED  BY <1>1, <1>5, <1>6, EmptyStack DEF Sound

LEMMA ReadVariableSound ==
  ASSUME Sound, NEW op \in {"use", "copy"}, NEW name \in Vars, NEW to \in Vars,
         ReadVariable(op, name, to)
  PROVE  Sound'
  <1>. DEFINE x == ReadFrame("read", bb, name)
              y == [fn |-> op, name |-> name, to |-> to]
  <1>1. /\ stack' = <<x, y>> /\ block' = block /\ phi' = phi /\ bb' = bb
        /\ afterJump' = afterJump /\ open' = open /\ ret' = ret /\ defs' = defs
        /\ reads' = reads + 1
    BY DEF ReadVariable
  <1>2. bb \in DOMAIN block /\ bb \in Nat
    BY BlockTypes DEF Sound, ASTOK
  <1>3. x \in Frames /\ y \in Frames
    BY <1>2, FrameMade DEF Frames
  <1>4. /\ FrameKnown(x, block, phi) /\ FrameKnown(y, block, phi)
        /\ x.fn = "read" /\ y.fn \in {"use", "copy"}
    BY <1>2 DEF FrameKnown, ReadFrame
  <1>. HIDE DEF x, y
  <1>5. StackOK(<<x, y>>, block, phi)
    BY <1>3, <1>4 DEF StackOK, FramesKnown, Bottom
  <1>6. ASTOK'
    BY <1>1 DEF Sound, ASTOK
  <1>. QED  BY <1>1, <1>5, <1>6 DEF Sound

(* The statements that are open.                                           *)
LEMMA OpensKept ==
  ASSUME open \in Seq(Opens), \A i \in DOMAIN open : OpenKnown(open[i], block),
         NEW C, DOMAIN block \subseteq DOMAIN C
  PROVE  /\ \A i \in DOMAIN open : OpenKnown(open[i], C)
         /\ \A s \in Opens : OpenKnown(s, C) =>
              /\ <<s>> \o open \in Seq(Opens)
              /\ \A i \in DOMAIN (<<s>> \o open) : OpenKnown((<<s>> \o open)[i], C)
         /\ open # <<>> =>
              /\ Head(open) \in Opens /\ OpenKnown(Head(open), block) /\ OpenKnown(Head(open), C)
              /\ Tail(open) \in Seq(Opens)
              /\ \A i \in DOMAIN Tail(open) : OpenKnown(Tail(open)[i], C)
              /\ \A s \in Opens : OpenKnown(s, C) =>
                   /\ <<s>> \o Tail(open) \in Seq(Opens)
                   /\ \A i \in DOMAIN (<<s>> \o Tail(open)) :
                        OpenKnown((<<s>> \o Tail(open))[i], C)
  <1>1. \A i \in DOMAIN open : OpenKnown(open[i], C)
    BY DEF OpenKnown
  <1>2. ASSUME NEW S \in Seq(Opens), \A i \in DOMAIN S : OpenKnown(S[i], C),
               NEW s \in Opens, OpenKnown(s, C)
        PROVE  /\ <<s>> \o S \in Seq(Opens)
               /\ \A i \in DOMAIN (<<s>> \o S) : OpenKnown((<<s>> \o S)[i], C)
    <2>. DEFINE T == <<s>> \o S
    <2>1. /\ T \in Seq(Opens) /\ Len(T) = Len(S) + 1 /\ T[1] = s /\ Len(S) \in Nat
          /\ \A i \in DOMAIN T : i = 1 \/ (i - 1 \in DOMAIN S /\ T[i] = S[i - 1])
      OBVIOUS
    <2>. HIDE DEF T
    <2>2. \A i \in DOMAIN T : OpenKnown(T[i], C)
      BY <1>2, <2>1
    <2>. QED  BY <2>1, <2>2 DEF T
  <1>3. ASSUME open # <<>>
        PROVE  /\ Head(open) \in Opens /\ OpenKnown(Head(open), block) /\ OpenKnown(Head(open), C)
               /\ Tail(open) \in Seq(Opens)
               /\ \A i \in DOMAIN Tail(open) : OpenKnown(Tail(open)[i], C)
    <2>1. /\ Head(open) = open[1] /\ 1 \in DOMAIN open /\ open[1] \in Opens
          /\ Tail(open) \in Seq(Opens)
          /\ \A i \in DOMAIN Tail(open) : i + 1 \in DOMAIN open /\ Tail(open)[i] = open[i + 1]
      BY <1>3
    <2>. QED  BY <1>1, <2>1
  <1>. QED  BY <1>1, <1>2, <1>3

LEMMA HeadOpen ==
  ASSUME Sound, open # <<>>
  PROVE  /\ Head(open) \in Opens
         /\ Head(open).t \in DOMAIN block /\ Head(open).f \in DOMAIN block
         /\ Head(open).end \in DOMAIN block
         /\ IsLoop(Head(open)) => Head(open).judge \in DOMAIN block
  BY OpensKept DEF Sound, ASTOK, OpenKnown
LEMMA OpenStatementSound ==
  ASSUME Sound, NEW kind \in Kinds, NEW N \in Seq(BlockRecords), Len(N) >= 2,
         \A i \in DOMAIN N : N[i] \in {NewBlock(TRUE), NewBlock(FALSE)},
         NEW judge \in Nat, kind = "whileCond" => judge \in Fresh(1) .. Fresh(Len(N)),
         kind \notin {"body", "judge"},
         NEW end \in Fresh(1) .. Fresh(Len(N)),
         OpenStatement(kind, N, judge, end)
  PROVE  Sound'
  <1>. DEFINE s == [kind |-> kind, t |-> Fresh(1), f |-> Fresh(2), judge |-> judge, end |-> end,
                    jumped |-> FALSE]
  <1>1. /\ stack = <<>> /\ block' = block \o N /\ open' = <<s>> \o open
        /\ phi' = phi /\ bb' = bb /\ afterJump' = afterJump /\ stack' = stack /\ ret' = ret
        /\ defs' = defs /\ reads' = reads
    BY DEF OpenStatement, Ready
  <1>2. DataOK(block', phi')
    BY <1>1, DataMoreBlocks DEF Sound
  <1>3. /\ DOMAIN block' = 1 .. Len(block) + Len(N) /\ Len(block) \in Nat /\ Len(N) \in Nat
        /\ DOMAIN block \subseteq DOMAIN block'
    BY <1>1 DEF Sound, DataOK
  <1>4. /\ Fresh(1) \in DOMAIN block' /\ Fresh(2) \in DOMAIN block' /\ end \in DOMAIN block'
        /\ kind = "whileCond" => judge \in DOMAIN block'
        /\ Fresh(1) \in Nat /\ Fresh(2) \in Nat /\ end \in Nat
    BY <1>3 DEF Fresh
  <1>5. s \in Opens /\ OpenKnown(s, block')
    <2>1. s \in Opens
      BY <1>4 DEF Opens
    <2>2. OpenKnown(s, block')
      BY <1>4 DEF OpenKnown, IsLoop, Kinds
    <2>. QED  BY <2>1, <2>2
  <1>. HIDE DEF s
  <1>6. /\ open' \in Seq(Opens) /\ \A i \in DOMAIN open' : OpenKnown(open'[i], block')
    BY <1>1, <1>3, <1>5, OpensKept DEF Sound, ASTOK
  <1>7. ASTOK'
    BY <1>1, <1>3, <1>6 DEF Sound, ASTOK
  <1>. QED  BY <1>1, <1>2, <1>7, EmptyStack DEF Sound

LEMMA ShortSeqs ==
  ASSUME NEW T, NEW a \in T, NEW b \in T, NEW c \in T
  PROVE  /\ <<a>> \in Seq(T) /\ Len(<<a>>) = 1 /\ \A i \in DOMAIN <<a>> : <<a>>[i] = a
         /\ <<a, b>> \in Seq(T) /\ Len(<<a, b>>) = 2
         /\ \A i \in DOMAIN <<a, b>> : <<a, b>>[i] \in {a, b}
         /\ <<a, b, c>> \in Seq(T) /\ Len(<<a, b, c>>) = 3
         /\ \A i \in DOMAIN <<a, b, c>> : <<a, b, c>>[i] \in {a, b, c}
  OBVIOUS

LEMMA NewBlocks ==
  LET T == NewBlock(TRUE)
      F == NewBlock(FALSE) IN
    /\ <<T>> \in Seq(BlockRecords) /\ Len(<<T>>) = 1
    /\ \A i \in DOMAIN <<T>> : <<T>>[i] \in {T, F}
    /\ <<T, T>> \in Seq(BlockRecords) /\ Len(<<T, T>>) = 2
    /\ \A i \in DOMAIN <<T, T>> : <<T, T>>[i] \in {T, F}
    /\ <<T, T, T>> \in Seq(BlockRecords) /\ Len(<<T, T, T>>) = 3
    /\ \A i \in DOMAIN <<T, T, T>> : <<T, T, T>>[i] \in {T, F}
    /\ <<F, T, T>> \in Seq(BlockRecords) /\ Len(<<F, T, T>>) = 3
    /\ \A i \in DOMAIN <<F, T, T>> : <<F, T, T>>[i] \in {T, F}
  <1>. DEFINE T == NewBlock(TRUE)
              F == NewBlock(FALSE)
  <1>1. T \in BlockRecords /\ F \in BlockRecords
    BY NewRecords
  <1>. HIDE DEF T, F
  <1>2. /\ <<T>> \in Seq(BlockRecords) /\ Len(<<T>>) = 1
        /\ \A i \in DOMAIN <<T>> : <<T>>[i] \in {T, F}
        /\ <<T, T>> \in Seq(BlockRecords) /\ Len(<<T, T>>) = 2
        /\ \A i \in DOMAIN <<T, T>> : <<T, T>>[i] \in {T, F}
    BY <1>1, ShortSeqs
  <1>3. /\ <<T, T, T>> \in Seq(BlockRecords) /\ Len(<<T, T, T>>) = 3
        /\ \A i \in DOMAIN <<T, T, T>> : <<T, T, T>>[i] \in {T, F}
    BY <1>1, ShortSeqs
  <1>4. /\ <<F, T, T>> \in Seq(BlockRecords) /\ Len(<<F, T, T>>) = 3
        /\ \A i \in DOMAIN <<F, T, T>> : <<F, T, T>>[i] \in {T, F}
    BY <1>1, ShortSeqs
  <1>. QED  BY <1>2, <1>3, <1>4 DEF T, F

LEMMA OpenedSound ==
  ASSUME Sound, If \/ IfElse \/ While
  PROVE  Sound'
  <1>0. Len(block) \in Nat
    BY LenProperties DEF Sound, DataOK
  <1>1. CASE If
    <2>. DEFINE N == <<NewBlock(TRUE), NewBlock(TRUE)>>
    <2>1. /\ N \in Seq(BlockRecords) /\ Len(N) = 2
          /\ \A i \in DOMAIN N : N[i] \in {NewBlock(TRUE), NewBlock(FALSE)}
      BY NewBlocks
    <2>2. OpenStatement("ifCond", N, 0, Fresh(2))
      BY <1>1 DEF If
    <2>. HIDE DEF N
    <2>3. /\ Fresh(2) \in Fresh(1) .. Fresh(Len(N)) /\ "ifCond" \in Kinds
          /\ Len(N) >= 2 /\ 0 \in Nat /\ "ifCond" \notin {"body", "judge"}
          /\ "ifCond" = "whileCond" => 0 \in Fresh(1) .. Fresh(Len(N))
      BY <1>0, <2>1 DEF Fresh, Kinds
    <2>. QED  BY <2>1, <2>2, <2>3, OpenStatementSound, Zenon
  <1>2. CASE IfElse
    <2>. DEFINE N == <<NewBlock(TRUE), NewBlock(TRUE), NewBlock(TRUE)>>
    <2>1. /\ N \in Seq(BlockRecords) /\ Len(N) = 3
          /\ \A i \in DOMAIN N : N[i] \in {NewBlock(TRUE), NewBlock(FALSE)}
      BY NewBlocks
    <2>2. OpenStatement("ifElseCond", N, 0, Fresh(3))
      BY <1>2 DEF IfElse
    <2>. HIDE DEF N
    <2>3. /\ Fresh(3) \in Fresh(1) .. Fresh(Len(N)) /\ "ifElseCond" \in Kinds
          /\ Len(N) >= 2 /\ 0 \in Nat /\ "ifElseCond" \notin {"body", "judge"}
          /\ "ifElseCond" = "whileCond" => 0 \in Fresh(1) .. Fresh(Len(N))
      BY <1>0, <2>1 DEF Fresh, Kinds
    <2>. QED  BY <2>1, <2>2, <2>3, OpenStatementSound, Zenon
  <1>3. CASE While
    <2>. DEFINE N == <<NewBlock(FALSE), NewBlock(TRUE), NewBlock(TRUE)>>
    <2>1. /\ N \in Seq(BlockRecords) /\ Len(N) = 3
          /\ \A i \in DOMAIN N : N[i] \in {NewBlock(TRUE), NewBlock(FALSE)}
      BY NewBlocks
    <2>2. OpenStatement("whileCond", N, Fresh(3), Fresh(2))
      BY <1>3 DEF While
    <2>. HIDE DEF N
    <2>3. /\ Fresh(2) \in Fresh(1) .. Fresh(Len(N)) /\ "whileCond" \in Kinds
          /\ Len(N) >= 2 /\ "whileCond" \notin {"body", "judge"}
          /\ Fresh(3) \in Fresh(1) .. Fresh(Len(N)) /\ Fresh(3) \in Nat
      BY <1>0, <2>1 DEF Fresh, Kinds
    <2>. QED  BY <2>1, <2>2, <2>3, OpenStatementSound, Zenon
  <1>. QED  BY <1>1, <1>2, <1>3

LEMMA ShortCircuitSound ==
  ASSUME Sound, NEW target \in DOMAIN block, ShortCircuit(target)
  PROVE  Sound'
  <1>. DEFINE M == block \o <<NewBlock(TRUE)>>
  <1>1. /\ stack = <<>> /\ block' = Edges(M, bb, {target, Fresh(1)}) /\ bb' = Fresh(1)
        /\ phi' = phi /\ afterJump' = afterJump /\ open' = open /\ stack' = stack /\ ret' = ret
        /\ defs' = defs /\ reads' = reads
    <2>1. Append(block, NewBlock(TRUE)) = M
      BY NewRecords, AppendIsConcat DEF Sound, DataOK
    <2>. QED  BY <2>1 DEF ShortCircuit, Ready
  <1>2. DataOK(M, phi)
    <2>1. /\ <<NewBlock(TRUE)>> \in Seq(BlockRecords)
          /\ \A i \in DOMAIN <<NewBlock(TRUE)>> :
               <<NewBlock(TRUE)>>[i] \in {NewBlock(TRUE), NewBlock(FALSE)}
      BY NewBlocks
    <2>. QED  BY <2>1, DataMoreBlocks DEF Sound
  <1>3. DOMAIN M = 1 .. Len(block) + 1 /\ DOMAIN block = 1 .. Len(block) /\ Len(block) \in Nat
    <2>1. block \in Seq(BlockRecords) /\ <<NewBlock(TRUE)>> \in Seq(BlockRecords)
          /\ Len(<<NewBlock(TRUE)>>) = 1
      BY NewBlocks DEF Sound, DataOK
    <2>2. M \in Seq(BlockRecords) /\ Len(M) = Len(block) + 1
      BY <2>1, ConcatProperties
    <2>. QED  BY <2>1, <2>2, LenProperties
  <1>. HIDE DEF M
  <1>4. bb \in DOMAIN M /\ {target, Fresh(1)} \in SUBSET DOMAIN M /\ Fresh(1) \in DOMAIN M
    BY <1>3 DEF Sound, ASTOK, Fresh
  <1>5. DataOK(block', phi')
    BY <1>1, <1>2, <1>4, DataEdges
  <1>6. DOMAIN block' = DOMAIN M
    BY <1>1, Zenon DEF Edges
  <1>7. ASTOK'
    <2>1. DOMAIN block \subseteq DOMAIN block'
      BY <1>3, <1>6
    <2>2. \A i \in DOMAIN open : OpenKnown(open[i], block')
      BY <2>1, OpensKept DEF Sound, ASTOK
    <2>. QED  BY <1>1, <1>4, <1>6, <2>2 DEF Sound, ASTOK
  <1>. QED  BY <1>1, <1>5, <1>7, EmptyStack DEF Sound

(* The edges a statement adds, and what may be open after it.              *)
LEMMA EdgesKept ==
  ASSUME Sound, NEW T \in SUBSET DOMAIN block
  PROVE  /\ DataOK(Edges(block, bb, T), phi) /\ DOMAIN Edges(block, bb, T) = DOMAIN block
         /\ \A c \in DOMAIN block :
              Edges(block, bb, T)[c].incomplete_phis = block[c].incomplete_phis
  <1>1. bb \in DOMAIN block /\ DataOK(Edges(block, bb, T), phi)
    BY DataEdges DEF Sound, ASTOK
  <1>2. T \in SUBSET Nat
    BY BlockTypes
  <1>3. HasEdges(Edges(block, bb, T), block, bb, T)
    BY <1>1, <1>2, EdgesBlocks DEF Sound, DataOK
  <1>. QED  BY <1>1, <1>3 DEF HasEdges

LEMMA JumpKept ==
  ASSUME Sound, NEW target \in DOMAIN block
  PROVE  /\ DataOK(JumpTo(target), phi) /\ DOMAIN JumpTo(target) = DOMAIN block
         /\ \A c \in DOMAIN block : JumpTo(target)[c].incomplete_phis = block[c].incomplete_phis
  <1>1. CASE afterJump
    BY <1>1 DEF JumpTo, Sound
  <1>2. CASE ~afterJump
    BY <1>2, EdgesKept DEF JumpTo
  <1>. QED  BY <1>1, <1>2

LEMMA SealStack ==
  ASSUME Sound, NEW b \in DOMAIN block, NEW C, DOMAIN C = DOMAIN block,
         C[b].incomplete_phis = block[b].incomplete_phis
  PROVE  StackOK(<<Sealing(b)>>, C, phi)
  <1>1. block[b].incomplete_phis \in Maps(Vars) /\ b \in Nat
    BY BlockTypes, BlockFields
  <1>2. DOMAIN block[b].incomplete_phis \in SUBSET Vars
    BY <1>1 DEF Maps
  <1>3. Sealing(b) \in Frames
    BY <1>1, <1>2, FrameMade DEF Sealing
  <1>4. Sealing(b).fn = "seal" /\ FrameKnown(Sealing(b), C, phi)
    BY DEF Sealing, SealFrame, FrameKnown
  <1>. HIDE DEF Sealing
  <1>. QED  BY <1>3, <1>4 DEF StackOK, FramesKnown, Bottom

LEMMA ClosedSound ==
  ASSUME Sound, DataOK(block', phi), DOMAIN block' = DOMAIN block, phi' = phi,
         StackOK(stack', block', phi), ret' = ret, defs' = defs, reads' = reads,
         bb' \in DOMAIN block, afterJump' \in BOOLEAN,
         \/ open' = open
         \/ open # <<>> /\ open' = Tail(open)
         \/ open # <<>> /\ \E s \in Opens : OpenKnown(s, block) /\ open' = <<s>> \o Tail(open)
  PROVE  Sound'
  <1>1. open' \in Seq(Opens) /\ \A i \in DOMAIN open' : OpenKnown(open'[i], block')
    <2>1. \A s \in Opens : OpenKnown(s, block) => OpenKnown(s, block')
      BY DEF OpenKnown
    <2>. QED  BY <2>1, OpensKept DEF Sound, ASTOK
  <1>2. ASTOK'
    BY <1>1 DEF Sound, ASTOK
  <1>. QED  BY <1>2 DEF Sound

LEMMA OpenAgain ==
  ASSUME Sound, open # <<>>, NEW kind \in Kinds, NEW jumped \in BOOLEAN,
         kind \in {"whileCond", "body", "judge"} => IsLoop(Head(open))
  PROVE  LET s == [Head(open) EXCEPT !.kind = kind, !.jumped = jumped] IN
           s \in Opens /\ OpenKnown(s, block)
  <1>. DEFINE o == Head(open)
              s == [o EXCEPT !.kind = kind, !.jumped = jumped]
  <1>1. o \in Opens /\ o.t \in DOMAIN block /\ o.f \in DOMAIN block /\ o.end \in DOMAIN block
        /\ (IsLoop(o) => o.judge \in DOMAIN block)
    BY HeadOpen
  <1>. HIDE DEF o
  <1>2. /\ s \in Opens /\ s.t = o.t /\ s.f = o.f /\ s.end = o.end /\ s.judge = o.judge
        /\ s.kind = kind
    BY <1>1 DEF Opens
  <1>. HIDE DEF s
  <1>3. OpenKnown(s, block)
    BY <1>1, <1>2 DEF OpenKnown, IsLoop, o
  <1>. QED  BY <1>2, <1>3 DEF s, o
LEMMA BranchSound ==
  ASSUME Sound, Branch
  PROVE  Sound'
  <1>. DEFINE s == Head(open)
              K == CASE s.kind = "ifCond" -> "if"
                     [] s.kind = "ifElseCond" -> "then"
                     [] s.kind = "whileCond" -> "body"
  <1>1. /\ stack = <<>> /\ open # <<>> /\ s.kind \in {"ifCond", "ifElseCond", "whileCond"}
        /\ block' = Edges(block, bb, {s.t, s.f}) /\ bb' = s.t
        /\ open' = <<[s EXCEPT !.kind = K]>> \o Tail(open)
        /\ phi' = phi /\ afterJump' = afterJump /\ stack' = stack /\ ret' = ret
        /\ defs' = defs /\ reads' = reads
    BY DEF Branch, Ready, InCondition
  <1>2. K \in Kinds /\ (K \in {"whileCond", "body", "judge"} => IsLoop(s))
    BY <1>1 DEF Kinds, IsLoop
  <1>3. s \in Opens /\ {s.t, s.f} \in SUBSET DOMAIN block
    BY <1>1, HeadOpen
  <1>. HIDE DEF K
  <1>4. s.jumped \in BOOLEAN /\ [s EXCEPT !.kind = K] = [s EXCEPT !.kind = K, !.jumped = s.jumped]
    BY <1>3 DEF Opens
  <1>5. [s EXCEPT !.kind = K] \in Opens /\ OpenKnown([s EXCEPT !.kind = K], block)
    <2>1. /\ [s EXCEPT !.kind = K, !.jumped = s.jumped] \in Opens
          /\ OpenKnown([s EXCEPT !.kind = K, !.jumped = s.jumped], block)
      BY <1>1, <1>2, <1>4, OpenAgain
    <2>. QED  BY <1>4, <2>1, Zenon
  <1>6. DataOK(block', phi) /\ DOMAIN block' = DOMAIN block
    BY <1>1, <1>3, EdgesKept
  <1>7. s.t \in DOMAIN block /\ afterJump \in BOOLEAN
    BY <1>3 DEF Sound, ASTOK
  <1>. HIDE DEF s
  <1>. QED  BY <1>1, <1>5, <1>6, <1>7, EmptyStack, ClosedSound

LEMMA EndIfSound ==
  ASSUME Sound, EndIf \/ EndElse
  PROVE  Sound'
  <1>. DEFINE s == Head(open)
  <1>1. /\ stack = <<>> /\ open # <<>> /\ block' = JumpTo(s.end) /\ bb' = s.end
        /\ open' = Tail(open) /\ phi' = phi /\ stack' = stack /\ ret' = ret
        /\ defs' = defs /\ reads' = reads
    BY DEF EndIf, EndElse, Closing
  <1>2. afterJump' \in BOOLEAN
    BY DEF EndIf, EndElse
  <1>3. s.end \in DOMAIN block
    BY <1>1, HeadOpen
  <1>4. DataOK(block', phi) /\ DOMAIN block' = DOMAIN block
    BY <1>1, <1>3, JumpKept
  <1>. HIDE DEF s
  <1>. QED  BY <1>1, <1>2, <1>3, <1>4, EmptyStack, ClosedSound

LEMMA EndThenSound ==
  ASSUME Sound, EndThen
  PROVE  Sound'
  <1>. DEFINE s == Head(open)
              o == [s EXCEPT !.kind = "else", !.jumped = afterJump]
  <1>1. /\ stack = <<>> /\ open # <<>> /\ block' = JumpTo(s.end) /\ bb' = s.f
        /\ afterJump' = FALSE
        /\ open' = <<o>> \o Tail(open) /\ phi' = phi /\ stack' = stack /\ ret' = ret
        /\ defs' = defs /\ reads' = reads
    BY DEF EndThen, Closing
  <1>2. s.end \in DOMAIN block /\ s.f \in DOMAIN block
    BY <1>1, HeadOpen
  <1>3. o \in Opens /\ OpenKnown(o, block)
    <2>1. "else" \in Kinds /\ "else" \notin {"whileCond", "body", "judge"} /\ afterJump \in BOOLEAN
      BY DEF Kinds, Sound, ASTOK
    <2>. QED  BY <1>1, <2>1, OpenAgain, Zenon
  <1>4. DataOK(block', phi) /\ DOMAIN block' = DOMAIN block
    BY <1>1, <1>2, JumpKept
  <1>5. afterJump' \in BOOLEAN
    BY <1>1
  <1>. HIDE DEF s, o
  <1>. QED  BY <1>1, <1>2, <1>3, <1>4, <1>5, EmptyStack, ClosedSound

LEMMA EndBodySound ==
  ASSUME Sound, EndBody
  PROVE  Sound'
  <1>. DEFINE s == Head(open)
              o == [s EXCEPT !.kind = "judge"]
  <1>1. /\ stack = <<>> /\ open # <<>> /\ s.kind = "body" /\ block' = JumpTo(s.judge)
        /\ afterJump' = FALSE
        /\ \/ bb' = s.judge /\ open' = <<o>> \o Tail(open) /\ stack' = stack
           \/ bb' = s.end /\ open' = Tail(open) /\ stack' = <<Sealing(s.t)>>
        /\ phi' = phi /\ ret' = ret /\ defs' = defs /\ reads' = reads
    BY DEF EndBody, Closing
  <1>2. IsLoop(s) /\ s \in Opens /\ s.t \in DOMAIN block /\ s.end \in DOMAIN block
        /\ s.judge \in DOMAIN block
    BY <1>1, HeadOpen DEF IsLoop
  <1>3. o \in Opens /\ OpenKnown(o, block)
    <2>1. "judge" \in Kinds /\ s.jumped \in BOOLEAN
          /\ o = [s EXCEPT !.kind = "judge", !.jumped = s.jumped]
      BY <1>2 DEF Kinds, Opens
    <2>2. /\ [s EXCEPT !.kind = "judge", !.jumped = s.jumped] \in Opens
          /\ OpenKnown([s EXCEPT !.kind = "judge", !.jumped = s.jumped], block)
      BY <1>1, <1>2, <2>1, OpenAgain, Zenon
    <2>. QED  BY <2>1, <2>2, Zenon
  <1>4. /\ DataOK(block', phi) /\ DOMAIN block' = DOMAIN block
        /\ \A c \in DOMAIN block : block'[c].incomplete_phis = block[c].incomplete_phis
    BY <1>1, <1>2, JumpKept
  <1>5. afterJump' \in BOOLEAN
    BY <1>1
  <1>6. StackOK(<<Sealing(s.t)>>, block', phi)
    BY <1>2, <1>4, SealStack
  <1>7. CASE bb' = s.judge /\ open' = <<o>> \o Tail(open) /\ stack' = stack
    <2>. HIDE DEF s, o
    <2>. QED  BY <1>1, <1>2, <1>3, <1>4, <1>5, <1>7, EmptyStack, ClosedSound
  <1>8. CASE bb' = s.end /\ open' = Tail(open) /\ stack' = <<Sealing(s.t)>>
    <2>. HIDE DEF s, o
    <2>. QED  BY <1>1, <1>2, <1>4, <1>5, <1>6, <1>8, ClosedSound
  <1>. QED  BY <1>1, <1>7, <1>8

LEMMA EndWhileSound ==
  ASSUME Sound, EndWhile
  PROVE  Sound'
  <1>. DEFINE s == Head(open)
  <1>1. /\ stack = <<>> /\ open # <<>> /\ block' = Edges(block, bb, {s.t, s.f}) /\ bb' = s.end
        /\ open' = Tail(open) /\ stack' = <<Sealing(s.t)>> /\ afterJump' = afterJump
        /\ phi' = phi /\ ret' = ret /\ defs' = defs /\ reads' = reads
    BY DEF EndWhile, Closing
  <1>2. s.t \in DOMAIN block /\ s.f \in DOMAIN block /\ s.end \in DOMAIN block
    BY <1>1, HeadOpen
  <1>3. /\ DataOK(block', phi) /\ DOMAIN block' = DOMAIN block
        /\ \A c \in DOMAIN block : block'[c].incomplete_phis = block[c].incomplete_phis
    BY <1>1, <1>2, EdgesKept
  <1>4. StackOK(<<Sealing(s.t)>>, block', phi)
    BY <1>2, <1>3, SealStack
  <1>5. afterJump' \in BOOLEAN
    BY <1>1 DEF Sound, ASTOK
  <1>. HIDE DEF s
  <1>. QED  BY <1>1, <1>2, <1>3, <1>4, <1>5, ClosedSound

LEMMA BreakSound ==
  ASSUME Sound, BreakOrContinue
  PROVE  Sound'
  <1>1. /\ stack = <<>> /\ afterJump' = TRUE /\ bb' = bb /\ open' = open /\ phi' = phi
        /\ stack' = stack /\ ret' = ret /\ defs' = defs /\ reads' = reads
    BY DEF BreakOrContinue, Ready
  <1>2. PICK loop \in InnerLoop : \E target \in {loop.end, loop.judge} :
          block' = Edges(block, bb, {target})
    BY DEF BreakOrContinue
  <1>3. PICK i \in DOMAIN open : loop = open[i] /\ open[i].kind = "body"
    BY DEF InnerLoop
  <1>4. OpenKnown(loop, block)
    BY <1>3 DEF Sound, ASTOK
  <1>5. PICK target \in DOMAIN block : block' = Edges(block, bb, {target})
    BY <1>2, <1>3, <1>4 DEF OpenKnown, IsLoop
  <1>6. DataOK(block', phi) /\ DOMAIN block' = DOMAIN block
    BY <1>5, EdgesKept
  <1>7. bb' \in DOMAIN block /\ afterJump' \in BOOLEAN
    BY <1>1 DEF Sound, ASTOK
  <1>. QED  BY <1>1, <1>6, <1>7, EmptyStack, ClosedSound

LEMMA ReturnStatementSound ==
  ASSUME Sound, ReturnStatement
  PROVE  Sound'
  <1>1. /\ stack = <<>> /\ afterJump' = TRUE /\ UNCHANGED <<block, phi, bb, open, stack, ret, defs, reads>>
    BY DEF ReturnStatement, Ready
  <1>2. ASTOK'
    BY <1>1 DEF Sound, ASTOK
  <1>. QED  BY <1>1, <1>2 DEF Sound

-----------------------------------------------------------------------------
(* The invariant.                                                          *)

LEMMA InitSound == Init => Sound
  <1>. SUFFICES ASSUME Init  PROVE Sound
    OBVIOUS
  <1>1. /\ block = <<NewBlock(TRUE)>> /\ phi = <<>> /\ bb = 1 /\ afterJump = FALSE /\ open = <<>>
        /\ stack = <<>> /\ ret = Nothing /\ defs = 0 /\ reads = 0
    BY DEF Init
  <1>2. block \in Seq(BlockRecords) /\ DOMAIN block = {1} /\ block[1] = NewBlock(TRUE)
    <2>1. block \in Seq(BlockRecords) /\ Len(block) = 1
      BY <1>1, NewBlocks
    <2>2. DOMAIN block = 1 .. 1 /\ 1 .. 1 = {1}
      BY <2>1, LenProperties
    <2>3. block[1] = NewBlock(TRUE)
      BY <1>1
    <2>. QED  BY <2>1, <2>2, <2>3, Zenon
  <1>3. phi \in Seq(PhiRecords) /\ DOMAIN phi = {}
    BY <1>1
  <1>4. /\ block[1].predecessors = {} /\ DOMAIN block[1].ssa_map = {}
        /\ DOMAIN block[1].incomplete_phis = {} /\ DOMAIN block[1].instructions = {}
    BY <1>2 DEF NewBlock
  <1>5. DataOK(block, phi)
    BY <1>2, <1>3, <1>4
       DEF DataOK, GraphKnown, BlocksKnown, BlockKnown, PhisKnown, UsersOK
  <1>6. ASTOK
    <2>1. open \in Seq(Opens) /\ DOMAIN open = {}
      BY <1>1
    <2>2. bb \in DOMAIN block /\ afterJump \in BOOLEAN
      BY <1>1, <1>2
    <2>3. reads \in Nat /\ defs \in 0 .. MaxDefs
      BY <1>1, BoundsAssumption
    <2>. QED  BY <2>1, <2>2, <2>3 DEF ASTOK
  <1>. QED  BY <1>1, <1>5, <1>6, EmptyStack DEF Sound

LEMMA StepSound ==
  ASSUME Sound, SsaStep
  PROVE  Sound'
  <1>1. CASE ReadHit
    BY <1>1, ReadHitSound
  <1>2. CASE ReadIncomplete
    BY <1>2, ReadIncompleteSound
  <1>3. CASE ReadSingle
    BY <1>3, ReadSingleSound
  <1>4. CASE ReadSingleReturn
    BY <1>4, ReadSingleReturnSound
  <1>5. CASE ReadJoin
    BY <1>5, ReadJoinSound
  <1>6. CASE ReadJoinReturn
    BY <1>6, ReadJoinReturnSound
  <1>7. CASE NextOperand
    BY <1>7, NextOperandSound
  <1>8. CASE GotOperand
    BY <1>8, GotOperandSound
  <1>9. CASE OperandsComplete
    BY <1>9, OperandsCompleteSound
  <1>10. CASE KeepPhi
    BY <1>10, KeepPhiSound
  <1>11. CASE RemovePhi
    BY <1>11, RemovePhiSound
  <1>12. CASE NextUser
    BY <1>12, NextUserSound
  <1>13. CASE GotUser
    BY <1>13, GotUserSound
  <1>14. CASE CascadeDone
    BY <1>14, CascadeDoneSound
  <1>15. CASE SealNext
    BY <1>15, SealNextSound
  <1>16. CASE SealReturn
    BY <1>16, SealReturnSound
  <1>17. CASE SealDone
    BY <1>17, SealDoneSound
  <1>18. CASE UseValue
    BY <1>18, UseValueSound
  <1>19. CASE CopyValue
    BY <1>19, CopyValueSound
  <1>. QED  BY <1>1, <1>2, <1>3, <1>4, <1>5, <1>6, <1>7, <1>8, <1>9, <1>10, <1>11, <1>12, <1>13,
               <1>14, <1>15, <1>16, <1>17, <1>18, <1>19 DEF SsaStep

LEMMA StatementSound ==
  ASSUME Sound, Statement
  PROVE  Sound'
  <1>1. CASE \E name \in Vars : Assign(name) \/ ReadVariable("use", name, name)
    BY <1>1, AssignSound, ReadVariableSound
  <1>2. CASE \E copy \in Copies : ReadVariable("copy", copy[1], copy[2])
    <2>1. PICK copy \in Copies : ReadVariable("copy", copy[1], copy[2])
      BY <1>2
    <2>2. copy[1] \in Vars /\ copy[2] \in Vars
      BY BoundsAssumption
    <2>. QED  BY <2>1, <2>2, ReadVariableSound
  <1>3. CASE If \/ IfElse \/ While
    BY <1>3, OpenedSound
  <1>4. CASE InCondition /\ (ShortCircuit(Head(open).t) \/ ShortCircuit(Head(open).f))
    BY <1>4, HeadOpen, ShortCircuitSound DEF InCondition
  <1>5. CASE Branch
    BY <1>5, BranchSound
  <1>6. CASE EndIf \/ EndElse
    BY <1>6, EndIfSound
  <1>7. CASE EndThen
    BY <1>7, EndThenSound
  <1>8. CASE EndBody
    BY <1>8, EndBodySound
  <1>9. CASE EndWhile
    BY <1>9, EndWhileSound
  <1>10. CASE BreakOrContinue
    BY <1>10, BreakSound
  <1>11. CASE ReturnStatement
    BY <1>11, ReturnStatementSound
  <1>. QED  BY <1>1, <1>2, <1>3, <1>4, <1>5, <1>6, <1>7, <1>8, <1>9, <1>10, <1>11 DEF Statement

(* What is held exists: no block, phi or frame names a phi or a block that *)
(* has not been made, whoever started the calls waits at the bottom of the *)
(* stack, and every place that holds a live phi is among its users.        *)
THEOREM SpecSound == Spec => []Sound
  <1>1. Sound /\ [Next]_vars => Sound'
    <2>. SUFFICES ASSUME Sound, [Next]_vars  PROVE Sound'
      OBVIOUS
    <2>1. CASE Next
      BY <2>1, StepSound, StatementSound DEF Next
    <2>2. CASE UNCHANGED vars
      <3>1. ASTOK'
        BY <2>2 DEF Sound, ASTOK, vars
      <3>. QED  BY <2>2, <3>1 DEF Sound, vars
    <2>. QED  BY <2>1, <2>2
  <1>. QED  BY <1>1, InitSound, PTL DEF Spec

(* The users that replaceUse walks: every live phi that has p as an operand, *)
(* every block whose SSA map has it and every instruction that uses it are   *)
(* among the users of p, whatever calls are active.                          *)
THEOREM SpecUsersKnown == Spec => []UsersKnown
  <1>1. ASSUME Sound  PROVE UsersKnown
    <2>. SUFFICES ASSUME NEW p \in Live
                  PROVE  /\ \A q \in Live : p \in OperandsOf(q) => PhiUser(q) \in PhiAt(p).users
                         /\ \A b \in Blocks :
                              /\ p \in MappedIn(b) => BlockUser(b) \in PhiAt(p).users
                              /\ \A i \in DOMAIN block[b].instructions :
                                   block[b].instructions[i].value = p
                                     => InsUser(b, i) \in PhiAt(p).users
      BY DEF UsersKnown
    <2>1. \A q \in Live : -q \in DOMAIN phi /\ -(-q) = q /\ phi[-q].valid
      BY BlockTypes, <1>1 DEF Live, Phis, PhiAt
    <2>2. UsersOK(block, phi)
      BY <1>1 DEF Sound, DataOK
    <2>3. ASSUME NEW q \in Live, p \in OperandsOf(q)  PROVE PhiUser(q) \in PhiAt(p).users
      BY <2>1, <2>2, <2>3 DEF UsersOK, OperandsOf, PhiAt
    <2>4. ASSUME NEW b \in Blocks
          PROVE  /\ p \in MappedIn(b) => BlockUser(b) \in PhiAt(p).users
                 /\ \A i \in DOMAIN block[b].instructions :
                      block[b].instructions[i].value = p => InsUser(b, i) \in PhiAt(p).users
      BY <2>1, <2>2 DEF UsersOK, MappedIn, PhiAt, Blocks
    <2>. QED  BY <2>3, <2>4
  <1>. QED  BY <1>1, SpecSound, PTL
-----------------------------------------------------------------------------
(* The removal of a phi.                                                   *)

ValidKept == \A k \in DOMAIN phi : k \in DOMAIN phi' /\ phi'[k].valid = phi[k].valid

LEMMA UsedValid ==
  ASSUME NEW P \in Seq(PhiRecords), NEW v \in ValuesOf(P), NEW u \in Users,
         phi' = Used(P, v, u),
         \A k \in DOMAIN phi : k \in DOMAIN P /\ P[k].valid = phi[k].valid
  PROVE  ValidKept
  <1>1. IsUsed(phi', P, v, u)
    BY UsedPhis, ValueIsInt
  <1>. QED  BY <1>1 DEF IsUsed, ValidKept

LEMMA MadeValid ==
  ASSUME Sound, NEW b \in DOMAIN block, NEW name \in Vars, NEW p, p = -(Len(phi) + 1),
         phi' = Used(Append(phi, NewPhi(name, b)), p, BlockUser(b))
  PROVE  ValidKept
  <1>. DEFINE P == Append(phi, NewPhi(name, b))
  <1>1. DataOK(block, P) /\ p \in ValuesOf(P)
    BY DataMorePhis, PhiIsValue DEF Sound, DataOK
  <1>2. HasMore(P, phi, name, b)
    BY MorePhis, BlockTypes DEF Sound, DataOK
  <1>. HIDE DEF P
  <1>3. \A k \in DOMAIN phi : k \in DOMAIN P /\ P[k].valid = phi[k].valid
    BY <1>2, LenProperties DEF HasMore, Sound, DataOK
  <1>4. P \in Seq(PhiRecords) /\ BlockUser(b) \in Users
    BY <1>1, UserIsUser, BlockTypes DEF DataOK
  <1>5. phi' = Used(P, p, BlockUser(b))
    BY DEF P
  <1>. QED  BY <1>1, <1>3, <1>4, <1>5, UsedValid

LEMMA OnlyRemovePhi ==
  ASSUME Sound, Next, ~RemovePhi
  PROVE  ValidKept
  <1>1. CASE phi' = phi
    BY <1>1 DEF ValidKept
  <1>2. CASE ReadIncomplete
    <2>1. /\ stack # <<>> /\ Top.fn = "read"
          /\ phi' = Used(Append(phi, NewPhi(Top.name, Top.block)), -(Len(phi) + 1),
                         BlockUser(Top.block))
      BY <1>2 DEF ReadIncomplete, Calling
    <2>. QED  BY <2>1, TopFrame, MadeValid
  <1>3. CASE ReadJoin
    <2>1. /\ stack # <<>> /\ Top.fn = "read"
          /\ phi' = Used(Append(phi, NewPhi(Top.name, Top.block)), -(Len(phi) + 1),
                         BlockUser(Top.block))
      BY <1>3 DEF ReadJoin, Calling
    <2>. QED  BY <2>1, TopFrame, MadeValid
  <1>4. CASE ReadSingleReturn \/ ReadJoinReturn
    <2>1. /\ stack # <<>> /\ Top.fn \in {"single", "join"} /\ ret # Nothing
          /\ phi' = Used(phi, ret, BlockUser(Top.block))
      BY <1>4 DEF ReadSingleReturn, ReadJoinReturn, Returned
    <2>2. Top.block \in DOMAIN block
      BY <2>1, TopFrame
    <2>3. BlockUser(Top.block) \in Users
      BY <2>2, UserIsUser, BlockTypes
    <2>4. phi \in Seq(PhiRecords) /\ ret \in ValuesOf(phi)
      BY <2>1 DEF Sound, DataOK
    <2>. QED  BY <2>1, <2>3, <2>4, UsedValid
  <1>5. CASE GotOperand
    <2>. DEFINE R == OperandIn(phi, -Top.phi, Top.pred, ret)
    <2>1. /\ stack # <<>> /\ Top.fn = "operands" /\ ret # Nothing
          /\ phi' = Used(R, ret, PhiUser(Top.phi))
      BY <1>5 DEF GotOperand, Returned, OperandIn
    <2>2. /\ Top.phi \in PhisOf(phi) /\ Top.pred \in Nat /\ ret \in ValuesOf(phi)
          /\ phi \in Seq(PhiRecords)
      BY <2>1, TopFrame DEF Sound, DataOK
    <2>3. -Top.phi \in DOMAIN phi /\ PhiUser(Top.phi) \in Users /\ ret \in Int
      BY <2>2, PhiIsValue, UserIsUser, ValueIsInt
    <2>4. HasOperand(R, phi, -Top.phi, Top.pred, ret)
      BY <2>2, <2>3, OperandPhis
    <2>. HIDE DEF R
    <2>5. /\ R \in Seq(PhiRecords) /\ ret \in ValuesOf(R)
          /\ \A k \in DOMAIN phi : k \in DOMAIN R /\ R[k].valid = phi[k].valid
      BY <2>2, <2>4 DEF HasOperand, ValuesOf
    <2>. QED  BY <2>1, <2>3, <2>5, UsedValid
  <1>6. CASE UseValue
    <2>1. /\ ret # Nothing /\ phi' = Used(phi, ret, InsUser(bb, Len(block[bb].instructions) + 1))
      BY <1>6 DEF UseValue, Returned
    <2>2. bb \in DOMAIN block
      BY DEF Sound, ASTOK
    <2>3. bb \in Int /\ block[bb].instructions \in Seq(Instructions)
      BY <2>2, BlockTypes, BlockFields
    <2>4. Len(block[bb].instructions) + 1 \in Int
      BY <2>3, LenProperties
    <2>5. InsUser(bb, Len(block[bb].instructions) + 1) \in Users
      BY <2>3, <2>4, UserIsUser
    <2>6. phi \in Seq(PhiRecords) /\ ret \in ValuesOf(phi)
      BY <2>1 DEF Sound, DataOK
    <2>. QED  BY <2>1, <2>5, <2>6, UsedValid
  <1>7. CASE CopyValue
    <2>1. /\ ret # Nothing /\ phi' = Used(phi, ret, BlockUser(bb))
      BY <1>7 DEF CopyValue, Returned
    <2>2. BlockUser(bb) \in Users
      BY UserIsUser, BlockTypes DEF Sound, ASTOK
    <2>3. phi \in Seq(PhiRecords) /\ ret \in ValuesOf(phi)
      BY <2>1 DEF Sound, DataOK
    <2>. QED  BY <2>1, <2>2, <2>3, UsedValid
  <1>8. CASE SsaStep
    <2>1. \/ phi' = phi \/ ReadIncomplete \/ ReadJoin \/ ReadSingleReturn \/ ReadJoinReturn
          \/ GotOperand \/ UseValue \/ CopyValue
      BY <1>8 DEF SsaStep, ReadHit, ReadSingle, NextOperand, OperandsComplete, KeepPhi, NextUser,
                  GotUser, CascadeDone, SealNext, SealReturn, SealDone
    <2>. QED  BY <1>1, <1>2, <1>3, <1>4, <1>5, <1>6, <1>7, <2>1
  <1>9. CASE Statement
    <2>1. phi' = phi
      BY <1>9 DEF Statement, Assign, ReadVariable, If, IfElse, While, OpenStatement, ShortCircuit,
                  Branch, EndIf, EndThen, EndElse, EndBody, EndWhile, BreakOrContinue,
                  ReturnStatement
    <2>. QED  BY <1>1, <2>1
  <1>. QED  BY <1>8, <1>9 DEF Next

(* Only the phi a call of remove_trivial_phi is about goes, and the users    *)
(* that are walked are all that have it.                                     *)
LEMMA RemovedNowhere ==
  ASSUME Sound, RemovePhi, NEW p \in Live, p \notin Live'
  PROVE  ~Held(p)'
  <1>. DEFINE U == PhiAt(Top.phi).users \ {PhiUser(Top.phi)}
              same == Same(Top.phi)
  <1>1. /\ stack # <<>> /\ Top.fn = "remove"
        /\ block' = BlocksWith(U, Top.phi, same) /\ phi' = PhisWith(U, Top.phi, same)
    BY DEF RemovePhi, Calling
  <1>2. Top.phi \in PhisOf(phi)
    BY <1>1, TopFrame
  <1>3. same \in ValuesOf(phi) /\ same # Top.phi
    BY <1>2, SameKnown
  <1>4. U \in SUBSET Users
    BY <1>2, PhiIsValue, PhiFields, BlockTypes DEF PhiAt, Sound, DataOK
  <1>. HIDE DEF same, U
  <1>5. IsRemoved(block', U, Top.phi, same) /\ IsForgotten(phi', U, Top.phi, same)
    BY <1>1, <1>2, <1>3, <1>4, DataRemoved DEF Sound
  <1>6. p \in Int /\ p < 0 /\ -p \in DOMAIN phi /\ -(-p) = p /\ phi[-p].valid
    BY BlockTypes DEF Live, Phis, PhiAt
  <1>7. p = Top.phi
    <2>1. ~phi'[-p].valid
      BY <1>5, <1>6 DEF Live, Phis, PhiAt, IsForgotten
    <2>. QED  BY <1>5, <1>6, <2>1 DEF IsForgotten
  <1>8. UsersOK(block, phi) /\ U = phi[-p].users \ {PhiUser(p)}
    BY <1>7 DEF Sound, DataOK, U, PhiAt
  <1>9. ASSUME NEW q \in Live', p \in OperandsOf(q)'  PROVE FALSE
    <2>1. PICK j \in DOMAIN phi' : q = -j /\ phi'[-(-j)].valid
      BY DEF Live, Phis, PhiAt
    <2>2. /\ j \in DOMAIN phi /\ -(-j) = j /\ phi[j].valid /\ -j # p
          /\ phi'[j].operands = IF PhiUser(-j) \in U THEN Subst(phi[j].operands, p, same)
                                ELSE phi[j].operands
      <3>1. DOMAIN phi' = DOMAIN phi
        BY <1>5 DEF IsForgotten
      <3>2. j \in DOMAIN phi /\ -(-j) = j
        BY <2>1, <3>1, BlockTypes
      <3>3. phi'[j].valid
        BY <2>1, <3>2
      <3>. QED  BY <1>5, <1>7, <3>2, <3>3 DEF IsForgotten
    <2>3. PICK c \in DOMAIN phi'[j].operands : phi'[j].operands[c] = p
      BY <1>9, <2>1, <2>2 DEF OperandsOf, PhiAt
    <2>4. c \in DOMAIN phi[j].operands /\ phi[j].operands[c] = p
      BY <1>3, <1>7, <2>2, <2>3 DEF Subst
    <2>5. PhiUser(-j) \in phi[-p].users
      BY <1>6, <1>8, <2>2, <2>4 DEF UsersOK
    <2>6. PhiUser(-j) \in U
      BY <1>8, <2>2, <2>5, DistinctUsers
    <2>. QED  BY <1>3, <1>7, <2>2, <2>3, <2>4, <2>6 DEF Subst
  <1>10. ASSUME NEW b \in Blocks', p \in MappedIn(b)'  PROVE FALSE
    <2>1. /\ b \in DOMAIN block
          /\ block'[b].ssa_map = IF BlockUser(b) \in U THEN Subst(block[b].ssa_map, p, same)
                                 ELSE block[b].ssa_map
      BY <1>5, <1>7 DEF IsRemoved, RemovedFrom, Blocks
    <2>2. PICK name \in DOMAIN block'[b].ssa_map : block'[b].ssa_map[name] = p
      BY <1>10 DEF MappedIn
    <2>3. name \in DOMAIN block[b].ssa_map /\ block[b].ssa_map[name] = p
      BY <1>3, <1>7, <2>1, <2>2 DEF Subst
    <2>4. BlockUser(b) \in U
      BY <1>6, <1>8, <2>1, <2>3, DistinctUsers DEF UsersOK
    <2>. QED  BY <1>3, <1>7, <2>1, <2>2, <2>3, <2>4 DEF Subst
  <1>11. ASSUME NEW b \in Blocks', p \in UsedIn(b)'  PROVE FALSE
    <2>1. b \in DOMAIN block /\ RemovedFrom(block'[b], block[b], b, U, p, same)
      BY <1>5, <1>7 DEF IsRemoved, Blocks
    <2>2. PICK i \in DOMAIN block'[b].instructions : block'[b].instructions[i].value = p
      BY <1>11 DEF UsedIn
    <2>3. /\ i \in DOMAIN block[b].instructions
          /\ block'[b].instructions[i].value =
               IF InsUser(b, i) \in U /\ block[b].instructions[i].value = p
               THEN same ELSE block[b].instructions[i].value
      BY <2>1, <2>2 DEF RemovedFrom
    <2>4. block[b].instructions[i].value = p /\ InsUser(b, i) \notin U
      BY <1>3, <1>7, <2>2, <2>3
    <2>5. InsUser(b, i) \in phi[-p].users
      BY <1>6, <1>8, <2>1, <2>3, <2>4 DEF UsersOK
    <2>. QED  BY <1>8, <2>4, <2>5, DistinctUsers
  <1>. QED  BY <1>9, <1>10, <1>11 DEF Held

(* remove_trivial_phi takes a phi out of the program: when it is marked     *)
(* invalid, no SSA map, no instruction and no phi that stays has it, though *)
(* replaceUse only walks the users that were recorded.                      *)
THEOREM SpecRemovalComplete == Spec => RemovalComplete
  <1>1. ASSUME Sound, [Next]_vars
        PROVE  [\A p \in Live : p \notin Live' => ~Held(p)']_vars
    <2>1. CASE UNCHANGED vars
      BY <2>1
    <2>2. CASE Next /\ RemovePhi
      BY <1>1, <2>2, RemovedNowhere
    <2>3. CASE Next /\ ~RemovePhi
      <3>1. ValidKept
        BY <1>1, <2>3, OnlyRemovePhi
      <3>2. Live \subseteq Live'
        BY <1>1, <3>1, BlockTypes DEF ValidKept, Live, Phis, PhiAt
      <3>. QED  BY <3>2
    <2>. QED  BY <1>1, <2>1, <2>2, <2>3
  <1>. QED  BY <1>1, SpecSound, PTL DEF Spec, RemovalComplete
=============================================================================
