------------------------ MODULE ConflictGraphProofs ------------------------
(***************************************************************************)
(* Proofs about ConflictGraph, for every function in SSA form: the marks   *)
(* of buildConflictGraph are liveness, so that the graph has every         *)
(* interference and calls save what is needed after them.                  *)
(***************************************************************************)
EXTENDS PhiEliminationProofs

-----------------------------------------------------------------------------
(* What can be reached from a block without entering another: the least    *)
(* solution is a solution, and what is reached from what is reached is too. *)

LEMMA ReachableClosed ==
  ASSUME NEW f, FunctionOK(f), NEW b \in Blocks, NEW a
  PROVE  /\ Reachable(f, b, a) \in SUBSET Blocks
         /\ a \notin Reachable(f, b, a)
         /\ Closed(f, b, a, Reachable(f, b, a))
  <1>1. Reachable(f, b, a) \in SUBSET Blocks
    BY DEF Reachable
  <1>2. a \notin Reachable(f, b, a)
    <2>1. Closed(f, b, a, Blocks \ {a}) /\ Blocks \ {a} \in SUBSET Blocks
      BY DEF Closed, FunctionOK
    <2>. QED  BY <2>1 DEF Reachable
  <1>3. Closed(f, b, a, Reachable(f, b, a))
    <2>. SUFFICES ASSUME NEW c \in {b} \cup Reachable(f, b, a), NEW x \in f.successors[c], x # a
                  PROVE  x \in Reachable(f, b, a)
      BY DEF Closed
    <2>1. c \in Blocks /\ x \in Blocks
      BY <1>1 DEF FunctionOK
    <2>2. ASSUME NEW S \in SUBSET Blocks, Closed(f, b, a, S)  PROVE x \in S
      <3>1. c \in {b} \cup S
        BY <2>2 DEF Reachable
      <3>. QED  BY <2>2, <3>1 DEF Closed
    <2>. QED  BY <2>1, <2>2 DEF Reachable
  <1>. QED  BY <1>1, <1>2, <1>3

LEMMA ReachableLeast ==
  ASSUME NEW f, NEW b, NEW a, NEW S \in SUBSET Blocks, Closed(f, b, a, S)
  PROVE  Reachable(f, b, a) \subseteq S
  BY DEF Reachable

LEMMA ReachableTransitive ==
  ASSUME NEW f, FunctionOK(f), NEW b \in Blocks, NEW a,
         NEW x \in Reachable(f, b, a), NEW y \in Reachable(f, x, a)
  PROVE  y \in Reachable(f, b, a)
  <1>1. Closed(f, x, a, Reachable(f, b, a)) /\ Reachable(f, b, a) \in SUBSET Blocks
    BY ReachableClosed DEF Closed
  <1>. QED  BY <1>1, ReachableLeast

LEMMA ReachableStep ==
  ASSUME NEW f, FunctionOK(f), NEW b \in Blocks, NEW a,
         NEW x \in f.successors[b], x # a, NEW y \in Blocks, y = x \/ y \in Reachable(f, x, a)
  PROVE  y \in Reachable(f, b, a)
  <1>1. x \in Reachable(f, b, a)
    BY ReachableClosed DEF Closed
  <1>. QED  BY <1>1, ReachableTransitive

(* From every block but d itself from which a block that d dominates can   *)
(* be reached without d: it is on a way from d.                            *)
LEMMA BehindDominator ==
  ASSUME NEW f, FunctionOK(f), SsaForm(f), NEW d \in Blocks, NEW u \in Blocks, NEW b \in Blocks,
         Dominates(f, d, u), u # d, b # d, b = u \/ u \in Reachable(f, b, d)
  PROVE  b \in Reachable(f, d, d)
  <1>. DEFINE D == Reachable(f, d, d)
              A == Reachable(f, 1, d)
  <1>0. 1 \in Blocks
    BY ConstantsAssumption
  <1>1. Closed(f, d, d, D) /\ D \in SUBSET Blocks
    BY ReachableClosed
  <1>2. Closed(f, 1, d, A) /\ A \in SUBSET Blocks
    BY <1>0, ReachableClosed
  <1>3. CASE d = 1
    <2>1. f.successors \in [Blocks -> SUBSET (Blocks \ {1})]
      BY DEF FunctionOK
    <2>2. Closed(f, 1, None, D)
      BY <1>1, <1>3, <2>1 DEF Closed
    <2>3. b \in Reachable(f, 1, None)
      BY <1>3 DEF SsaForm
    <2>. QED  BY <1>1, <2>2, <2>3, ReachableLeast
  <1>4. CASE d # 1
    <2>1. u \notin {1} \cup A
      BY <1>4 DEF Dominates
    <2>2. b # 1 /\ b \notin A
      BY <1>0, <2>1, ReachableTransitive
    <2>3. b \in Reachable(f, 1, None)
      BY <2>2 DEF SsaForm
    <2>4. Closed(f, 1, None, A \cup {d} \cup D) /\ A \cup {d} \cup D \in SUBSET Blocks
      BY <1>1, <1>2 DEF Closed
    <2>5. b \in A \cup {d} \cup D
      BY <2>3, <2>4, ReachableLeast
    <2>. QED  BY <2>2, <2>5
  <1>. QED  BY <1>3, <1>4

LEMMA ReachableFirst ==
  ASSUME NEW f, FunctionOK(f), NEW b \in Blocks, NEW a, NEW u \in Reachable(f, b, a)
  PROVE  \E s \in f.successors[b] : s \in Blocks /\ s # a /\ (s = u \/ u \in Reachable(f, s, a))
  <1>. DEFINE D == {x \in Blocks : \E s \in f.successors[b] : s \in Blocks /\ s # a /\ (s = x \/ x \in Reachable(f, s, a))}
  <1>1. \A x \in Blocks : f.successors[x] \subseteq Blocks
    BY DEF FunctionOK
  <1>2. ASSUME NEW x \in {b} \cup D, NEW y \in f.successors[x], y # a  PROVE y \in D
    <2>1. CASE x = b
      BY <1>1, <1>2, <2>1
    <2>2. CASE x \in D
      <3>1. PICK s \in f.successors[b] : s \in Blocks /\ s # a /\ (s = x \/ x \in Reachable(f, s, a))
        BY <2>2
      <3>2. y \in Blocks /\ x \in Blocks
        BY <1>1, <1>2, <2>2
      <3>3. y \in Reachable(f, s, a)
        <4>1. Closed(f, s, a, Reachable(f, s, a))
          BY <3>1, ReachableClosed
        <4>. QED  BY <1>2, <3>1, <4>1 DEF Closed
      <3>. QED  BY <3>1, <3>2, <3>3
    <2>. QED  BY <1>2, <2>1, <2>2
  <1>3. Closed(f, b, a, D) /\ D \in SUBSET Blocks
    BY <1>2 DEF Closed
  <1>. HIDE DEF D
  <1>4. u \in D
    BY <1>3, ReachableLeast
  <1>. QED  BY <1>4 DEF D

(* From and to dominated blocks, a block between reaches on.               *)
LEMMA BetweenPoints ==
  ASSUME NEW f, FunctionOK(f), NEW d \in Blocks, NEW u, NEW b \in PathPoints(f, d, u), NEW x \in PathPoints(f, d, b)
  PROVE  x \in PathPoints(f, d, u)
  <1>1. /\ b \in Reachable(f, d, d) /\ u \in Reachable(f, b, d) /\ b # d
        /\ x \in Reachable(f, d, d) /\ b \in Reachable(f, x, d) /\ x # d
    BY DEF PathPoints
  <1>2. x \in Blocks
    BY <1>1, ReachableClosed
  <1>3. u \in Reachable(f, x, d)
    BY <1>1, <1>2, ReachableTransitive
  <1>. QED  BY <1>1, <1>3 DEF PathPoints

-----------------------------------------------------------------------------
(* Liveness: the least solution is one.                                    *)
LEMMA LiveInSolves ==
  ASSUME NEW f, NEW c, NEW v
  PROVE  /\ LiveIn(f, c, v) \subseteq Blocks
         /\ \A b \in Blocks : LiveAt(f, c, LiveIn(f, c, v), v, b, 1) => b \in LiveIn(f, c, v)
  <1>. DEFINE uses == {b \in Blocks : UsedFrom(c, v, b, 1)}
              passes == {b \in Blocks : PassedFrom(c, v, b, 1)}
              L == LiveIn(f, c, v)
  <1>1. L = {b \in Blocks : \A S \in SUBSET Blocks : Solves(f, uses, passes, S) => b \in S}
    BY DEF LiveIn
  <1>. HIDE DEF L, uses, passes
  <1>2. ASSUME NEW b \in Blocks, b \in uses \/ (b \in passes /\ f.successors[b] \cap L # {})
        PROVE  b \in L
    <2>. SUFFICES ASSUME NEW S \in SUBSET Blocks, Solves(f, uses, passes, S)
                  PROVE  b \in S
      BY <1>1
    <2>1. L \subseteq S
      BY <1>1
    <2>. QED  BY <1>2, <2>1 DEF Solves
  <1>3. ASSUME NEW b \in Blocks, LiveAt(f, c, L, v, b, 1)
        PROVE  b \in uses \/ (b \in passes /\ f.successors[b] \cap L # {})
    BY <1>3 DEF LiveAt, uses, passes
  <1>. QED  BY <1>1, <1>2, <1>3 DEF L

LEMMA LiveInLeast ==
  ASSUME NEW f, NEW c, NEW v, NEW S \in SUBSET Blocks,
         \A b \in Blocks : LiveAt(f, c, S, v, b, 1) => b \in S
  PROVE  LiveIn(f, c, v) \subseteq S
  <1>. DEFINE uses == {b \in Blocks : UsedFrom(c, v, b, 1)}
              passes == {b \in Blocks : PassedFrom(c, v, b, 1)}
  <1>1. Solves(f, uses, passes, S)
    BY DEF Solves, LiveAt
  <1>. QED  BY <1>1 DEF LiveIn

(* Any set that a block's use or passing forces it into has what is live.  *)
LEMMA LiveInAny ==
  ASSUME NEW f, NEW c, NEW v, NEW b \in Blocks,
         \A S \in SUBSET Blocks : (\A x \in Blocks : LiveAt(f, c, S, v, x, 1) => x \in S) => b \in S
  PROVE  b \in LiveIn(f, c, v)
  BY LiveInSolves

-----------------------------------------------------------------------------
(* Where an ordinary value is live: on the ways from where it is made to   *)
(* its uses.                                                               *)
ReachesUse(f, c, v, db, b) ==
  \E ub, uj : UseAt(c, v, ub, uj) /\ ub # db /\ (ub = b \/ ub \in Reachable(f, b, db))

LEMMA NotMadeAgain ==
  ASSUME NEW f, NEW c, Final(f, c), NEW v \in Variables, NEW db, NEW di, DefAt(c, v, db, di),
         NEW b \in Blocks, NEW i \in Int, b # db \/ i > di
  PROVE  /\ PassedFrom(c, v, b, i)
         /\ \A j \in Int : UseAt(c, v, b, j) /\ i <= j => UsedFrom(c, v, b, i)
  <1>0. v # None /\ DOMAIN c[b] \subseteq Int /\ di \in Int
    BY ConstantsAssumption, DefRange, FinalBlock DEF Variables, None
  <1>1. \A k \in DOMAIN c[b] : c[b][k].value = v => b = db /\ k = di
    <2>. SUFFICES ASSUME NEW k \in DOMAIN c[b], c[b][k].value = v  PROVE b = db /\ k = di
      OBVIOUS
    <2>1. DefAt(c, v, b, k)
      BY <1>0 DEF DefAt
    <2>. QED  BY <2>1, MadeOnce
  <1>2. \A k \in DOMAIN c[b] : i <= k => c[b][k].value # v
    BY <1>0, <1>1
  <1>. QED  BY <1>2 DEF PassedFrom, UsedFrom, UseAt

LEMMA LiveOnWays ==
  ASSUME NEW f, NEW c, Final(f, c), NEW v \in Variables, NEW db, NEW di, DefAt(c, v, db, di),
         NEW b \in Blocks, b # db, ReachesUse(f, c, v, db, b)
  PROVE  b \in LiveIn(f, c, v)
  <1>0. FunctionOK(f) /\ db \in Blocks
    BY DefRange DEF Final
  <1>. SUFFICES ASSUME NEW S \in SUBSET Blocks, \A x \in Blocks : LiveAt(f, c, S, v, x, 1) => x \in S, b \notin S
                PROVE  FALSE
    BY LiveInAny
  <1>1. PICK ub, uj : UseAt(c, v, ub, uj) /\ ub # db /\ (ub = b \/ ub \in Reachable(f, b, db))
    BY DEF ReachesUse
  <1>. DEFINE Q == {x \in Blocks : x # db /\ x \notin S}
  <1>2. ASSUME NEW x \in {b} \cup Q, NEW s \in f.successors[x], s # db  PROVE s \in Q
    <2>1. x \in Blocks /\ x # db /\ x \notin S /\ s \in Blocks
      BY <1>0, <1>2 DEF FunctionOK
    <2>2. PassedFrom(c, v, x, 1)
      BY <2>1, NotMadeAgain
    <2>3. s \notin S
      BY <2>1, <2>2 DEF LiveAt
    <2>. QED  BY <1>2, <2>1, <2>3
  <1>3. Closed(f, b, db, Q) /\ Q \in SUBSET Blocks
    BY <1>2 DEF Closed
  <1>4. ub \in Blocks /\ ub \notin S
    <2>. HIDE DEF Q
    <2>1. ub = b \/ ub \in Q
      BY <1>1, <1>3, ReachableLeast
    <2>. QED  BY <2>1 DEF Q
  <1>5. uj \in Int /\ 1 <= uj
    BY <1>1, FinalBlock DEF UseAt
  <1>6. UsedFrom(c, v, ub, 1)
    BY <1>1, <1>4, <1>5, NotMadeAgain
  <1>. QED  BY <1>4, <1>6 DEF LiveAt

LEMMA LiveOnlyOnWays ==
  ASSUME NEW f, NEW c, Final(f, c), NEW v \in Variables, NEW db, NEW di, DefAt(c, v, db, di),
         NEW b \in LiveIn(f, c, v), b # 1
  PROVE  b # db /\ ReachesUse(f, c, v, db, b)
  <1>. DEFINE S == {x \in Blocks : (x # db /\ ReachesUse(f, c, v, db, x)) \/ (x = db /\ x = 1)}
  <1>0. FunctionOK(f) /\ db \in Blocks /\ v # None
    BY DefRange, ConstantsAssumption DEF Final, None, Variables
  <1>1. ASSUME NEW x \in Blocks, LiveAt(f, c, S, v, x, 1)  PROVE x \in S
    <2>1. CASE x = db /\ x # 1
      <3>1. di \in DOMAIN c[x] /\ c[x][di].value = v /\ 1 <= di /\ di \in Int /\ DOMAIN c[x] \subseteq Int
        BY <2>1, <1>1, FinalBlock DEF DefAt
      <3>2. ~PassedFrom(c, v, x, 1)
        BY <3>1 DEF PassedFrom
      <3>3. PICK j \in DOMAIN c[x] : v \in c[x][j].operands /\ \A k \in DOMAIN c[x] : 1 <= k /\ k < j => c[x][k].value # v
        BY <1>1, <3>2 DEF LiveAt, UsedFrom
      <3>4. UseAt(c, v, x, j)
        BY <1>1, <3>3 DEF UseAt
      <3>5. PICK eb, ei : DefAt(c, v, eb, ei) /\ Behind(f, x, j, eb, ei)
        BY <3>4, UseBehind
      <3>6. eb = db /\ ei = di
        BY <3>5, MadeOnce
      <3>7. di < j
        BY <2>1, <3>5, <3>6 DEF Behind
      <3>. QED  BY <3>1, <3>3, <3>7
    <2>2. CASE x # db /\ UsedFrom(c, v, x, 1)
      <3>1. \E j : UseAt(c, v, x, j)
        BY <2>2, <1>1 DEF UsedFrom, UseAt
      <3>. QED  BY <2>2, <3>1 DEF ReachesUse
    <2>3. CASE x # db /\ f.successors[x] \cap S # {}
      <3>1. PICK s \in f.successors[x] : s \in S
        BY <2>3
      <3>2. s \in Blocks /\ s # 1
        BY <1>0, <3>1 DEF FunctionOK
      <3>3. s # db /\ ReachesUse(f, c, v, db, s)
        BY <3>1, <3>2
      <3>4. PICK ub, uj : UseAt(c, v, ub, uj) /\ ub # db /\ (ub = s \/ ub \in Reachable(f, s, db))
        BY <3>3 DEF ReachesUse
      <3>5. ub \in Reachable(f, x, db)
        BY <1>0, <3>2, <3>3, <3>4, ReachableStep DEF UseAt
      <3>. QED  BY <2>3, <3>4, <3>5 DEF ReachesUse
    <2>4. CASE x = db /\ x = 1
      BY <2>4
    <2>. QED  BY <1>1, <2>1, <2>2, <2>3, <2>4 DEF LiveAt
  <1>2. LiveIn(f, c, v) \subseteq S
    <2>1. S \in SUBSET Blocks
      OBVIOUS
    <2>. HIDE DEF S
    <2>. QED  BY <1>1, <2>1, LiveInLeast
  <1>. QED  BY <1>2

LEMMA UseDominated ==
  ASSUME NEW f, NEW c, Final(f, c), NEW v \in Variables, NEW db, NEW di, DefAt(c, v, db, di),
         NEW ub, NEW uj, UseAt(c, v, ub, uj)
  PROVE  ub \in Blocks /\ uj \in Int /\ Behind(f, ub, uj, db, di)
  <1>1. PICK eb, ei : DefAt(c, v, eb, ei) /\ Behind(f, ub, uj, eb, ei)
    BY UseBehind
  <1>2. eb = db /\ ei = di
    BY <1>1, MadeOnce
  <1>. QED  BY <1>1, <1>2, FinalBlock DEF UseAt

(* Before a use in the block of the definition, behind the definition.     *)
LEMMA LiveUpToUse ==
  ASSUME NEW f, NEW c, Final(f, c), NEW v \in Variables, NEW db, NEW di, DefAt(c, v, db, di),
         NEW ub, NEW uj, UseAt(c, v, ub, uj), NEW i \in Int, i <= uj, ub # db \/ i > di
  PROVE  LiveAt(f, c, LiveIn(f, c, v), v, ub, i)
  <1>1. ub \in Blocks /\ uj \in Int
    BY UseDominated
  <1>. QED  BY <1>1, NotMadeAgain DEF LiveAt

(* To the end of a block that reaches a use in another one.                *)
LEMMA LiveOnTheWay ==
  ASSUME NEW f, NEW c, Final(f, c), NEW v \in Variables, NEW db, NEW di, DefAt(c, v, db, di),
         NEW ub, NEW uj, UseAt(c, v, ub, uj), ub # db, NEW b \in {db} \cup PathPoints(f, db, ub),
         NEW i \in Int, b # db \/ i > di
  PROVE  LiveAt(f, c, LiveIn(f, c, v), v, b, i)
  <1>0. FunctionOK(f) /\ SsaForm(f) /\ db \in Blocks /\ ub \in Blocks /\ Dominates(f, db, ub)
    BY UseDominated, DefRange DEF Final, Behind
  <1>1. b \in Blocks /\ ub \in Reachable(f, b, db)
    <2>1. ub \in Reachable(f, db, db)
      BY <1>0, BehindDominator
    <2>. QED  BY <1>0, <2>1, ReachableClosed DEF PathPoints
  <1>2. PICK s \in f.successors[b] : s \in Blocks /\ s # db /\ (s = ub \/ ub \in Reachable(f, s, db))
    BY <1>0, <1>1, ReachableFirst
  <1>3. ReachesUse(f, c, v, db, s)
    BY <1>2 DEF ReachesUse
  <1>4. s \in LiveIn(f, c, v)
    BY <1>2, <1>3, LiveOnWays
  <1>5. PassedFrom(c, v, b, i)
    BY <1>1, NotMadeAgain
  <1>. QED  BY <1>2, <1>4, <1>5 DEF LiveAt

(* Nowhere else: what is live is used later in the block, or in a block    *)
(* the way to which leads through this one.                                *)
LEMMA LiveForUse ==
  ASSUME NEW f, NEW c, Final(f, c), NEW v \in Variables, NEW db, NEW di, DefAt(c, v, db, di),
         NEW b \in Blocks, NEW i \in Int, i > 0, LiveAt(f, c, LiveIn(f, c, v), v, b, i)
  PROVE  /\ b = db => i > di
         /\ \E ub, uj : /\ UseAt(c, v, ub, uj)
                        /\ \/ ub = b /\ i <= uj
                           \/ ub # db /\ (b = db \/ b \in PathPoints(f, db, ub))
  <1>0. FunctionOK(f) /\ SsaForm(f) /\ db \in Blocks /\ di \in Int /\ v # None
    BY DefRange, ConstantsAssumption DEF Final, None, Variables
  <1>1. ASSUME b = db, i <= di  PROVE FALSE
    <2>1. di \in DOMAIN c[b] /\ c[b][di].value = v
      BY <1>1, <1>0 DEF DefAt
    <2>2. ~PassedFrom(c, v, b, i)
      BY <1>1, <2>1 DEF PassedFrom
    <2>3. PICK j \in DOMAIN c[b] : v \in c[b][j].operands /\ \A k \in DOMAIN c[b] : i <= k /\ k < j => c[b][k].value # v
      BY <2>2 DEF LiveAt, UsedFrom
    <2>4. di < j
      <3>1. UseAt(c, v, b, j)
        BY <2>3 DEF UseAt
      <3>. QED  BY <1>1, <3>1, UseDominated DEF Behind
    <2>. QED  BY <1>1, <2>1, <2>3, <2>4
  <1>2. CASE UsedFrom(c, v, b, i)
    <2>1. PICK j \in DOMAIN c[b] : i <= j /\ v \in c[b][j].operands
      BY <1>2 DEF UsedFrom
    <2>2. UseAt(c, v, b, j)
      BY <2>1 DEF UseAt
    <2>. QED  BY <1>0, <1>1, <2>1, <2>2
  <1>3. CASE f.successors[b] \cap LiveIn(f, c, v) # {}
    <2>1. PICK s \in f.successors[b] : s \in LiveIn(f, c, v)
      BY <1>3
    <2>2. s \in Blocks /\ s # 1
      BY <1>0, <2>1 DEF FunctionOK
    <2>3. s # db /\ ReachesUse(f, c, v, db, s)
      BY <2>1, <2>2, LiveOnlyOnWays
    <2>4. PICK ub, uj : UseAt(c, v, ub, uj) /\ ub # db /\ (ub = s \/ ub \in Reachable(f, s, db))
      BY <2>3 DEF ReachesUse
    <2>5. ub \in Blocks /\ Dominates(f, db, ub)
      BY <2>4, UseDominated DEF Behind
    <2>6. ub \in Reachable(f, b, db)
      BY <1>0, <2>1, <2>2, <2>3, <2>4, <2>5, ReachableStep
    <2>7. b # db => b \in PathPoints(f, db, ub)
      <3>1. b # db => b \in Reachable(f, db, db)
        BY <1>0, <2>4, <2>5, <2>6, BehindDominator
      <3>. QED  BY <2>6, <3>1 DEF PathPoints
    <2>. QED  BY <1>0, <1>1, <2>4, <2>7
  <1>. QED  BY <1>2, <1>3 DEF LiveAt

(* A phi_mov is live from where it is made to the end of the block, and up *)
(* to the phi.                                                             *)
LEMMA LiveInMov ==
  ASSUME NEW f, NEW c, Final(f, c), NEW p \in PhisOf(f), NEW k, MovsPlaced(f, c, p, k)
  PROVE  /\ LiveIn(f, c, Mov(p)) = {f.block[p]}
         /\ \A b \in Blocks : \A i \in Int : UsedFrom(c, Mov(p), b, i) <=> b = f.block[p] /\ i <= k
  <1>. DEFINE B == f.block[p]
              m == Mov(p)
              L == LiveIn(f, c, m)
  <1>0. /\ B \in Blocks /\ k \in DOMAIN c[B] /\ m # None /\ DOMAIN c[B] = 1 .. Len(c[B]) /\ Len(c[B]) \in Nat
        /\ \A b \in Blocks : DOMAIN c[b] \subseteq Int /\ \A i \in DOMAIN c[b] : 1 <= i
    <2>1. B \in Blocks /\ p \in Int /\ p > 0
      BY PhiFacts, ConstantsAssumption DEF Final
    <2>. QED  BY <2>1, FinalBlock DEF MovsPlaced, Mov, None
  <1>1. \A b, j : UseAt(c, m, b, j) <=> b = B /\ j = k
    BY DEF MovsPlaced
  <1>2. \A i \in DOMAIN c[B] : c[B][i].value = m => k < i
    <2>1. \A i \in DOMAIN c[B] : c[B][i].value = m => DefAt(c, m, B, i)
      BY <1>0 DEF DefAt
    <2>. QED  BY <2>1 DEF MovsPlaced
  <1>. HIDE DEF m
  <1>3. ASSUME NEW b \in Blocks, NEW i \in Int  PROVE UsedFrom(c, m, b, i) <=> b = B /\ i <= k
    <2>1. ASSUME UsedFrom(c, m, b, i)  PROVE b = B /\ i <= k
      <3>1. PICK j \in DOMAIN c[b] : i <= j /\ m \in c[b][j].operands
        BY <2>1 DEF UsedFrom
      <3>2. UseAt(c, m, b, j)
        BY <3>1 DEF UseAt
      <3>. QED  BY <1>1, <3>1, <3>2
    <2>2. ASSUME b = B, i <= k  PROVE UsedFrom(c, m, b, i)
      <3>1. m \in c[B][k].operands
        BY <1>1 DEF UseAt
      <3>2. \A l \in DOMAIN c[B] : i <= l /\ l < k => c[B][l].value # m
        BY <1>0, <1>2
      <3>. QED  BY <1>0, <2>2, <3>1, <3>2 DEF UsedFrom
    <2>. QED  BY <2>1, <2>2
  <1>4. B \in L
    <2>1. UsedFrom(c, m, B, 1)
      BY <1>0, <1>3
    <2>. QED  BY <1>0, <2>1, LiveInSolves DEF LiveAt
  <1>5. ASSUME NEW b \in Blocks, LiveAt(f, c, {B}, m, b, 1)  PROVE b \in {B}
    <2>1. ASSUME PassedFrom(c, m, b, 1), f.successors[b] \cap {B} # {}  PROVE FALSE
      <3>1. b \in Preds(f, B)
        BY <2>1 DEF Preds
      <3>2. PICK i : DefAt(c, m, b, i)
        BY <3>1 DEF MovsPlaced, m
      <3>3. m \notin Params
        BY ConstantsAssumption DEF m, Mov, PhisOf
      <3>4. i \in DOMAIN c[b] /\ c[b][i].value = m
        BY <3>2, <3>3 DEF DefAt
      <3>. QED  BY <1>0, <2>1, <3>4 DEF PassedFrom
    <2>. QED  BY <1>3, <1>5, <2>1 DEF LiveAt
  <1>6. L \subseteq {B}
    <2>. DEFINE S == {B}
    <2>1. S \in SUBSET Blocks /\ \A b \in Blocks : LiveAt(f, c, S, m, b, 1) => b \in S
      BY <1>0, <1>5
    <2>. HIDE DEF S
    <2>2. LiveIn(f, c, m) \subseteq S
      BY <2>1, LiveInLeast
    <2>. QED  BY <2>2 DEF S
  <1>. QED  BY <1>3, <1>4, <1>6 DEF m

LEMMA MovLive ==
  ASSUME NEW f, NEW c, Final(f, c), NEW p \in PhisOf(f), NEW k, MovsPlaced(f, c, p, k)
  PROVE  /\ \A i \in Int : i <= k => LiveAt(f, c, LiveIn(f, c, Mov(p)), Mov(p), f.block[p], i)
         /\ \A b, i : DefAt(c, Mov(p), b, i) =>
              \A j \in Int : i < j => LiveAt(f, c, LiveIn(f, c, Mov(p)), Mov(p), b, j)
  <1>. DEFINE B == f.block[p]
              m == Mov(p)
  <1>0. LiveIn(f, c, m) = {B} /\ B \in Blocks
    BY LiveInMov DEF MovsPlaced
  <1>1. ASSUME NEW i \in Int, i <= k  PROVE LiveAt(f, c, LiveIn(f, c, m), m, B, i)
    BY <1>0, <1>1, LiveInMov DEF LiveAt
  <1>2. ASSUME NEW b, NEW i, DefAt(c, m, b, i), NEW j \in Int, i < j
        PROVE  LiveAt(f, c, LiveIn(f, c, m), m, b, j)
    <2>1. b \in Preds(f, B) /\ b \in Blocks
      BY <1>2 DEF MovsPlaced, Preds
    <2>2. B \in f.successors[b]
      BY <2>1 DEF Preds
    <2>3. ASSUME NEW x \in DOMAIN c[b], j <= x, c[b][x].value = m  PROVE FALSE
      <3>1. m # None /\ x \in Int /\ i \in Int
        BY <1>2, <2>1, <2>3, DefRange, FinalBlock DEF None
      <3>2. DefAt(c, m, b, x)
        BY <2>1, <2>3, <3>1 DEF DefAt
      <3>3. x = i
        BY <1>2, <3>2 DEF MovsPlaced
      <3>. QED  BY <1>2, <2>3, <3>1, <3>3
    <2>4. PassedFrom(c, m, b, j)
      BY <2>3 DEF PassedFrom
    <2>. QED  BY <1>0, <2>2, <2>4 DEF LiveAt
  <1>. QED  BY <1>1, <1>2

LEMMA MovLiveOnly ==
  ASSUME NEW f, NEW c, Final(f, c), NEW p \in PhisOf(f), NEW k, MovsPlaced(f, c, p, k),
         NEW b \in Blocks, NEW i \in Int, i > 0, LiveAt(f, c, LiveIn(f, c, Mov(p)), Mov(p), b, i)
  PROVE  \/ b = f.block[p] /\ i <= k
         \/ \E j \in Int : DefAt(c, Mov(p), b, j) /\ j < i
  <1>1. CASE UsedFrom(c, Mov(p), b, i)
    BY <1>1, LiveInMov
  <1>2. CASE PassedFrom(c, Mov(p), b, i) /\ f.successors[b] \cap LiveIn(f, c, Mov(p)) # {}
    <2>1. b \in Preds(f, f.block[p])
      BY <1>2, LiveInMov DEF Preds
    <2>2. PICK j : DefAt(c, Mov(p), b, j)
      BY <2>1 DEF MovsPlaced
    <2>3. Mov(p) \notin Params
      BY ConstantsAssumption DEF Mov, PhisOf
    <2>4. j \in DOMAIN c[b] /\ c[b][j].value = Mov(p) /\ j \in Int
      BY <2>2, <2>3, FinalBlock DEF DefAt
    <2>5. j < i
      BY <1>2, <2>4 DEF PassedFrom
    <2>. QED  BY <2>2, <2>4, <2>5
  <1>. QED  BY <1>1, <1>2 DEF LiveAt

-----------------------------------------------------------------------------
(* Marks: A per instruction (alive), W per block (blockAlive).             *)
NodesOf(c) == Params \cup UNION {MadeIn(c, b) : b \in Blocks}

UpTo(A, v, b, first, last) == \A j \in first .. last : v \in A[b][j]

MarksTyped(c, A, W) ==
  /\ A = [b \in Blocks |-> A[b]] /\ \A b \in Blocks : A[b] = [i \in DOMAIN c[b] |-> A[b][i]]
  /\ W = [b \in Blocks |-> W[b]]

(* Nothing is marked where it is not live.                                 *)
SoundMarks(f, c, A, W) ==
  /\ \A b \in Blocks : \A i \in DOMAIN c[b] : \A v \in A[b][i] :
       v \in NodesOf(c) /\ LiveAt(f, c, LiveIn(f, c, v), v, b, i)
  /\ \A b \in Blocks : \A v \in W[b] :
       /\ v \in NodesOf(c) /\ v \in Variables /\ f.block[v] # b
       /\ \A i \in DOMAIN c[b] : LiveAt(f, c, LiveIn(f, c, v), v, b, i)

(* The way of v from the place it is made to block b is marked.            *)
WayMarked(f, c, A, W, v, db, di, b) ==
  UpTo(A, v, db, di + 1, Len(c[db])) /\ \A x \in PathPoints(f, db, b) : v \in W[x]

(* Where a value is marked, so is the way to there: SkipUser may skip.     *)
KeptValue(f, c, A, W, v, db, di) ==
  /\ \A i \in DOMAIN c[db] : v \in A[db][i] => UpTo(A, v, db, di + 1, i)
  /\ \A b \in Blocks : b # db =>
       /\ \A i \in DOMAIN c[b] : v \in A[b][i] => UpTo(A, v, b, 1, i) /\ WayMarked(f, c, A, W, v, db, di, b)
       /\ v \in W[b] => WayMarked(f, c, A, W, v, db, di, b)

KeptMov(f, A, p, k) ==
  Mov(p) \in A[f.block[p]][k] => UpTo(A, Mov(p), f.block[p], 1, k)

Marking(f, c, A, W) ==
  /\ MarksTyped(c, A, W)
  /\ SoundMarks(f, c, A, W)
  /\ \A v \in Variables : \A db, di : DefAt(c, v, db, di) => KeptValue(f, c, A, W, v, db, di)
  /\ \A p \in PhisOf(f) : \A k : MovsPlaced(f, c, p, k) => KeptMov(f, A, p, k)

(* A value is marked up to the use of it in block ub at uj.                *)
CoveredUse(f, c, A, W, v, db, di, ub, uj) ==
  IF ub = db THEN UpTo(A, v, db, di + 1, uj)
  ELSE (v \in W[ub] \/ UpTo(A, v, ub, 1, uj)) /\ WayMarked(f, c, A, W, v, db, di, ub)

CoveredMov(f, c, A, p, b, i, k) ==
  UpTo(A, Mov(p), b, i + 1, Len(c[b])) /\ UpTo(A, Mov(p), f.block[p], 1, k)

Grows(c, A, W, A2, W2) ==
  /\ \A b \in Blocks : W[b] \subseteq W2[b]
  /\ \A b \in Blocks : \A i \in DOMAIN c[b] : A[b][i] \subseteq A2[b][i]

(* v, and no other, is marked also at the places X and in the blocks Y.    *)
Added(c, A, W, A2, W2, v, X, Y) ==
  /\ MarksTyped(c, A2, W2)
  /\ \A b \in Blocks : \A i \in DOMAIN c[b] : \A w : w \in A2[b][i] <=> w \in A[b][i] \/ (w = v /\ <<b, i>> \in X)
  /\ \A b \in Blocks : \A w : w \in W2[b] <=> w \in W[b] \/ (w = v /\ b \in Y)

(* The instructions of b from the first to the last.                       *)
Span(b, first, last) == {<<b, i>> : i \in first .. last}

LEMMA MarkedAdds ==
  ASSUME NEW c, NEW A, NEW W, MarksTyped(c, A, W), NEW v, NEW b \in Blocks, NEW first, NEW last
  PROVE  Added(c, A, W, Marked(A, v, b, first, last), W, v, Span(b, first, last), {})
  <1>. DEFINE A2 == Marked(A, v, b, first, last)
              X == Span(b, first, last)
  <1>1. A2 = [A EXCEPT ![b] = [i \in DOMAIN A[b] |-> A[b][i] \cup (IF i \in first .. last THEN {v} ELSE {})]]
    BY DEF Marked
  <1>2. A = [x \in Blocks |-> A[x]] /\ \A x \in Blocks : A[x] = [i \in DOMAIN c[x] |-> A[x][i]]
    BY DEF MarksTyped
  <1>3. DOMAIN A = Blocks /\ DOMAIN A[b] = DOMAIN c[b]
    BY <1>2
  <1>4. A2[b] = [i \in DOMAIN c[b] |-> A[b][i] \cup (IF i \in first .. last THEN {v} ELSE {})]
    BY <1>1, <1>3
  <1>5. \A x \in Blocks : x # b => A2[x] = A[x]
    BY <1>1, <1>3
  <1>6. A2 = [x \in Blocks |-> A2[x]]
    BY <1>1, <1>3
  <1>. HIDE DEF A2
  <1>7. ASSUME NEW x \in Blocks
        PROVE  /\ A2[x] = [i \in DOMAIN c[x] |-> A2[x][i]]
               /\ \A i \in DOMAIN c[x] : \A w : w \in A2[x][i] <=> w \in A[x][i] \/ (w = v /\ <<x, i>> \in X)
    <2>1. \A i : <<x, i>> \in X <=> x = b /\ i \in first .. last
      BY DEF Span
    <2>. HIDE DEF X
    <2>2. CASE x = b
      BY <1>4, <2>1, <2>2
    <2>3. CASE x # b
      BY <1>2, <1>5, <2>1, <2>3
    <2>. QED  BY <2>2, <2>3
  <1>8. MarksTyped(c, A2, W)
    BY <1>6, <1>7 DEF MarksTyped
  <1>. QED  BY <1>7, <1>8 DEF Added, A2

LEMMA AddedGrows ==
  ASSUME NEW c, NEW A, NEW W, NEW A2, NEW W2, NEW v, NEW X, NEW Y, Added(c, A, W, A2, W2, v, X, Y)
  PROVE  /\ Grows(c, A, W, A2, W2)
         /\ \A w : w # v => \A b \in Blocks : /\ w \in W2[b] <=> w \in W[b]
                                              /\ \A i \in DOMAIN c[b] : w \in A2[b][i] <=> w \in A[b][i]
  <1>1. Grows(c, A, W, A2, W2)
    BY DEF Added, Grows
  <1>2. \A w : w # v => \A b \in Blocks : /\ w \in W2[b] <=> w \in W[b]
                                          /\ \A i \in DOMAIN c[b] : w \in A2[b][i] <=> w \in A[b][i]
    <2>. SUFFICES ASSUME NEW w, w # v, NEW b \in Blocks
                  PROVE  /\ w \in W2[b] <=> w \in W[b]
                         /\ \A i \in DOMAIN c[b] : w \in A2[b][i] <=> w \in A[b][i]
      OBVIOUS
    <2>1. w \in W2[b] <=> w \in W[b]
      BY DEF Added
    <2>2. ASSUME NEW i \in DOMAIN c[b]  PROVE w \in A2[b][i] <=> w \in A[b][i]
      <3>1. w \in A2[b][i] <=> w \in A[b][i] \/ (w = v /\ <<b, i>> \in X)
        BY DEF Added
      <3>. QED  BY <3>1
    <2>. QED  BY <2>1, <2>2
  <1>. QED  BY <1>1, <1>2

LEMMA AddedTwice ==
  ASSUME NEW c, NEW A, NEW W, NEW A2, NEW W2, NEW A3, NEW W3, NEW v, NEW X, NEW Y, NEW X2, NEW Y2,
         Added(c, A, W, A2, W2, v, X, Y), Added(c, A2, W2, A3, W3, v, X2, Y2)
  PROVE  Added(c, A, W, A3, W3, v, X \cup X2, Y \cup Y2)
  <1>1. \A b \in Blocks : \A i \in DOMAIN c[b] :
          \A w : w \in A3[b][i] <=> w \in A[b][i] \/ (w = v /\ <<b, i>> \in X \cup X2)
    <2>. SUFFICES ASSUME NEW b \in Blocks, NEW i \in DOMAIN c[b], NEW w
                  PROVE  w \in A3[b][i] <=> w \in A[b][i] \/ (w = v /\ <<b, i>> \in X \cup X2)
      OBVIOUS
    <2>1. w \in A3[b][i] <=> w \in A2[b][i] \/ (w = v /\ <<b, i>> \in X2)
      BY DEF Added
    <2>2. w \in A2[b][i] <=> w \in A[b][i] \/ (w = v /\ <<b, i>> \in X)
      BY DEF Added
    <2>. QED  BY <2>1, <2>2
  <1>2. \A b \in Blocks : \A w : w \in W3[b] <=> w \in W[b] \/ (w = v /\ b \in Y \cup Y2)
    BY DEF Added
  <1>. QED  BY <1>1, <1>2 DEF Added

-----------------------------------------------------------------------------
(* Marks of other values, and more marks, change nothing that is covered.  *)
LEMMA PlaceInRange ==
  ASSUME NEW f, NEW c, Final(f, c), NEW b \in Blocks, NEW first \in Nat, first > 0,
         NEW last \in Int, last <= Len(c[b]), NEW j \in first .. last
  PROVE  j \in DOMAIN c[b] /\ j \in Int
  BY FinalBlock

LEMMA UpToGrows ==
  ASSUME NEW f, NEW c, Final(f, c), NEW A, NEW W, NEW A2, NEW W2, Grows(c, A, W, A2, W2), NEW v, NEW b \in Blocks,
         NEW first \in Nat, first > 0, NEW last \in Int, last <= Len(c[b]), UpTo(A, v, b, first, last)
  PROVE  UpTo(A2, v, b, first, last)
  BY PlaceInRange DEF Grows, UpTo

LEMMA WayGrows ==
  ASSUME NEW f, NEW c, Final(f, c), NEW A, NEW W, NEW A2, NEW W2, Grows(c, A, W, A2, W2),
         NEW v, NEW db, NEW di, DefAt(c, v, db, di), NEW b, WayMarked(f, c, A, W, v, db, di, b)
  PROVE  WayMarked(f, c, A2, W2, v, db, di, b)
  <1>1. db \in Blocks /\ di + 1 \in Nat /\ di + 1 > 0 /\ Len(c[db]) \in Int /\ FunctionOK(f)
    BY DefRange, FinalBlock DEF Final
  <1>2. UpTo(A2, v, db, di + 1, Len(c[db]))
    BY <1>1, UpToGrows DEF WayMarked
  <1>3. PathPoints(f, db, b) \subseteq Blocks
    BY <1>1, ReachableClosed DEF PathPoints
  <1>. QED  BY <1>2, <1>3 DEF WayMarked, Grows

LEMMA CoveredUseGrows ==
  ASSUME NEW f, NEW c, Final(f, c), NEW A, NEW W, NEW A2, NEW W2, Grows(c, A, W, A2, W2),
         NEW v \in Variables, NEW db, NEW di, DefAt(c, v, db, di), NEW ub, NEW uj, UseAt(c, v, ub, uj),
         CoveredUse(f, c, A, W, v, db, di, ub, uj)
  PROVE  CoveredUse(f, c, A2, W2, v, db, di, ub, uj)
  <1>1. /\ ub \in Blocks /\ uj \in Int /\ uj <= Len(c[ub]) /\ 1 \in Nat
        /\ di + 1 \in Nat /\ di + 1 > 0
    BY DefRange, FinalBlock DEF UseAt
  <1>2. CASE ub = db
    BY <1>1, <1>2, UpToGrows DEF CoveredUse
  <1>3. CASE ub # db
    <2>1. WayMarked(f, c, A2, W2, v, db, di, ub)
      BY <1>3, WayGrows DEF CoveredUse
    <2>2. UpTo(A, v, ub, 1, uj) => UpTo(A2, v, ub, 1, uj)
      BY <1>1, UpToGrows
    <2>. QED  BY <1>1, <1>3, <2>1, <2>2 DEF CoveredUse, Grows
  <1>. QED  BY <1>2, <1>3

LEMMA CoveredMovGrows ==
  ASSUME NEW f, NEW c, Final(f, c), NEW A, NEW W, NEW A2, NEW W2, Grows(c, A, W, A2, W2),
         NEW p \in PhisOf(f), NEW k, MovsPlaced(f, c, p, k), NEW b, NEW i, DefAt(c, Mov(p), b, i),
         CoveredMov(f, c, A, p, b, i, k)
  PROVE  CoveredMov(f, c, A2, p, b, i, k)
  <1>1. /\ b \in Blocks /\ i + 1 \in Nat /\ i + 1 > 0 /\ Len(c[b]) \in Int
        /\ f.block[p] \in Blocks /\ k \in Int /\ k <= Len(c[f.block[p]])
    <2>1. f.block[p] \in Blocks /\ k \in DOMAIN c[f.block[p]]
      BY DEF MovsPlaced
    <2>. QED  BY <2>1, DefRange, FinalBlock
  <1>2. UpTo(A2, Mov(p), b, i + 1, Len(c[b]))
    BY <1>1, UpToGrows DEF CoveredMov
  <1>3. UpTo(A2, Mov(p), f.block[p], 1, k)
    BY <1>1, UpToGrows DEF CoveredMov
  <1>. QED  BY <1>2, <1>3 DEF CoveredMov

LEMMA KeptOthers ==
  ASSUME NEW f, NEW c, Final(f, c), NEW A, NEW W, NEW A2, NEW W2, NEW v, NEW X, NEW Y,
         Added(c, A, W, A2, W2, v, X, Y),
         NEW w \in Variables, w # v, NEW db, NEW di, DefAt(c, w, db, di), KeptValue(f, c, A, W, w, db, di)
  PROVE  KeptValue(f, c, A2, W2, w, db, di)
  <1>1. /\ Grows(c, A, W, A2, W2)
        /\ \A b \in Blocks : /\ w \in W2[b] <=> w \in W[b]
                             /\ \A i \in DOMAIN c[b] : w \in A2[b][i] <=> w \in A[b][i]
    BY AddedGrows
  <1>2. db \in Blocks /\ di + 1 \in Nat /\ di + 1 > 0 /\ 1 \in Nat /\ 1 > 0
    BY DefRange
  <1>3. ASSUME NEW i \in DOMAIN c[db], w \in A2[db][i]  PROVE UpTo(A2, w, db, di + 1, i)
    <2>1. i \in Int /\ i <= Len(c[db])
      BY <1>2, FinalBlock
    <2>2. UpTo(A, w, db, di + 1, i)
      BY <1>1, <1>2, <1>3 DEF KeptValue
    <2>. QED  BY <1>1, <1>2, <2>1, <2>2, UpToGrows
  <1>4. ASSUME NEW b \in Blocks, b # db, NEW i \in DOMAIN c[b], w \in A2[b][i]
        PROVE  UpTo(A2, w, b, 1, i) /\ WayMarked(f, c, A2, W2, w, db, di, b)
    <2>1. i \in Int /\ i <= Len(c[b])
      BY FinalBlock
    <2>2. UpTo(A, w, b, 1, i) /\ WayMarked(f, c, A, W, w, db, di, b)
      BY <1>1, <1>4 DEF KeptValue
    <2>3. UpTo(A2, w, b, 1, i)
      BY <1>1, <1>2, <2>1, <2>2, UpToGrows
    <2>. QED  BY <1>1, <2>2, <2>3, WayGrows
  <1>5. ASSUME NEW b \in Blocks, b # db, w \in W2[b]  PROVE WayMarked(f, c, A2, W2, w, db, di, b)
    <2>1. WayMarked(f, c, A, W, w, db, di, b)
      BY <1>1, <1>5 DEF KeptValue
    <2>. QED  BY <1>1, <2>1, WayGrows
  <1>. QED  BY <1>3, <1>4, <1>5 DEF KeptValue

LEMMA KeptMovOthers ==
  ASSUME NEW f, NEW c, Final(f, c), NEW A, NEW W, NEW A2, NEW W2, NEW v, NEW X, NEW Y,
         Added(c, A, W, A2, W2, v, X, Y),
         NEW p \in PhisOf(f), Mov(p) # v, NEW k, MovsPlaced(f, c, p, k), KeptMov(f, A, p, k)
  PROVE  KeptMov(f, A2, p, k)
  <1>1. f.block[p] \in Blocks /\ k \in DOMAIN c[f.block[p]]
    BY DEF MovsPlaced
  <1>2. k \in Int /\ k <= Len(c[f.block[p]])
    BY <1>1, FinalBlock
  <1>3. Grows(c, A, W, A2, W2) /\ (Mov(p) \in A2[f.block[p]][k] <=> Mov(p) \in A[f.block[p]][k])
    BY <1>1, AddedGrows
  <1>4. UpTo(A, Mov(p), f.block[p], 1, k) => UpTo(A2, Mov(p), f.block[p], 1, k)
    BY <1>1, <1>2, <1>3, UpToGrows
  <1>. QED  BY <1>3, <1>4 DEF KeptMov

LEMMA MarkingAdded ==
  ASSUME NEW f, NEW c, Final(f, c), NEW A, NEW W, NEW A2, NEW W2, NEW v, NEW X, NEW Y,
         Added(c, A, W, A2, W2, v, X, Y), Marking(f, c, A, W), v \in NodesOf(c),
         \A b \in Blocks : \A i \in DOMAIN c[b] : <<b, i>> \in X => LiveAt(f, c, LiveIn(f, c, v), v, b, i),
         \A b \in Blocks \cap Y : /\ v \in Variables /\ f.block[v] # b
                                  /\ \A i \in DOMAIN c[b] : LiveAt(f, c, LiveIn(f, c, v), v, b, i),
         v \in Variables => \A db, di : DefAt(c, v, db, di) => KeptValue(f, c, A2, W2, v, db, di),
         \A p \in PhisOf(f) : v = Mov(p) => \A k : MovsPlaced(f, c, p, k) => KeptMov(f, A2, p, k)
  PROVE  Marking(f, c, A2, W2)
  <1>1. MarksTyped(c, A2, W2)
    BY DEF Added
  <1>2. SoundMarks(f, c, A2, W2)
    <2>1. ASSUME NEW b \in Blocks, NEW i \in DOMAIN c[b], NEW w \in A2[b][i]
          PROVE  w \in NodesOf(c) /\ LiveAt(f, c, LiveIn(f, c, w), w, b, i)
      <3>1. w \in A[b][i] \/ (w = v /\ <<b, i>> \in X)
        BY <2>1 DEF Added
      <3>2. CASE w \in A[b][i]
        BY <3>2 DEF Marking, SoundMarks
      <3>3. CASE w = v /\ <<b, i>> \in X
        BY <3>3
      <3>. QED  BY <3>1, <3>2, <3>3
    <2>2. ASSUME NEW b \in Blocks, NEW w \in W2[b]
          PROVE  /\ w \in NodesOf(c) /\ w \in Variables /\ f.block[w] # b
                 /\ \A i \in DOMAIN c[b] : LiveAt(f, c, LiveIn(f, c, w), w, b, i)
      <3>1. w \in W[b] \/ (w = v /\ b \in Y)
        BY <2>2 DEF Added
      <3>2. CASE w \in W[b]
        BY <3>2 DEF Marking, SoundMarks
      <3>3. CASE w = v /\ b \in Y
        BY <3>3
      <3>. QED  BY <3>1, <3>2, <3>3
    <2>. QED  BY <2>1, <2>2 DEF SoundMarks
  <1>3. ASSUME NEW w \in Variables, NEW db, NEW di, DefAt(c, w, db, di)
        PROVE  KeptValue(f, c, A2, W2, w, db, di)
    <2>1. CASE w = v
      BY <1>3, <2>1
    <2>2. CASE w # v
      <3>1. KeptValue(f, c, A, W, w, db, di)
        BY <1>3 DEF Marking
      <3>. QED  BY <1>3, <2>2, <3>1, KeptOthers
    <2>. QED  BY <2>1, <2>2
  <1>4. ASSUME NEW p \in PhisOf(f), NEW k, MovsPlaced(f, c, p, k)
        PROVE  KeptMov(f, A2, p, k)
    <2>1. CASE v = Mov(p)
      BY <1>4, <2>1
    <2>2. CASE v # Mov(p)
      <3>1. KeptMov(f, A, p, k)
        BY <1>4 DEF Marking
      <3>. QED  BY <1>4, <2>2, <3>1, KeptMovOthers
    <2>. QED  BY <2>1, <2>2
  <1>. QED  BY <1>1, <1>2, <1>3, <1>4 DEF Marking

LEMMA DefIsNode ==
  ASSUME NEW c, NEW v, NEW b, NEW i, DefAt(c, v, b, i)
  PROVE  v \in NodesOf(c)
  BY DEF DefAt, NodesOf, MadeIn

-----------------------------------------------------------------------------
(* The steps that mark: SkipUser, MarkInBlock, MarkAcrossBlocks and        *)
(* VisitPhiMov.                                                            *)
LEMMA SkipCovers ==
  ASSUME NEW f, NEW c, Final(f, c), NEW A, NEW W, Marking(f, c, A, W),
         NEW v \in Variables, NEW db, NEW di, DefAt(c, v, db, di), NEW ub, NEW uj, UseAt(c, v, ub, uj),
         v \in W[ub] \/ v \in A[ub][uj]
  PROVE  CoveredUse(f, c, A, W, v, db, di, ub, uj)
  <1>1. ub \in Blocks /\ uj \in DOMAIN c[ub] /\ KeptValue(f, c, A, W, v, db, di)
    BY DEF UseAt, Marking
  <1>2. f.block[v] = db
    BY DefRange, ConstantsAssumption DEF Variables
  <1>3. CASE ub = db
    <2>1. v \in A[ub][uj]
      BY <1>1, <1>2, <1>3 DEF Marking, SoundMarks
    <2>. QED  BY <1>1, <1>3, <2>1 DEF CoveredUse, KeptValue
  <1>4. CASE ub # db
    BY <1>1, <1>4 DEF CoveredUse, KeptValue
  <1>. QED  BY <1>3, <1>4

LEMMA InBlockCovers ==
  ASSUME NEW f, NEW c, Final(f, c), NEW A, NEW W, Marking(f, c, A, W),
         NEW v \in Variables, NEW db, NEW di, DefAt(c, v, db, di), NEW uj, UseAt(c, v, db, uj)
  PROVE  LET A2 == Marked(A, v, db, di + 1, uj) IN
           /\ Marking(f, c, A2, W) /\ Grows(c, A, W, A2, W)
           /\ CoveredUse(f, c, A2, W, v, db, di, db, uj)
  <1>. DEFINE A2 == Marked(A, v, db, di + 1, uj)
              X == Span(db, di + 1, uj)
  <1>0. /\ db \in Blocks /\ di \in Nat /\ uj \in DOMAIN c[db] /\ uj \in Int /\ uj <= Len(c[db])
        /\ DOMAIN c[db] \subseteq Int /\ MarksTyped(c, A, W)
    BY DefRange, FinalBlock DEF UseAt, Marking
  <1>1. Added(c, A, W, A2, W, v, X, {})
    <2>1. db \in Blocks /\ MarksTyped(c, A, W)
      BY <1>0
    <2>. QED  BY <2>1, MarkedAdds
  <1>2. \A b, i : <<b, i>> \in X <=> b = db /\ i \in di + 1 .. uj
    BY DEF Span
  <1>. HIDE DEF A2, X
  <1>3. Grows(c, A, W, A2, W)
    BY <1>1, AddedGrows
  <1>4. \A i \in di + 1 .. uj : i \in DOMAIN c[db] /\ v \in A2[db][i]
    <2>1. \A i \in di + 1 .. uj : i \in DOMAIN c[db]
      BY <1>0, PlaceInRange
    <2>2. \A i \in di + 1 .. uj : v \in A2[db][i]
      BY <1>0, <1>1, <1>2, <2>1 DEF Added
    <2>. QED  BY <2>1, <2>2
  <1>5. \A b \in Blocks : \A i \in DOMAIN c[b] : <<b, i>> \in X => LiveAt(f, c, LiveIn(f, c, v), v, b, i)
    <2>. SUFFICES ASSUME NEW i \in DOMAIN c[db], i \in di + 1 .. uj
                  PROVE  LiveAt(f, c, LiveIn(f, c, v), v, db, i)
      BY <1>0, <1>2
    <2>1. i \in Int /\ i <= uj /\ i > di
      BY <1>0
    <2>. QED  BY <2>1, LiveUpToUse
  <1>6. KeptValue(f, c, A2, W, v, db, di)
    <2>0. KeptValue(f, c, A, W, v, db, di)
      BY DEF Marking
    <2>1. ASSUME NEW i \in DOMAIN c[db], v \in A2[db][i]  PROVE UpTo(A2, v, db, di + 1, i)
      <3>1. i \in Int /\ i <= Len(c[db]) /\ di + 1 \in Nat /\ di + 1 > 0
        BY <1>0, FinalBlock
      <3>2. CASE v \in A[db][i]
        <4>1. UpTo(A, v, db, di + 1, i)
          BY <2>0, <3>2 DEF KeptValue
        <4>. QED  BY <1>0, <1>3, <3>1, <4>1, UpToGrows
      <3>3. CASE i \in di + 1 .. uj
        BY <1>0, <1>4, <3>1, <3>3 DEF UpTo
      <3>. QED  BY <1>0, <1>1, <1>2, <2>1, <3>2, <3>3 DEF Added
    <2>2. ASSUME NEW b \in Blocks, b # db, NEW i \in DOMAIN c[b], v \in A2[b][i]
          PROVE  UpTo(A2, v, b, 1, i) /\ WayMarked(f, c, A2, W, v, db, di, b)
      <3>1. i \in Int /\ i <= Len(c[b]) /\ 1 \in Nat /\ 1 > 0
        BY FinalBlock
      <3>2. v \in A[b][i]
        BY <1>1, <1>2, <2>2 DEF Added
      <3>3. UpTo(A, v, b, 1, i) /\ WayMarked(f, c, A, W, v, db, di, b)
        BY <2>0, <2>2, <3>2 DEF KeptValue
      <3>4. UpTo(A2, v, b, 1, i)
        BY <1>3, <3>1, <3>3, UpToGrows
      <3>. QED  BY <1>3, <3>3, <3>4, WayGrows
    <2>3. ASSUME NEW b \in Blocks, b # db, v \in W[b]  PROVE WayMarked(f, c, A2, W, v, db, di, b)
      <3>1. WayMarked(f, c, A, W, v, db, di, b)
        BY <2>0, <2>3 DEF KeptValue
      <3>. QED  BY <1>3, <3>1, WayGrows
    <2>. QED  BY <2>1, <2>2, <2>3 DEF KeptValue
  <1>7. \A p \in PhisOf(f) : v # Mov(p)
    BY ConstantsAssumption DEF Mov, PhisOf, Variables
  <1>8. \A eb, ei : DefAt(c, v, eb, ei) => KeptValue(f, c, A2, W, v, eb, ei)
    BY <1>6, MadeOnce
  <1>9. Marking(f, c, A2, W)
    <2>1. v \in NodesOf(c)
      BY DefIsNode
    <2>. QED  BY <1>1, <1>5, <1>7, <1>8, <2>1, MarkingAdded
  <1>10. CoveredUse(f, c, A2, W, v, db, di, db, uj)
    BY <1>4 DEF CoveredUse, UpTo
  <1>. QED  BY <1>3, <1>9, <1>10 DEF A2

LEMMA BlocksAdded ==
  ASSUME NEW c, NEW A, NEW W, NEW A2, NEW W2, NEW v, NEW X, NEW Y, Added(c, A, W, A2, W, v, X, {}),
         W2 = [b \in Blocks |-> W[b] \cup (IF b \in Y THEN {v} ELSE {})]
  PROVE  Added(c, A, W, A2, W2, v, X, Y)
  <1>1. \A b \in Blocks : \A w : w \in W2[b] <=> w \in W[b] \/ (w = v /\ b \in Y)
    <2>. SUFFICES ASSUME NEW b \in Blocks, NEW w  PROVE w \in W2[b] <=> w \in W[b] \/ (w = v /\ b \in Y)
      OBVIOUS
    <2>1. CASE b \in Y
      BY <2>1
    <2>2. CASE b \notin Y
      BY <2>2
    <2>. QED  BY <2>1, <2>2
  <1>2. MarksTyped(c, A2, W2)
    BY DEF Added, MarksTyped
  <1>3. \A b \in Blocks : \A i \in DOMAIN c[b] : \A w : w \in A2[b][i] <=> w \in A[b][i] \/ (w = v /\ <<b, i>> \in X)
    BY DEF Added
  <1>. QED  BY <1>1, <1>2, <1>3 DEF Added

LEMMA AcrossCovers ==
  ASSUME NEW f, NEW c, Final(f, c), NEW A, NEW W, Marking(f, c, A, W),
         NEW v \in Variables, NEW db, NEW di, DefAt(c, v, db, di), NEW ub, NEW uj, UseAt(c, v, ub, uj), ub # db,
         NEW W2, W2 = [b \in Blocks |-> W[b] \cup (IF b \in PathPoints(f, db, ub) THEN {v} ELSE {})]
  PROVE  LET A2 == Marked(Marked(A, v, db, di + 1, Len(c[db])), v, ub, 1, uj) IN
           /\ Marking(f, c, A2, W2) /\ Grows(c, A, W, A2, W2)
           /\ CoveredUse(f, c, A2, W2, v, db, di, ub, uj)
  <1>. DEFINE A1 == Marked(A, v, db, di + 1, Len(c[db]))
              A2 == Marked(A1, v, ub, 1, uj)
              X == Span(db, di + 1, Len(c[db])) \cup Span(ub, 1, uj)
              Y == PathPoints(f, db, ub)
  <1>0. /\ db \in Blocks /\ di \in Nat /\ di + 1 \in Nat /\ di + 1 > 0 /\ Len(c[db]) \in Int
        /\ ub \in Blocks /\ uj \in DOMAIN c[ub] /\ uj \in Int /\ uj <= Len(c[ub])
        /\ DOMAIN c[db] \subseteq Int /\ MarksTyped(c, A, W) /\ FunctionOK(f)
    BY DefRange, FinalBlock DEF UseAt, Marking, Final
  <1>1. Added(c, A, W, A2, W2, v, X, Y)
    <2>1. db \in Blocks /\ ub \in Blocks /\ MarksTyped(c, A, W)
      BY <1>0
    <2>2. Added(c, A, W, A1, W, v, Span(db, di + 1, Len(c[db])), {})
      BY <2>1, MarkedAdds
    <2>. HIDE DEF A1
    <2>3. MarksTyped(c, A1, W)
      BY <2>2 DEF Added
    <2>4. Added(c, A1, W, A2, W, v, Span(ub, 1, uj), {})
      BY <2>1, <2>3, MarkedAdds
    <2>. HIDE DEF A2
    <2>5. Added(c, A, W, A2, W, v, X, {} \cup {})
      BY <2>2, <2>4, AddedTwice
    <2>6. {} \cup {} = {}
      OBVIOUS
    <2>. HIDE DEF X, Y
    <2>7. Added(c, A, W, A2, W, v, X, {})
      BY <2>5, <2>6
    <2>8. W2 = [b \in Blocks |-> W[b] \cup (IF b \in Y THEN {v} ELSE {})]
      BY DEF Y
    <2>. QED  BY <2>7, <2>8, BlocksAdded
  <1>2. \A b, i : <<b, i>> \in X <=> (b = db /\ i \in di + 1 .. Len(c[db])) \/ (b = ub /\ i \in 1 .. uj)
    BY DEF Span
  <1>. HIDE DEF A1, A2, X, Y
  <1>3. Grows(c, A, W, A2, W2)
    BY <1>1, AddedGrows
  <1>4. UpTo(A2, v, db, di + 1, Len(c[db])) /\ UpTo(A2, v, ub, 1, uj)
    <2>1. \A i \in di + 1 .. Len(c[db]) : i \in DOMAIN c[db]
      BY <1>0, PlaceInRange
    <2>2. \A i \in 1 .. uj : i \in DOMAIN c[ub]
      BY <1>0, PlaceInRange
    <2>3. \A i \in di + 1 .. Len(c[db]) : v \in A2[db][i]
      BY <1>0, <1>1, <1>2, <2>1 DEF Added
    <2>4. \A i \in 1 .. uj : v \in A2[ub][i]
      BY <1>0, <1>1, <1>2, <2>2 DEF Added
    <2>. QED  BY <2>3, <2>4 DEF UpTo
  <1>5. Y \subseteq Blocks /\ \A x \in Y : v \in W2[x] /\ x # db
    <2>1. Y \subseteq Blocks /\ \A x \in Y : x # db
      BY <1>0, ReachableClosed DEF PathPoints, Y
    <2>. QED  BY <1>1, <2>1 DEF Added
  <1>6. WayMarked(f, c, A2, W2, v, db, di, ub)
    BY <1>4, <1>5 DEF WayMarked, Y
  <1>7. \A b \in Blocks : \A i \in DOMAIN c[b] : <<b, i>> \in X => LiveAt(f, c, LiveIn(f, c, v), v, b, i)
    <2>. SUFFICES ASSUME NEW b \in Blocks, NEW i \in DOMAIN c[b], <<b, i>> \in X
                  PROVE  LiveAt(f, c, LiveIn(f, c, v), v, b, i)
      OBVIOUS
    <2>1. CASE b = db /\ i \in di + 1 .. Len(c[db])
      <3>1. i \in Int /\ i > di
        BY <1>0, <2>1
      <3>. QED  BY <2>1, <3>1, LiveOnTheWay
    <2>2. CASE b = ub /\ i \in 1 .. uj
      <3>1. i \in Int /\ i <= uj
        BY <1>0, <2>2
      <3>. QED  BY <2>2, <3>1, LiveUpToUse
    <2>. QED  BY <1>2, <2>1, <2>2
  <1>8. \A b \in Blocks \cap Y : /\ v \in Variables /\ f.block[v] # b
                                 /\ \A i \in DOMAIN c[b] : LiveAt(f, c, LiveIn(f, c, v), v, b, i)
    <2>. SUFFICES ASSUME NEW b \in Blocks, b \in Y
                  PROVE  f.block[v] # b /\ \A i \in DOMAIN c[b] : LiveAt(f, c, LiveIn(f, c, v), v, b, i)
      OBVIOUS
    <2>1. f.block[v] = db
      BY DefRange, ConstantsAssumption DEF Variables
    <2>2. \A i \in DOMAIN c[b] : i \in Int
      BY FinalBlock
    <2>3. b # db /\ b \in PathPoints(f, db, ub)
      BY <1>5 DEF Y
    <2>. QED  BY <2>1, <2>2, <2>3, LiveOnTheWay
  <1>9. KeptValue(f, c, A2, W2, v, db, di)
    <2>0. KeptValue(f, c, A, W, v, db, di)
      BY DEF Marking
    <2>1. ASSUME NEW i \in DOMAIN c[db], v \in A2[db][i]  PROVE UpTo(A2, v, db, di + 1, i)
      <3>1. i \in Int /\ i <= Len(c[db])
        BY <1>0, FinalBlock
      <3>. QED  BY <1>0, <1>4, <3>1 DEF UpTo
    <2>2. ASSUME NEW b \in Blocks, b # db, NEW i \in DOMAIN c[b], v \in A2[b][i]
          PROVE  UpTo(A2, v, b, 1, i) /\ WayMarked(f, c, A2, W2, v, db, di, b)
      <3>1. i \in Int /\ i <= Len(c[b]) /\ 1 \in Nat /\ 1 > 0
        BY FinalBlock
      <3>2. CASE v \in A[b][i]
        <4>1. UpTo(A, v, b, 1, i) /\ WayMarked(f, c, A, W, v, db, di, b)
          BY <2>0, <2>2, <3>2 DEF KeptValue
        <4>2. UpTo(A2, v, b, 1, i)
          BY <1>3, <3>1, <4>1, UpToGrows
        <4>. QED  BY <1>3, <4>1, <4>2, WayGrows
      <3>3. CASE b = ub /\ i \in 1 .. uj
        <4>1. UpTo(A2, v, b, 1, i)
          BY <1>0, <1>4, <3>1, <3>3 DEF UpTo
        <4>. QED  BY <1>6, <3>3, <4>1
      <3>. QED  BY <1>1, <1>2, <2>2, <3>2, <3>3 DEF Added
    <2>3. ASSUME NEW b \in Blocks, b # db, v \in W2[b]  PROVE WayMarked(f, c, A2, W2, v, db, di, b)
      <3>1. CASE v \in W[b]
        <4>1. WayMarked(f, c, A, W, v, db, di, b)
          BY <2>0, <2>3, <3>1 DEF KeptValue
        <4>. QED  BY <1>3, <4>1, WayGrows
      <3>2. CASE b \in Y
        <4>1. \A x \in PathPoints(f, db, b) : x \in Y
          BY <1>0, <3>2, BetweenPoints DEF Y
        <4>. QED  BY <1>4, <1>5, <4>1 DEF WayMarked
      <3>. QED  BY <1>1, <2>3, <3>1, <3>2 DEF Added
    <2>. QED  BY <2>1, <2>2, <2>3 DEF KeptValue
  <1>10. \A p \in PhisOf(f) : v # Mov(p)
    BY ConstantsAssumption DEF Mov, PhisOf, Variables
  <1>11. \A eb, ei : DefAt(c, v, eb, ei) => KeptValue(f, c, A2, W2, v, eb, ei)
    BY <1>9, MadeOnce
  <1>12. Marking(f, c, A2, W2)
    <2>1. v \in NodesOf(c)
      BY DefIsNode
    <2>. QED  BY <1>1, <1>7, <1>8, <1>10, <1>11, <2>1, MarkingAdded
  <1>13. CoveredUse(f, c, A2, W2, v, db, di, ub, uj)
    BY <1>4, <1>6 DEF CoveredUse
  <1>. QED  BY <1>3, <1>12, <1>13 DEF A1, A2

(* Both marks of VisitPhiMov: m to the end of its block and up to its phi. *)
LEMMA MovCovers ==
  ASSUME NEW f, NEW c, Final(f, c), NEW A, NEW W, Marking(f, c, A, W),
         NEW p \in PhisOf(f), NEW k, MovsPlaced(f, c, p, k), NEW b, NEW i, DefAt(c, Mov(p), b, i)
  PROVE  LET rest == Marked(A, Mov(p), b, i + 1, Len(c[b]))
             A2 == IF Mov(p) \in W[f.block[p]] \/ Mov(p) \in rest[f.block[p]][k]
                   THEN rest ELSE Marked(rest, Mov(p), f.block[p], 1, k)
         IN  /\ Marking(f, c, A2, W) /\ Grows(c, A, W, A2, W)
             /\ CoveredMov(f, c, A2, p, b, i, k)
  <1>. DEFINE B == f.block[p]
              m == Mov(p)
              rest == Marked(A, m, b, i + 1, Len(c[b]))
              A2 == IF m \in W[B] \/ m \in rest[B][k] THEN rest ELSE Marked(rest, m, B, 1, k)
              X == Span(b, i + 1, Len(c[b])) \cup Span(B, 1, k)
  <1>0. /\ b \in Blocks /\ i \in Nat /\ i + 1 \in Nat /\ i + 1 > 0 /\ Len(c[b]) \in Int
        /\ B \in Blocks /\ k \in DOMAIN c[B] /\ k \in Int /\ 1 <= k /\ k <= Len(c[B]) /\ MarksTyped(c, A, W)
        /\ \A x \in Blocks : DOMAIN c[x] \subseteq Int
    <2>1. B \in Blocks /\ k \in DOMAIN c[B]
      BY DEF MovsPlaced
    <2>. QED  BY <2>1, DefRange, FinalBlock DEF Marking
  <1>1. m \notin Variables /\ m \notin W[B]
    <2>1. m \notin Variables
      BY ConstantsAssumption DEF Mov, PhisOf, Variables
    <2>. QED  BY <1>0, <2>1 DEF Marking, SoundMarks
  <1>2. b = B => k < i
    BY DEF MovsPlaced
  <1>3. Added(c, A, W, rest, W, m, Span(b, i + 1, Len(c[b])), {})
    <2>1. b \in Blocks /\ MarksTyped(c, A, W)
      BY <1>0
    <2>. QED  BY <2>1, MarkedAdds
  <1>4. \A x, j : <<x, j>> \in X <=> (x = b /\ j \in i + 1 .. Len(c[b])) \/ (x = B /\ j \in 1 .. k)
    BY DEF Span
  <1>5. \A x, j : <<x, j>> \in Span(b, i + 1, Len(c[b])) <=> x = b /\ j \in i + 1 .. Len(c[b])
    BY DEF Span
  <1>6. Added(c, A, W, A2, W, m, X, {})
    <2>. HIDE DEF m, rest
    <2>1. CASE m \in rest[B][k]
      <3>1. m \in A[B][k]
        <4>1. <<B, k>> \notin Span(b, i + 1, Len(c[b]))
          BY <1>0, <1>2, <1>5
        <4>. QED  BY <1>0, <1>3, <2>1, <4>1 DEF Added
      <3>2. UpTo(A, m, B, 1, k)
        BY <3>1 DEF Marking, KeptMov, m
      <3>3. \A x \in Blocks : \A j \in DOMAIN c[x] :
              \A w : w \in rest[x][j] <=> w \in A[x][j] \/ (w = m /\ <<x, j>> \in X)
        <4>. SUFFICES ASSUME NEW x \in Blocks, NEW j \in DOMAIN c[x], NEW w
                      PROVE  w \in rest[x][j] <=> w \in A[x][j] \/ (w = m /\ <<x, j>> \in X)
          OBVIOUS
        <4>1. w \in rest[x][j] <=> w \in A[x][j] \/ (w = m /\ <<x, j>> \in Span(b, i + 1, Len(c[b])))
          BY <1>3 DEF Added
        <4>2. x = B /\ j \in 1 .. k => m \in A[x][j]
          BY <3>2 DEF UpTo
        <4>. HIDE DEF X
        <4>. QED  BY <1>4, <1>5, <4>1, <4>2
      <3>4. MarksTyped(c, rest, W) /\ \A x \in Blocks : \A w : w \in W[x] <=> w \in W[x] \/ (w = m /\ x \in {})
        BY <1>3 DEF Added
      <3>. QED  BY <2>1, <3>3, <3>4 DEF Added
    <2>2. CASE m \notin rest[B][k]
      <3>1. MarksTyped(c, rest, W)
        BY <1>3 DEF Added
      <3>2. Added(c, rest, W, Marked(rest, m, B, 1, k), W, m, Span(B, 1, k), {})
        <4>1. B \in Blocks
          BY <1>0
        <4>. QED  BY <3>1, <4>1, MarkedAdds
      <3>3. A2 = Marked(rest, m, B, 1, k)
        BY <1>1, <2>2 DEF m
      <3>. HIDE DEF A2
      <3>4. Added(c, A, W, A2, W, m, X, {} \cup {})
        BY <1>3, <3>2, <3>3, AddedTwice
      <3>5. {} \cup {} = {}
        OBVIOUS
      <3>. QED  BY <3>4, <3>5
    <2>. QED  BY <2>1, <2>2
  <1>. HIDE DEF X, rest, A2
  <1>7. Grows(c, A, W, A2, W)
    BY <1>6, AddedGrows
  <1>8. UpTo(A2, m, b, i + 1, Len(c[b])) /\ UpTo(A2, m, B, 1, k)
    <2>1. \A j \in i + 1 .. Len(c[b]) : j \in DOMAIN c[b]
      BY <1>0, PlaceInRange
    <2>2. \A j \in 1 .. k : j \in DOMAIN c[B]
      BY <1>0, PlaceInRange
    <2>3. \A j \in i + 1 .. Len(c[b]) : m \in A2[b][j]
      BY <1>0, <1>4, <1>6, <2>1 DEF Added
    <2>4. \A j \in 1 .. k : m \in A2[B][j]
      BY <1>0, <1>4, <1>6, <2>2 DEF Added
    <2>. QED  BY <2>3, <2>4 DEF UpTo
  <1>9. \A x \in Blocks : \A j \in DOMAIN c[x] : <<x, j>> \in X => LiveAt(f, c, LiveIn(f, c, m), m, x, j)
    <2>. SUFFICES ASSUME NEW x \in Blocks, NEW j \in DOMAIN c[x], <<x, j>> \in X
                  PROVE  LiveAt(f, c, LiveIn(f, c, m), m, x, j)
      OBVIOUS
    <2>1. CASE x = b /\ j \in i + 1 .. Len(c[b])
      <3>1. j \in Int /\ i < j
        BY <1>0, <2>1
      <3>. QED  BY <2>1, <3>1, MovLive
    <2>2. CASE x = B /\ j \in 1 .. k
      <3>1. j \in Int /\ j <= k
        BY <1>0, <2>2
      <3>. QED  BY <2>2, <3>1, MovLive
    <2>. QED  BY <1>4, <2>1, <2>2
  <1>10. \A q \in PhisOf(f) : m = Mov(q) => \A l : MovsPlaced(f, c, q, l) => KeptMov(f, A2, q, l)
    <2>. SUFFICES ASSUME NEW q \in PhisOf(f), m = Mov(q), NEW l, MovsPlaced(f, c, q, l)
                  PROVE  KeptMov(f, A2, q, l)
      OBVIOUS
    <2>1. q = p
      BY ConstantsAssumption DEF Mov, PhisOf
    <2>2. l = k
      BY <2>1 DEF MovsPlaced
    <2>. QED  BY <1>8, <2>1, <2>2 DEF KeptMov
  <1>11. Marking(f, c, A2, W)
    <2>1. m \in NodesOf(c)
      BY DefIsNode
    <2>2. \A x \in Blocks \cap {} : /\ m \in Variables /\ f.block[m] # x
                                   /\ \A j \in DOMAIN c[x] : LiveAt(f, c, LiveIn(f, c, m), m, x, j)
      OBVIOUS
    <2>. HIDE DEF m
    <2>. QED  BY <1>1, <1>6, <1>9, <1>10, <2>1, <2>2, MarkingAdded
  <1>12. CoveredMov(f, c, A2, p, b, i, k)
    BY <1>8 DEF CoveredMov
  <1>. QED  BY <1>7, <1>11, <1>12 DEF A2, rest

-----------------------------------------------------------------------------
(* What is visited is covered, but for the users left of the current one.  *)
Covered(f, c, A, W, T, cur, tg) ==
  /\ \A v \in Variables : \A db, di, ub, uj :
       DefAt(c, v, db, di) /\ Def(v, <<db, di>>) \notin T /\ UseAt(c, v, ub, uj) =>
         CoveredUse(f, c, A, W, v, db, di, ub, uj) \/ (cur = Def(v, <<db, di>>) /\ <<ub, uj>> \in tg)
  /\ \A p \in PhisOf(f) : \A k, b, i :
       MovsPlaced(f, c, p, k) /\ DefAt(c, Mov(p), b, i) /\ Def(Mov(p), <<b, i>>) \notin T =>
         CoveredMov(f, c, A, p, b, i, k)

LEMMA NodeIsMade ==
  ASSUME NEW c, NEW v \in NodesOf(c)
  PROVE  \E b, i : DefAt(c, v, b, i)
  BY DEF NodesOf, MadeIn, DefAt

LEMMA LiveIsMarked ==
  ASSUME NEW f, NEW c, Final(f, c), NEW A, NEW W, NEW cur, Covered(f, c, A, W, {}, cur, {}),
         NEW b \in Blocks, NEW i \in DOMAIN c[b], NEW v \in NodesOf(c), LiveAt(f, c, LiveIn(f, c, v), v, b, i)
  PROVE  v \in W[b] \/ v \in A[b][i]
  <1>0. i \in Int /\ i > 0 /\ i <= Len(c[b])
    BY FinalBlock
  <1>1. PICK db, di : DefAt(c, v, db, di)
    BY NodeIsMade
  <1>2. di \in Nat /\ v \in Int /\ v # 0
    BY <1>1, DefRange
  <1>3. CASE v > 0
    <2>1. v \in Variables
      BY <1>1, <1>3, DefRange
    <2>2. b = db => i > di
      BY <1>0, <1>1, <2>1, LiveForUse
    <2>3. PICK ub, uj : /\ UseAt(c, v, ub, uj)
                        /\ \/ ub = b /\ i <= uj
                           \/ ub # db /\ (b = db \/ b \in PathPoints(f, db, ub))
      BY <1>0, <1>1, <2>1, LiveForUse
    <2>4. CoveredUse(f, c, A, W, v, db, di, ub, uj) /\ uj \in Int
      BY <1>1, <2>1, <2>3, UseDominated DEF Covered
    <2>5. CASE ub = b /\ i <= uj
      <3>1. CASE b = db
        <4>1. UpTo(A, v, b, di + 1, uj) /\ i \in di + 1 .. uj
          BY <1>0, <1>2, <2>2, <2>4, <2>5, <3>1 DEF CoveredUse
        <4>. QED  BY <4>1 DEF UpTo
      <3>2. CASE b # db
        <4>1. i \in 1 .. uj /\ (v \in W[b] \/ UpTo(A, v, b, 1, uj))
          BY <1>0, <2>4, <2>5, <3>2 DEF CoveredUse
        <4>. QED  BY <4>1 DEF UpTo
      <3>. QED  BY <3>1, <3>2
    <2>6. CASE ub # db /\ b = db
      <3>1. UpTo(A, v, db, di + 1, Len(c[db])) /\ i \in di + 1 .. Len(c[db])
        BY <1>0, <1>2, <2>2, <2>4, <2>6, FinalBlock DEF CoveredUse, WayMarked
      <3>. QED  BY <2>6, <3>1 DEF UpTo
    <2>7. CASE ub # db /\ b \in PathPoints(f, db, ub)
      BY <2>4, <2>7 DEF CoveredUse, WayMarked
    <2>. QED  BY <2>3, <2>5, <2>6, <2>7
  <1>4. CASE v < 0
    <2>1. PICK p \in PhisOf(f) : v = Mov(p)
      BY <1>1, <1>4, DefRange
    <2>2. PICK k : MovsPlaced(f, c, p, k)
      BY FinalMovs
    <2>3. \A eb, ei : DefAt(c, v, eb, ei) => CoveredMov(f, c, A, p, eb, ei, k)
      BY <2>1, <2>2 DEF Covered
    <2>4. CASE b = f.block[p] /\ i <= k
      <3>1. UpTo(A, v, b, 1, k) /\ k \in Int
        BY <1>1, <2>1, <2>2, <2>3, <2>4, FinalBlock DEF CoveredMov, MovsPlaced
      <3>. QED  BY <1>0, <2>4, <3>1 DEF UpTo
    <2>5. CASE \E j \in Int : DefAt(c, v, b, j) /\ j < i
      <3>1. PICK j \in Int : DefAt(c, v, b, j) /\ j < i
        BY <2>5
      <3>2. UpTo(A, v, b, j + 1, Len(c[b])) /\ i \in j + 1 .. Len(c[b])
        BY <1>0, <2>1, <2>3, <3>1, FinalBlock DEF CoveredMov
      <3>. QED  BY <3>2 DEF UpTo
    <2>. QED  BY <1>0, <2>1, <2>2, <2>4, <2>5, MovLiveOnly
  <1>. QED  BY <1>2, <1>3, <1>4

(* A value is alive right behind the instruction that makes it.            *)
LEMMA MadeIsMarked ==
  ASSUME NEW f, NEW c, Final(f, c), NEW A, NEW W, NEW cur, Covered(f, c, A, W, {}, cur, {}),
         NEW b \in Blocks, NEW i \in DOMAIN c[b], c[b][i].value # None
  PROVE  i + 1 \in DOMAIN c[b] /\ c[b][i].value \in A[b][i + 1]
  <1>. DEFINE w == c[b][i].value
  <1>0. DefAt(c, w, b, i)
    BY DEF DefAt
  <1>. HIDE DEF w
  <1>1. i \in Nat /\ i < Len(c[b]) /\ Len(c[b]) \in Int /\ w \in Int /\ w # 0
    BY <1>0, DefRange, FinalBlock
  <1>2. i + 1 \in DOMAIN c[b] /\ i + 1 \in i + 1 .. Len(c[b])
    BY <1>1, FinalBlock
  <1>3. CASE w > 0
    <2>1. w \in Variables
      BY <1>0, <1>3, DefRange
    <2>2. w \in Ordinary \cup Phis
      BY <1>3, FinalValue DEF w
    <2>3. PICK ub, uj : UseAt(c, w, ub, uj)
      BY <1>0, <2>2, EveryUsed
    <2>4. CoveredUse(f, c, A, W, w, b, i, ub, uj) /\ uj \in Int /\ Behind(f, ub, uj, b, i)
      BY <1>0, <2>1, <2>3, UseDominated DEF Covered
    <2>5. CASE ub = b
      <3>1. UpTo(A, w, b, i + 1, uj) /\ i + 1 \in i + 1 .. uj
        BY <1>1, <2>4, <2>5 DEF CoveredUse, Behind
      <3>. QED  BY <1>2, <3>1 DEF UpTo, w
    <2>6. CASE ub # b
      <3>1. UpTo(A, w, b, i + 1, Len(c[b]))
        BY <2>4, <2>6 DEF CoveredUse, WayMarked
      <3>. QED  BY <1>2, <3>1 DEF UpTo, w
    <2>. QED  BY <2>5, <2>6
  <1>4. CASE w < 0
    <2>1. PICK p \in PhisOf(f) : w = Mov(p)
      BY <1>0, <1>4, DefRange
    <2>2. PICK k : MovsPlaced(f, c, p, k)
      BY FinalMovs
    <2>3. UpTo(A, w, b, i + 1, Len(c[b]))
      BY <1>0, <2>1, <2>2 DEF Covered, CoveredMov
    <2>. QED  BY <1>2, <2>3 DEF UpTo, w
  <1>. QED  BY <1>1, <1>3, <1>4

-----------------------------------------------------------------------------
(* Each action keeps this.                                                 *)
LEMMA DefEqual ==
  ASSUME NEW v, NEW a, NEW b, NEW w, NEW x, NEW y, Def(v, <<a, b>>) = Def(w, <<x, y>>)
  PROVE  v = w /\ a = x /\ b = y
  <1>1. Def(v, <<a, b>>).value = v /\ Def(v, <<a, b>>).place = <<a, b>>
    BY DEF Def
  <1>2. Def(w, <<x, y>>).value = w /\ Def(w, <<x, y>>).place = <<x, y>>
    BY DEF Def
  <1>3. v = w /\ <<a, b>> = <<x, y>>
    BY <1>1, <1>2
  <1>. QED  BY <1>3

LEMMA NothingMarked ==
  ASSUME NEW f, NEW c, Final(f, c), NEW A, A = [b \in Blocks |-> [i \in DOMAIN c[b] |-> {}]],
         NEW W, W = [b \in Blocks |-> {}]
  PROVE  Marking(f, c, A, W)
  <1>1. \A b \in Blocks : W[b] = {} /\ A[b] = [i \in DOMAIN c[b] |-> {}] /\ \A i \in DOMAIN c[b] : A[b][i] = {}
    OBVIOUS
  <1>2. MarksTyped(c, A, W)
    <2>1. A = [b \in Blocks |-> A[b]] /\ W = [b \in Blocks |-> W[b]]
      OBVIOUS
    <2>2. \A b \in Blocks : A[b] = [i \in DOMAIN c[b] |-> A[b][i]]
      BY <1>1
    <2>. QED  BY <2>1, <2>2 DEF MarksTyped
  <1>3. SoundMarks(f, c, A, W)
    BY <1>1 DEF SoundMarks
  <1>4. ASSUME NEW v \in Variables, NEW db, NEW di, DefAt(c, v, db, di)  PROVE KeptValue(f, c, A, W, v, db, di)
    <2>1. db \in Blocks
      BY <1>4, DefRange
    <2>. QED  BY <1>1, <2>1 DEF KeptValue
  <1>5. ASSUME NEW p \in PhisOf(f), NEW k, MovsPlaced(f, c, p, k)  PROVE KeptMov(f, A, p, k)
    BY <1>1, <1>5 DEF MovsPlaced, KeptMov
  <1>. QED  BY <1>2, <1>3, <1>4, <1>5 DEF Marking

LEMMA VisitCovered ==
  ASSUME NEW f, NEW c, NEW A, NEW W, NEW T, NEW cur, Covered(f, c, A, W, T, cur, {}),
         NEW v \in Variables, NEW b, NEW i, NEW U, \A ub, uj : UseAt(c, v, ub, uj) => <<ub, uj>> \in U
  PROVE  Covered(f, c, A, W, T \ {Def(v, <<b, i>>)}, Def(v, <<b, i>>), U)
  <1>. DEFINE d == Def(v, <<b, i>>)
  <1>1. ASSUME NEW w \in Variables, NEW db, NEW di, NEW ub, NEW uj,
               DefAt(c, w, db, di), Def(w, <<db, di>>) \notin T \ {d}, UseAt(c, w, ub, uj)
        PROVE  CoveredUse(f, c, A, W, w, db, di, ub, uj) \/ (d = Def(w, <<db, di>>) /\ <<ub, uj>> \in U)
    <2>1. CASE Def(w, <<db, di>>) \notin T
      BY <1>1, <2>1 DEF Covered
    <2>2. CASE Def(w, <<db, di>>) = d
      BY <1>1, <2>2, DefEqual
    <2>. QED  BY <1>1, <2>1, <2>2
  <1>2. ASSUME NEW p \in PhisOf(f), NEW k, NEW x, NEW j,
               MovsPlaced(f, c, p, k), DefAt(c, Mov(p), x, j), Def(Mov(p), <<x, j>>) \notin T \ {d}
        PROVE  CoveredMov(f, c, A, p, x, j, k)
    <2>1. Mov(p) # v
      BY ConstantsAssumption DEF Mov, PhisOf, Variables
    <2>2. Def(Mov(p), <<x, j>>) # d
      BY <2>1, DefEqual
    <2>. QED  BY <1>2, <2>2 DEF Covered
  <1>. QED  BY <1>1, <1>2 DEF Covered

LEMMA UserCovered ==
  ASSUME NEW f, NEW c, Final(f, c), NEW A, NEW W, NEW A2, NEW W2, Grows(c, A, W, A2, W2),
         NEW T, NEW tg, NEW v \in Variables, NEW b, NEW i, NEW ub, NEW uj,
         Covered(f, c, A, W, T, Def(v, <<b, i>>), tg), CoveredUse(f, c, A2, W2, v, b, i, ub, uj)
  PROVE  Covered(f, c, A2, W2, T, Def(v, <<b, i>>), tg \ {<<ub, uj>>})
  <1>. DEFINE d == Def(v, <<b, i>>)
  <1>1. ASSUME NEW w \in Variables, NEW eb, NEW ei, NEW xb, NEW xj,
               DefAt(c, w, eb, ei), Def(w, <<eb, ei>>) \notin T, UseAt(c, w, xb, xj)
        PROVE  \/ CoveredUse(f, c, A2, W2, w, eb, ei, xb, xj)
               \/ d = Def(w, <<eb, ei>>) /\ <<xb, xj>> \in tg \ {<<ub, uj>>}
    <2>1. CASE CoveredUse(f, c, A, W, w, eb, ei, xb, xj)
      BY <1>1, <2>1, CoveredUseGrows
    <2>2. CASE d = Def(w, <<eb, ei>>) /\ <<xb, xj>> \in tg
      <3>1. w = v /\ eb = b /\ ei = i
        BY <2>2, DefEqual
      <3>. QED  BY <2>2, <3>1
    <2>. QED  BY <1>1, <2>1, <2>2 DEF Covered
  <1>2. ASSUME NEW p \in PhisOf(f), NEW k, NEW x, NEW j,
               MovsPlaced(f, c, p, k), DefAt(c, Mov(p), x, j), Def(Mov(p), <<x, j>>) \notin T
        PROVE  CoveredMov(f, c, A2, p, x, j, k)
    <2>1. CoveredMov(f, c, A, p, x, j, k)
      BY <1>2 DEF Covered
    <2>. QED  BY <1>2, <2>1, CoveredMovGrows
  <1>. QED  BY <1>1, <1>2 DEF Covered

LEMMA MovCovered ==
  ASSUME NEW f, NEW c, Final(f, c), NEW A, NEW W, NEW A2, NEW W2, Grows(c, A, W, A2, W2),
         NEW T, NEW cur, NEW p \in PhisOf(f), NEW k, MovsPlaced(f, c, p, k), NEW b, NEW i,
         Covered(f, c, A, W, T, cur, {}), CoveredMov(f, c, A2, p, b, i, k)
  PROVE  Covered(f, c, A2, W2, T \ {Def(Mov(p), <<b, i>>)}, cur, {})
  <1>. DEFINE d == Def(Mov(p), <<b, i>>)
  <1>1. ASSUME NEW w \in Variables, NEW eb, NEW ei, NEW xb, NEW xj,
               DefAt(c, w, eb, ei), Def(w, <<eb, ei>>) \notin T \ {d}, UseAt(c, w, xb, xj)
        PROVE  CoveredUse(f, c, A2, W2, w, eb, ei, xb, xj)
    <2>1. w # Mov(p)
      BY ConstantsAssumption DEF Mov, PhisOf, Variables
    <2>2. Def(w, <<eb, ei>>) # d
      BY <2>1, DefEqual
    <2>3. CoveredUse(f, c, A, W, w, eb, ei, xb, xj)
      BY <1>1, <2>2 DEF Covered
    <2>. QED  BY <1>1, <2>3, CoveredUseGrows
  <1>2. ASSUME NEW q \in PhisOf(f), NEW l, NEW x, NEW j,
               MovsPlaced(f, c, q, l), DefAt(c, Mov(q), x, j), Def(Mov(q), <<x, j>>) \notin T \ {d}
        PROVE  CoveredMov(f, c, A2, q, x, j, l)
    <2>1. CASE Def(Mov(q), <<x, j>>) \notin T
      <3>1. CoveredMov(f, c, A, q, x, j, l)
        BY <1>2, <2>1 DEF Covered
      <3>. QED  BY <1>2, <3>1, CoveredMovGrows
    <2>2. CASE Def(Mov(q), <<x, j>>) = d
      <3>1. Mov(q) = Mov(p) /\ x = b /\ j = i
        BY <2>2, DefEqual
      <3>2. q = p
        BY <3>1, ConstantsAssumption DEF Mov, PhisOf
      <3>3. l = k
        BY <1>2, <3>2 DEF MovsPlaced
      <3>. QED  BY <3>1, <3>2, <3>3
    <2>. QED  BY <1>2, <2>1, <2>2
  <1>. QED  BY <1>1, <1>2 DEF Covered

-----------------------------------------------------------------------------
(* The invariant.                                                          *)
ToVisit(c, T) == \A d \in T : \E v, b, i : DefAt(c, v, b, i) /\ d = Def(v, <<b, i>>)

Targeted(c, cur, tg) ==
  \A pl \in tg : \E v \in Variables : \E b, i, ub, uj :
    DefAt(c, v, b, i) /\ cur = Def(v, <<b, i>>) /\ UseAt(c, v, ub, uj) /\ pl = <<ub, uj>>

GraphRight(f, c, G) ==
  /\ \A b \in Blocks : \A i \in DOMAIN c[b] : c[b][i].value # None =>
       \A v \in NodesOf(c) : v # c[b][i].value /\ LiveAt(f, c, LiveIn(f, c, v), v, b, i + 1) => v \in G[c[b][i].value]
  /\ \A p, q \in Params :
       p # q /\ LiveAt(f, c, LiveIn(f, c, p), p, 1, 1) /\ LiveAt(f, c, LiveIn(f, c, q), q, 1, 1) => q \in G[p]
  /\ \A v \in NodesOf(c) : \A w \in G[v] : v # w /\ v \in G[w]

AliveRight(f, c, A) ==
  /\ \A b \in Blocks : \A i \in DOMAIN c[b] : c[b][i].type = "INS" =>
       \A v \in NodesOf(c) : v # c[b][i].value /\ LiveAt(f, c, LiveIn(f, c, v), v, b, i + 1) => v \in A[b][i]
  /\ \A b \in Blocks : \A i \in DOMAIN c[b] : \A v \in A[b][i] :
       v \in NodesOf(c) /\ LiveAt(f, c, LiveIn(f, c, v), v, b, i)

GraphInv ==
  /\ FormInv
  /\ pc = "eliminate" => blockAlive = [b \in Blocks |-> {}] /\ targets = {}
  /\ pc \in {"mark", "edges", "merge"} =>
       Marking(func, code, alive, blockAlive) /\ Covered(func, code, alive, blockAlive, todo, current, targets)
  /\ pc = "mark" => ToVisit(code, todo) /\ Targeted(code, current, targets)
  /\ pc \in {"edges", "merge"} => todo = {} /\ targets = {}
  /\ pc \in {"merge", "done"} => GraphRight(func, code, conflictGraph)
  /\ pc = "done" => AliveRight(func, code, alive)

LEMMA FormFinal ==
  ASSUME FormInv, pc # "eliminate"
  PROVE  Final(func, code)
  BY FunctionsAssumption DEF FormInv, Final

(* The places of the model are those of the lemmas.                        *)
LEMMA PlacesAre ==
  /\ \A pl \in Places : \E b, i : pl = <<b, i>> /\ b \in Blocks /\ i \in DOMAIN code[b] /\ At(pl) = code[b][i]
  /\ \A b \in Blocks : \A i \in DOMAIN code[b] : <<b, i>> \in Places /\ At(<<b, i>>) = code[b][i]
  BY DEF Places, PlacesOf, At

LEMMA DefinitionsAre ==
  /\ ToVisit(code, Definitions)
  /\ \A v, b, i : DefAt(code, v, b, i) => Def(v, <<b, i>>) \in Definitions
  <1>1. ASSUME NEW d \in Definitions  PROVE \E v, b, i : DefAt(code, v, b, i) /\ d = Def(v, <<b, i>>)
    <2>1. CASE \E v \in Params : d = Def(v, <<1, 0>>)
      BY <2>1 DEF DefAt
    <2>2. CASE \E pl \in Places : At(pl).value # None /\ d = Def(At(pl).value, pl)
      <3>1. PICK pl \in Places : At(pl).value # None /\ d = Def(At(pl).value, pl)
        BY <2>2
      <3>2. PICK b, i : pl = <<b, i>> /\ b \in Blocks /\ i \in DOMAIN code[b] /\ At(pl) = code[b][i]
        BY PlacesAre
      <3>3. DefAt(code, At(pl).value, b, i)
        BY <3>1, <3>2 DEF DefAt
      <3>. QED  BY <3>1, <3>2, <3>3
    <2>. QED  BY <1>1, <2>1, <2>2 DEF Definitions
  <1>2. ASSUME NEW v, NEW b, NEW i, DefAt(code, v, b, i)  PROVE Def(v, <<b, i>>) \in Definitions
    <2>1. CASE v \in Params /\ b = 1 /\ i = 0
      BY <2>1 DEF Definitions
    <2>2. CASE b \in Blocks /\ i \in DOMAIN code[b] /\ code[b][i].value = v /\ v # None
      <3>1. <<b, i>> \in Places /\ At(<<b, i>>) = code[b][i]
        BY <2>2, PlacesAre
      <3>2. Def(At(<<b, i>>).value, <<b, i>>) \in Definitions
        BY <2>2, <3>1 DEF Definitions
      <3>. QED  BY <2>2, <3>1, <3>2
    <2>. QED  BY <1>2, <2>1, <2>2 DEF DefAt
  <1>. QED  BY <1>1, <1>2 DEF ToVisit

LEMMA UsersAre ==
  ASSUME Final(func, code), NEW v \in Variables
  PROVE  /\ \A pl \in UsersOf(v) : \E b, j : pl = <<b, j>> /\ UseAt(code, v, b, j)
         /\ \A b, j : UseAt(code, v, b, j) => <<b, j>> \in UsersOf(v)
  <1>1. ASSUME NEW pl \in UsersOf(v)  PROVE \E b, j : pl = <<b, j>> /\ UseAt(code, v, b, j)
    <2>1. pl \in Places /\ v \in At(pl).operands
      BY <1>1 DEF UsersOf
    <2>2. PICK b, j : pl = <<b, j>> /\ b \in Blocks /\ j \in DOMAIN code[b] /\ At(pl) = code[b][j]
      BY <2>1, PlacesAre
    <2>. QED  BY <2>1, <2>2 DEF UseAt
  <1>2. ASSUME NEW b, NEW j, UseAt(code, v, b, j)  PROVE <<b, j>> \in UsersOf(v)
    <2>1. <<b, j>> \in Places /\ At(<<b, j>>) = code[b][j] /\ v \in code[b][j].operands
      BY <1>2, PlacesAre DEF UseAt
    <2>2. code[b][j].type # "PHI"
      BY <1>2, UseBehind
    <2>. QED  BY <2>1, <2>2 DEF UsersOf
  <1>. QED  BY <1>1, <1>2

LEMMA PhiPlaceIs ==
  ASSUME Final(func, code), NEW p \in PhisOf(func), NEW k, MovsPlaced(func, code, p, k)
  PROVE  PhiPlace(p) = <<func.block[p], k>>
  <1>. DEFINE B == func.block[p]
  <1>0. B \in Blocks /\ k \in DOMAIN code[B] /\ code[B][k].value = p /\ p \in Variables /\ p # None
    BY ConstantsAssumption DEF MovsPlaced, PhisOf, Variables, None
  <1>1. <<B, k>> \in Places /\ At(<<B, k>>).value = p
    BY <1>0, PlacesAre
  <1>2. PhiPlace(p) \in Places /\ At(PhiPlace(p)).value = p
    BY <1>1 DEF PhiPlace
  <1>3. PICK b, i : PhiPlace(p) = <<b, i>> /\ b \in Blocks /\ i \in DOMAIN code[b] /\ At(PhiPlace(p)) = code[b][i]
    BY <1>2, PlacesAre
  <1>4. DefAt(code, p, b, i) /\ DefAt(code, p, B, k)
    BY <1>0, <1>2, <1>3 DEF DefAt
  <1>5. b = B /\ i = k
    BY <1>0, <1>4, MadeOnce
  <1>. QED  BY <1>3, <1>5

(* The edges make the graph right.                                         *)
LEMMA EdgesRight ==
  ASSUME Final(func, code), Marking(func, code, alive, blockAlive),
         Covered(func, code, alive, blockAlive, {}, current, {}), AddEdges
  PROVE  GraphRight(func, code, conflictGraph')
  <1>. DEFINE edges == UNION {BlockEdges(b) \cup InstructionEdges(b) : b \in Blocks}
              G == conflictGraph'
  <1>1. Nodes = NodesOf(code)
    BY DEF Nodes, NodesOf, Made
  <1>2. G = [v \in Nodes |-> {w \in Nodes : <<v, w>> \in edges}]
    BY DEF AddEdges
  <1>. HIDE DEF G, edges
  <1>3. \A v, w \in Nodes : w \in G[v] <=> <<v, w>> \in edges
    BY <1>2
  <1>4. \A v \in Nodes : G[v] \subseteq Nodes
    BY <1>2
  <1>5. ASSUME NEW b \in Blocks, NEW v, NEW w
        PROVE  <<v, w>> \in BlockEdges(b) <=> \/ v \in blockAlive[b] /\ w \in blockAlive[b] /\ v # w
                                              \/ v \in blockAlive[b] /\ w \in Made(b)
                                              \/ v \in Made(b) /\ w \in blockAlive[b]
    BY DEF BlockEdges
  <1>6. ASSUME NEW b \in Blocks, NEW v, NEW w
        PROVE  <<v, w>> \in InstructionEdges(b) <=>
                 \E i \in DOMAIN code[b] : v \in alive[b][i] /\ w \in alive[b][i] /\ v # w
    BY DEF InstructionEdges
  <1>7. \A v, w : <<v, w>> \in edges <=> \E b \in Blocks : <<v, w>> \in BlockEdges(b) \/ <<v, w>> \in InstructionEdges(b)
    BY DEF edges
  <1>8. ASSUME NEW b \in Blocks, NEW v \in blockAlive[b], NEW w \in Made(b)  PROVE v # w
    <2>1. v \in Variables /\ func.block[v] # b
      BY <1>8 DEF Marking, SoundMarks
    <2>2. PICK i \in DOMAIN code[b] : code[b][i].value = w /\ w # None
      BY <1>8 DEF Made, MadeIn
    <2>3. w \in Variables => func.block[w] = b
      <3>1. DefAt(code, w, b, i)
        BY <2>2 DEF DefAt
      <3>. QED  BY <3>1, DefRange, ConstantsAssumption DEF Variables
    <2>. QED  BY <2>1, <2>3
  <1>9. ASSUME NEW b \in Blocks, NEW i \in DOMAIN code[b], code[b][i].value # None,
               NEW v \in Nodes, v # code[b][i].value, LiveAt(func, code, LiveIn(func, code, v), v, b, i + 1)
        PROVE  v \in G[code[b][i].value]
    <2>. DEFINE w == code[b][i].value
    <2>1. i + 1 \in DOMAIN code[b] /\ w \in alive[b][i + 1]
      BY <1>9, MadeIsMarked
    <2>2. w \in Made(b) /\ w \in Nodes
      BY <1>9 DEF Made, MadeIn, Nodes
    <2>3. v \in blockAlive[b] \/ v \in alive[b][i + 1]
      BY <1>1, <1>9, <2>1, LiveIsMarked
    <2>. HIDE DEF w
    <2>4. <<w, v>> \in BlockEdges(b) \/ <<w, v>> \in InstructionEdges(b)
      <3>1. CASE v \in blockAlive[b]
        BY <1>5, <2>2, <3>1
      <3>2. CASE v \in alive[b][i + 1]
        <4>1. v # w
          BY <1>9 DEF w
        <4>. QED  BY <1>6, <2>1, <3>2, <4>1
      <3>. QED  BY <2>3, <3>1, <3>2
    <2>5. v \in G[w]
      BY <1>3, <1>7, <1>9, <2>2, <2>4
    <2>. QED  BY <2>5 DEF w
  <1>10. ASSUME NEW p \in Params, NEW q \in Params, p # q,
                LiveAt(func, code, LiveIn(func, code, p), p, 1, 1), LiveAt(func, code, LiveIn(func, code, q), q, 1, 1)
         PROVE  q \in G[p]
    <2>1. 1 \in Blocks /\ 1 \in DOMAIN code[1]
      BY ConstantsAssumption, FinalBlock
    <2>2. p \in Nodes /\ q \in Nodes /\ func.block[p] = 1 /\ func.block[q] = 1
      BY DEF Nodes, Final, LaidOut
    <2>3. p \notin blockAlive[1] /\ q \notin blockAlive[1]
      BY <2>1, <2>2 DEF Marking, SoundMarks
    <2>4. p \in alive[1][1] /\ q \in alive[1][1]
      BY <1>1, <1>10, <2>1, <2>2, <2>3, LiveIsMarked
    <2>5. <<p, q>> \in InstructionEdges(1)
      BY <1>6, <1>10, <2>1, <2>4
    <2>. QED  BY <1>3, <1>7, <2>1, <2>2, <2>5
  <1>11. ASSUME NEW v \in Nodes, NEW w \in G[v]  PROVE v # w /\ v \in G[w]
    <2>1. w \in Nodes /\ <<v, w>> \in edges
      BY <1>3, <1>4, <1>11
    <2>2. PICK b \in Blocks : <<v, w>> \in BlockEdges(b) \/ <<v, w>> \in InstructionEdges(b)
      BY <1>7, <2>1
    <2>3. v # w /\ (<<w, v>> \in BlockEdges(b) \/ <<w, v>> \in InstructionEdges(b))
      <3>1. CASE <<v, w>> \in BlockEdges(b)
        BY <1>5, <1>8, <3>1
      <3>2. CASE <<v, w>> \in InstructionEdges(b)
        BY <1>6, <3>2
      <3>. QED  BY <2>2, <3>1, <3>2
    <2>. QED  BY <1>3, <1>7, <2>1, <2>3
  <1>. QED  BY <1>1, <1>9, <1>10, <1>11 DEF GraphRight, G

LEMMA MergedRight ==
  ASSUME Final(func, code), Marking(func, code, alive, blockAlive),
         Covered(func, code, alive, blockAlive, {}, current, {})
  PROVE  AliveRight(func, code, Merged)
  <1>1. \A b \in Blocks : \A i \in DOMAIN code[b] :
          Merged[b][i] = IF code[b][i].type = "PHI_MOV" THEN alive[b][i] ELSE alive[b][i] \cup blockAlive[b]
    BY DEF Merged
  <1>2. ASSUME NEW b \in Blocks, NEW i \in DOMAIN code[b], code[b][i].type = "INS", NEW v \in NodesOf(code),
               v # code[b][i].value, LiveAt(func, code, LiveIn(func, code, v), v, b, i + 1)
        PROVE  v \in Merged[b][i]
    <2>1. DOMAIN code[b] \subseteq Int
      BY FinalBlock
    <2>2. UsedFrom(code, v, b, i + 1) => UsedFrom(code, v, b, i)
      BY <1>2, <2>1 DEF UsedFrom
    <2>3. PassedFrom(code, v, b, i + 1) => PassedFrom(code, v, b, i)
      BY <1>2, <2>1 DEF PassedFrom
    <2>4. LiveAt(func, code, LiveIn(func, code, v), v, b, i)
      BY <1>2, <2>2, <2>3 DEF LiveAt
    <2>5. v \in blockAlive[b] \/ v \in alive[b][i]
      BY <1>2, <2>4, LiveIsMarked
    <2>. QED  BY <1>1, <1>2, <2>5
  <1>3. ASSUME NEW b \in Blocks, NEW i \in DOMAIN code[b], NEW v \in Merged[b][i]
        PROVE  v \in NodesOf(code) /\ LiveAt(func, code, LiveIn(func, code, v), v, b, i)
    <2>1. v \in alive[b][i] \/ v \in blockAlive[b]
      BY <1>1, <1>3
    <2>. QED  BY <1>3, <2>1 DEF Marking, SoundMarks
  <1>. QED  BY <1>2, <1>3 DEF AliveRight

LEMMA GraphInit == Init => GraphInv
  BY FormInit DEF Init, GraphInv

(* One marking step for a user (SkipUser, MarkInBlock, MarkAcrossBlocks).  *)
LEMMA TargetCovered ==
  ASSUME Final(func, code), Targeted(code, current, targets),
         Marking(func, code, alive, blockAlive), Covered(func, code, alive, blockAlive, todo, current, targets),
         NEW pl \in targets, NEW A2, NEW W2,
         \A v \in Variables : \A b, i, ub, uj :
           DefAt(code, v, b, i) /\ current = Def(v, <<b, i>>) /\ UseAt(code, v, ub, uj) /\ pl = <<ub, uj>> =>
             /\ Marking(func, code, A2, W2) /\ Grows(code, alive, blockAlive, A2, W2)
             /\ CoveredUse(func, code, A2, W2, v, b, i, ub, uj)
  PROVE  /\ Marking(func, code, A2, W2)
         /\ Covered(func, code, A2, W2, todo, current, targets \ {pl})
         /\ Targeted(code, current, targets \ {pl})
  <1>1. PICK v \in Variables : \E b, i, ub, uj :
          DefAt(code, v, b, i) /\ current = Def(v, <<b, i>>) /\ UseAt(code, v, ub, uj) /\ pl = <<ub, uj>>
    BY DEF Targeted
  <1>2. PICK b, i, ub, uj :
          DefAt(code, v, b, i) /\ current = Def(v, <<b, i>>) /\ UseAt(code, v, ub, uj) /\ pl = <<ub, uj>>
    BY <1>1
  <1>3. /\ Marking(func, code, A2, W2) /\ Grows(code, alive, blockAlive, A2, W2)
        /\ CoveredUse(func, code, A2, W2, v, b, i, ub, uj)
    BY <1>2
  <1>4. Covered(func, code, A2, W2, todo, current, targets \ {pl})
    BY <1>2, <1>3, UserCovered
  <1>5. Targeted(code, current, targets \ {pl})
    BY DEF Targeted
  <1>. QED  BY <1>3, <1>4, <1>5

LEMMA GraphNext == GraphInv /\ [Next]_vars => GraphInv'
  <1>. SUFFICES ASSUME GraphInv, [Next]_vars  PROVE GraphInv'
    OBVIOUS
  <1>0. FormInv /\ FormInv'
    BY FormNext DEF GraphInv
  <1>1. ASSUME NEW p \in Phis, EliminatePhi(p)  PROVE GraphInv'
    <2>1. pc = "eliminate" /\ pc' = pc /\ UNCHANGED <<blockAlive, targets>>
      BY <1>1, Zenon DEF EliminatePhi
    <2>2. (pc = "eliminate" => blockAlive = [b \in Blocks |-> {}] /\ targets = {})'
      BY <2>1 DEF GraphInv
    <2>. QED  BY <1>0, <2>1, <2>2 DEF GraphInv
  <1>2. CASE StartMarking
    <2>1. /\ pc' = "mark" /\ func' = func /\ code' = code /\ todo' = Definitions
          /\ alive' = [b \in Blocks |-> [i \in DOMAIN code[b] |-> {}]]
          /\ blockAlive' = [b \in Blocks |-> {}] /\ targets' = {} /\ current' = current
      BY <1>2 DEF StartMarking, GraphInv
    <2>2. Final(func, code)
      <3>1. Final(func', code')
        BY <1>0, <2>1, FunctionsAssumption DEF FormInv, Final
      <3>. QED  BY <2>1, <3>1
    <2>3. Marking(func', code', alive', blockAlive')
      BY <2>1, <2>2, NothingMarked
    <2>4. Covered(func, code, alive', blockAlive', Definitions, current, {})
      BY DefinitionsAre DEF Covered
    <2>5. ToVisit(code', todo') /\ Targeted(code', current', targets')
      BY <2>1, DefinitionsAre DEF Targeted
    <2>. QED  BY <1>0, <2>1, <2>3, <2>4, <2>5 DEF GraphInv
  <1>3. CASE pc = "mark" /\ (Visit \/ VisitPhiMov \/ SkipUser \/ MarkInBlock \/ MarkAcrossBlocks)
    <2>0. /\ Final(func, code) /\ ToVisit(code, todo) /\ Targeted(code, current, targets)
          /\ Marking(func, code, alive, blockAlive)
          /\ Covered(func, code, alive, blockAlive, todo, current, targets)
      BY <1>0, <1>3, FormFinal DEF GraphInv
    <2>. SUFFICES /\ pc' = "mark" /\ func' = func /\ code' = code
                  /\ Marking(func, code, alive', blockAlive')
                  /\ Covered(func, code, alive', blockAlive', todo', current', targets')
                  /\ ToVisit(code, todo') /\ Targeted(code, current', targets')
      BY <1>0 DEF GraphInv
    <2>1. CASE Visit
      <3>1. /\ pc' = "mark" /\ func' = func /\ code' = code /\ alive' = alive /\ blockAlive' = blockAlive
            /\ targets = {}
        BY <1>3, <2>1 DEF Visit
      <3>2. PICK d \in todo : d.value > 0 /\ current' = d /\ targets' = UsersOf(d.value) /\ todo' = todo \ {d}
        BY <2>1 DEF Visit
      <3>3. PICK v, b, i : DefAt(code, v, b, i) /\ d = Def(v, <<b, i>>)
        BY <2>0, <3>2 DEF ToVisit
      <3>4. d.value = v /\ v \in Variables
        BY <2>0, <3>2, <3>3, DefRange DEF Def
      <3>5. Covered(func, code, alive, blockAlive, todo \ {d}, d, UsersOf(v))
        BY <2>0, <3>1, <3>3, <3>4, UsersAre, VisitCovered
      <3>6. Targeted(code, d, UsersOf(v))
        BY <2>0, <3>3, <3>4, UsersAre DEF Targeted
      <3>7. ToVisit(code, todo')
        BY <2>0, <3>2 DEF ToVisit
      <3>8. Covered(func, code, alive', blockAlive', todo', current', targets')
        BY <3>1, <3>2, <3>4, <3>5
      <3>9. Targeted(code, current', targets')
        BY <3>2, <3>4, <3>6
      <3>. QED  BY <2>0, <3>1, <3>7, <3>8, <3>9
    <2>2. CASE VisitPhiMov
      <3>1. /\ pc' = "mark" /\ func' = func /\ code' = code /\ blockAlive' = blockAlive
            /\ targets = {} /\ targets' = {} /\ current' = current
        BY <1>3, <2>2, Zenon DEF VisitPhiMov
      <3>2. PICK d \in todo :
              LET mov == d.value
                  b == d.place[1]
                  phi == PhiPlace(-mov)
                  rest == Marked(alive, mov, b, d.place[2] + 1, Len(code[b]))
                  done == mov \in blockAlive[phi[1]] \/ mov \in rest[phi[1]][phi[2]]
              IN  /\ mov < 0
                  /\ alive' = IF done THEN rest ELSE Marked(rest, mov, phi[1], 1, phi[2])
                  /\ todo' = todo \ {d}
        BY <2>2 DEF VisitPhiMov
      <3>3. PICK v, b, i : DefAt(code, v, b, i) /\ d = Def(v, <<b, i>>)
        BY <2>0, <3>2 DEF ToVisit
      <3>4. d.value = v /\ d.place[1] = b /\ d.place[2] = i
        BY <3>3 DEF Def
      <3>5. PICK p \in PhisOf(func) : v = Mov(p)
        BY <2>0, <3>2, <3>3, <3>4, DefRange
      <3>6. PICK k : MovsPlaced(func, code, p, k)
        BY <2>0, FinalMovs
      <3>7. -v = p
        BY <3>5, ConstantsAssumption DEF Mov, PhisOf
      <3>8. PhiPlace(-v) = <<func.block[p], k>>
        BY <2>0, <3>6, <3>7, PhiPlaceIs
      <3>. DEFINE rest == Marked(alive, Mov(p), b, i + 1, Len(code[b]))
                  A2 == IF Mov(p) \in blockAlive[func.block[p]] \/ Mov(p) \in rest[func.block[p]][k]
                        THEN rest ELSE Marked(rest, Mov(p), func.block[p], 1, k)
      <3>9. alive' = A2 /\ todo' = todo \ {d}
        BY <3>2, <3>4, <3>5, <3>8
      <3>10. /\ Marking(func, code, A2, blockAlive) /\ Grows(code, alive, blockAlive, A2, blockAlive)
             /\ CoveredMov(func, code, A2, p, b, i, k)
        BY <2>0, <3>3, <3>5, <3>6, MovCovers
      <3>. HIDE DEF A2
      <3>11. Covered(func, code, A2, blockAlive, todo \ {d}, current, {})
        BY <2>0, <3>1, <3>3, <3>5, <3>6, <3>10, MovCovered
      <3>12. ToVisit(code, todo') /\ Targeted(code, current', targets')
        BY <2>0, <3>1, <3>9 DEF ToVisit, Targeted
      <3>. QED  BY <3>1, <3>9, <3>10, <3>11, <3>12
    <2>3. CASE SkipUser
      <3>1. /\ pc' = "mark" /\ func' = func /\ code' = code /\ alive' = alive /\ blockAlive' = blockAlive
            /\ current' = current /\ todo' = todo
        BY <1>3, <2>3 DEF SkipUser
      <3>2. PICK pl \in targets : IsAlive(current.value, pl) /\ targets' = targets \ {pl}
        BY <2>3 DEF SkipUser
      <3>3. ASSUME NEW v \in Variables, NEW b, NEW i, NEW ub, NEW uj, DefAt(code, v, b, i),
                   current = Def(v, <<b, i>>), UseAt(code, v, ub, uj), pl = <<ub, uj>>
            PROVE  /\ Marking(func, code, alive, blockAlive) /\ Grows(code, alive, blockAlive, alive, blockAlive)
                   /\ CoveredUse(func, code, alive, blockAlive, v, b, i, ub, uj)
        <4>1. v \in blockAlive[ub] \/ v \in alive[ub][uj]
          BY <3>2, <3>3 DEF IsAlive, Def
        <4>2. CoveredUse(func, code, alive, blockAlive, v, b, i, ub, uj)
          BY <2>0, <3>3, <4>1, SkipCovers
        <4>. QED  BY <2>0, <4>2 DEF Grows
      <3>4. /\ Covered(func, code, alive, blockAlive, todo, current, targets \ {pl})
            /\ Targeted(code, current, targets \ {pl})
        BY <2>0, <3>3, TargetCovered
      <3>. QED  BY <2>0, <3>1, <3>2, <3>4
    <2>4. CASE MarkInBlock
      <3>1. /\ pc' = "mark" /\ func' = func /\ code' = code /\ blockAlive' = blockAlive
            /\ current' = current /\ todo' = todo
        BY <1>3, <2>4 DEF MarkInBlock
      <3>2. PICK pl \in targets :
              /\ pl[1] = current.place[1]
              /\ alive' = Marked(alive, current.value, pl[1], current.place[2] + 1, pl[2])
              /\ targets' = targets \ {pl}
        BY <2>4 DEF MarkInBlock
      <3>3. ASSUME NEW v \in Variables, NEW b, NEW i, NEW ub, NEW uj, DefAt(code, v, b, i),
                   current = Def(v, <<b, i>>), UseAt(code, v, ub, uj), pl = <<ub, uj>>
            PROVE  /\ Marking(func, code, alive', blockAlive) /\ Grows(code, alive, blockAlive, alive', blockAlive)
                   /\ CoveredUse(func, code, alive', blockAlive, v, b, i, ub, uj)
        <4>1. ub = b /\ alive' = Marked(alive, v, b, i + 1, uj)
          BY <3>2, <3>3 DEF Def
        <4>. QED  BY <2>0, <3>3, <4>1, InBlockCovers
      <3>4. /\ Marking(func, code, alive', blockAlive)
            /\ Covered(func, code, alive', blockAlive, todo, current, targets \ {pl})
            /\ Targeted(code, current, targets \ {pl})
        BY <2>0, <3>3, TargetCovered
      <3>. QED  BY <2>0, <3>1, <3>2, <3>4
    <2>5. CASE MarkAcrossBlocks
      <3>1. /\ pc' = "mark" /\ func' = func /\ code' = code /\ current' = current /\ todo' = todo
        BY <1>3, <2>5 DEF MarkAcrossBlocks
      <3>2. PICK pl \in targets :
              /\ pl[1] # current.place[1] \/ pl[2] <= current.place[2]
              /\ alive' = ToUser(alive, current.value, current.place, pl)
              /\ blockAlive' = [b \in Blocks |-> blockAlive[b] \cup
                                  (IF b \in PathPoints(func, current.place[1], pl[1]) THEN {current.value} ELSE {})]
              /\ targets' = targets \ {pl}
        BY <2>5 DEF MarkAcrossBlocks
      <3>3. ASSUME NEW v \in Variables, NEW b, NEW i, NEW ub, NEW uj, DefAt(code, v, b, i),
                   current = Def(v, <<b, i>>), UseAt(code, v, ub, uj), pl = <<ub, uj>>
            PROVE  /\ Marking(func, code, alive', blockAlive') /\ Grows(code, alive, blockAlive, alive', blockAlive')
                   /\ CoveredUse(func, code, alive', blockAlive', v, b, i, ub, uj)
        <4>1. current.value = v /\ current.place[1] = b /\ current.place[2] = i /\ pl[1] = ub /\ pl[2] = uj
          BY <3>3 DEF Def
        <4>2. ub # b
          <5>1. Behind(func, ub, uj, b, i) /\ uj \in Int
            BY <2>0, <3>3, UseDominated
          <5>. QED  BY <3>2, <4>1, <5>1 DEF Behind
        <4>3. alive' = Marked(Marked(alive, v, b, i + 1, Len(code[b])), v, ub, 1, uj)
          BY <3>2, <4>1 DEF ToUser
        <4>4. blockAlive' = [x \in Blocks |-> blockAlive[x] \cup (IF x \in PathPoints(func, b, ub) THEN {v} ELSE {})]
          BY <3>2, <4>1
        <4>. QED  BY <2>0, <3>3, <4>2, <4>3, <4>4, AcrossCovers
      <3>4. /\ Marking(func, code, alive', blockAlive')
            /\ Covered(func, code, alive', blockAlive', todo, current, targets \ {pl})
            /\ Targeted(code, current, targets \ {pl})
        BY <2>0, <3>3, TargetCovered
      <3>. QED  BY <2>0, <3>1, <3>2, <3>4
    <2>. QED  BY <1>3, <2>1, <2>2, <2>3, <2>4, <2>5
  <1>4. CASE EndMarking
    BY <1>0, <1>4 DEF EndMarking, GraphInv
  <1>5. CASE AddEdges
    <2>1. /\ pc = "edges" /\ pc' = "merge" /\ func' = func /\ code' = code /\ alive' = alive
          /\ blockAlive' = blockAlive /\ todo' = todo /\ current' = current /\ targets' = targets
      BY <1>5 DEF AddEdges
    <2>2. /\ Final(func, code) /\ Marking(func, code, alive, blockAlive) /\ todo = {} /\ targets = {}
          /\ Covered(func, code, alive, blockAlive, todo, current, targets)
      BY <1>0, <2>1, FormFinal DEF GraphInv
    <2>3. GraphRight(func, code, conflictGraph')
      BY <1>5, <2>2, EdgesRight
    <2>. QED  BY <1>0, <2>1, <2>2, <2>3 DEF GraphInv
  <1>6. CASE MergeAliveValues
    <2>1. /\ pc = "merge" /\ pc' = "done" /\ func' = func /\ code' = code /\ alive' = Merged
          /\ conflictGraph' = conflictGraph
      BY <1>6 DEF MergeAliveValues
    <2>2. /\ Final(func, code) /\ Marking(func, code, alive, blockAlive) /\ todo = {} /\ targets = {}
          /\ Covered(func, code, alive, blockAlive, todo, current, targets)
          /\ GraphRight(func, code, conflictGraph)
      BY <1>0, <2>1, FormFinal DEF GraphInv
    <2>3. AliveRight(func, code, alive')
      BY <2>1, <2>2, MergedRight
    <2>. QED  BY <1>0, <2>1, <2>2, <2>3 DEF GraphInv
  <1>7. CASE Done \/ UNCHANGED vars
    <2>1. UNCHANGED vars
      BY <1>7 DEF Done
    <2>. QED  BY <1>0, <2>1 DEF vars, GraphInv
  <1>8. Visit \/ VisitPhiMov \/ SkipUser \/ MarkInBlock \/ MarkAcrossBlocks => pc = "mark"
    BY Zenon DEF Visit, VisitPhiMov, SkipUser, MarkInBlock, MarkAcrossBlocks
  <1>. QED  BY <1>1, <1>2, <1>3, <1>4, <1>5, <1>6, <1>7, <1>8 DEF Next

(* The inductive invariant of buildConflictGraph: marks are sound, where a  *)
(* value is marked so is its way there, what is visited is covered, and the *)
(* edges and merged sets made of the marks are right.                       *)
THEOREM GraphInvariant == Spec => []GraphInv
  BY GraphInit, GraphNext, PTL DEF Spec

-----------------------------------------------------------------------------
LEMMA LiveAre ==
  ASSUME NEW b, NEW i
  PROVE  Live(LiveIns, b, i) = {v \in NodesOf(code) : LiveAt(func, code, LiveIn(func, code, v), v, b, i)}
  <1>1. Nodes = NodesOf(code)
    BY DEF Nodes, NodesOf, Made
  <1>. QED  BY <1>1 DEF Live, LiveIns

(* What is made while another value is live conflicts with it, and so do   *)
(* the parameters used, for every function in SSA form.                    *)
THEOREM SpecInterferenceCovered == Spec => []InterferenceCovered
  <1>1. GraphInv => InterferenceCovered
    <2>. SUFFICES ASSUME GraphInv, pc = "done"
                  PROVE  /\ \A pl \in Places : At(pl).value # None =>
                              Live(LiveIns, pl[1], pl[2] + 1) \ {At(pl).value} \subseteq conflictGraph[At(pl).value]
                         /\ \A p, q \in Params \cap Live(LiveIns, 1, 1) : p # q => q \in conflictGraph[p]
      BY DEF InterferenceCovered
    <2>1. GraphRight(func, code, conflictGraph)
      BY DEF GraphInv
    <2>2. ASSUME NEW pl \in Places, At(pl).value # None, NEW v \in Live(LiveIns, pl[1], pl[2] + 1), v # At(pl).value
          PROVE  v \in conflictGraph[At(pl).value]
      <3>1. PICK b, i : pl = <<b, i>> /\ b \in Blocks /\ i \in DOMAIN code[b] /\ At(pl) = code[b][i]
        BY PlacesAre
      <3>2. v \in NodesOf(code) /\ LiveAt(func, code, LiveIn(func, code, v), v, b, i + 1)
        BY <2>2, <3>1, LiveAre
      <3>. QED  BY <2>1, <2>2, <3>1, <3>2 DEF GraphRight
    <2>3. \A p \in Params \cap Live(LiveIns, 1, 1) : LiveAt(func, code, LiveIn(func, code, p), p, 1, 1)
      BY LiveAre
    <2>. QED  BY <2>1, <2>2, <2>3 DEF GraphRight
  <1>. QED  BY <1>1, GraphInvariant, PTL

(* The graph is symmetric and has no loops.                                *)
THEOREM SpecGraphProper == Spec => []GraphProper
  <1>1. GraphInv => GraphProper
    <2>1. Nodes = NodesOf(code)
      BY DEF Nodes, NodesOf, Made
    <2>. QED  BY <2>1 DEF GraphInv, GraphRight, GraphProper
  <1>. QED  BY <1>1, GraphInvariant, PTL

(* Calls save the registers of all values that are needed after them.      *)
THEOREM SpecSavedAcrossCalls == Spec => []SavedAcrossCalls
  <1>1. GraphInv => SavedAcrossCalls
    <2>. SUFFICES ASSUME GraphInv, pc = "done", NEW pl \in Places, At(pl).type = "INS",
                         NEW v \in Live(LiveIns, pl[1], pl[2] + 1), v # At(pl).value
                  PROVE  v \in alive[pl[1]][pl[2]]
      BY DEF SavedAcrossCalls
    <2>1. PICK b, i : pl = <<b, i>> /\ b \in Blocks /\ i \in DOMAIN code[b] /\ At(pl) = code[b][i]
      BY PlacesAre
    <2>2. v \in NodesOf(code) /\ LiveAt(func, code, LiveIn(func, code, v), v, b, i + 1)
      BY <2>1, LiveAre
    <2>3. AliveRight(func, code, alive)
      BY DEF GraphInv
    <2>. QED  BY <2>1, <2>2, <2>3 DEF AliveRight
  <1>. QED  BY <1>1, GraphInvariant, PTL

(* Nothing is marked alive where it is not live.                           *)
THEOREM SpecMarkedOnlyWhereLive == Spec => []MarkedOnlyWhereLive
  <1>1. GraphInv => MarkedOnlyWhereLive
    <2>. SUFFICES ASSUME GraphInv, pc = "done", NEW pl \in Places, NEW v \in alive[pl[1]][pl[2]]
                  PROVE  v \in Live(LiveIns, pl[1], pl[2])
      BY DEF MarkedOnlyWhereLive
    <2>1. PICK b, i : pl = <<b, i>> /\ b \in Blocks /\ i \in DOMAIN code[b]
      BY PlacesAre
    <2>2. AliveRight(func, code, alive)
      BY DEF GraphInv
    <2>. QED  BY <2>1, <2>2, LiveAre DEF AliveRight
  <1>. QED  BY <1>1, GraphInvariant, PTL
=============================================================================
