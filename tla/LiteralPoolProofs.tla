-------------------------- MODULE LiteralPoolProofs --------------------------
(***************************************************************************)
(* Every load of a global finds its label within reach, for a program of   *)
(* any length, as long as the window and the pool together fit into the    *)
(* reach of an LDR: 1000 instructions and 26 globals do, 27 globals do not *)
(* (the run of MCManyGlobals).                                             *)
(***************************************************************************)
EXTENDS LiteralPool, SequenceTheorems, TLAPS

(* The part of the state the walk changes, of the right shape. *)
Views == [count : Nat, id : Nat, load : Loads \cup {NoLoad}, labels : Seq(Nat)]

Pending(v) == v.load # NoLoad /\ v.labels = <<>>

(* What holds of the labels: the load is there before its label, the label *)
(* is within reach and belongs to a pool that is already placed.           *)
LabelsOK(v) == /\ v.load = NoLoad => v.labels = <<>>
               /\ Len(v.labels) <= 1
               /\ v.labels # <<>> => v.labels[1] - 8 <= Reach /\ v.load.pool < v.id

(* A load that waits for its label names the next pool, and at most n      *)
(* instructions were emitted since the load, itself included.              *)
Waits(v, n) == Pending(v) => /\ v.load.pool = v.id
                             /\ v.load.distance <= 4 * n

(* The invariant that is inductive: a load that waits is younger than the  *)
(* count, because the label of a block or the pool before it was counted,  *)
(* and the count has not reached the window.                               *)
PoolInv ==
  /\ phase \in {"outside", "block", "end"}
  /\ View \in Views
  /\ count <= Window + PoolSize
  /\ LabelsOK(View)
  /\ phase # "end" => Waits(View, count - 1) /\ (Pending(View) => count < Window)
  /\ phase = "block" /\ Loaded # {} => count >= 1
  /\ phase = "end" => ~Pending(View)

-----------------------------------------------------------------------------
(* More bytes behind the load: only its distance changes. *)
LEMMA GrownView ==
  ASSUME NEW v \in Views, NEW bytes \in Nat
  PROVE  /\ Grown(v, bytes) \in Views
         /\ Grown(v, bytes).count = v.count
         /\ Grown(v, bytes).id = v.id
         /\ Grown(v, bytes).labels = v.labels
         /\ v.load = NoLoad => Grown(v, bytes).load = NoLoad
         /\ v.load # NoLoad => /\ Grown(v, bytes).load # NoLoad
                               /\ Grown(v, bytes).load.pool = v.load.pool
                               /\ Grown(v, bytes).load.global = v.load.global
                               /\ Grown(v, bytes).load.distance = v.load.distance + bytes
<1>1. CASE v.load = NoLoad
  BY <1>1 DEF Grown, Views
<1>2. CASE v.load # NoLoad
  <2>1. v.load \in Loads /\ v.load.global \in 1 .. Globals
    BY <1>2, PoolAssumption DEF Views, Loads
  <2>2. Grown(v, bytes) = [v EXCEPT !.load = [v.load EXCEPT !.distance = @ + bytes]]
    BY <1>2 DEF Grown
  <2>3. [v.load EXCEPT !.distance = @ + bytes]
          = [global |-> v.load.global, pool |-> v.load.pool, distance |-> v.load.distance + bytes]
    BY <2>1 DEF Loads
  <2>4. [v.load EXCEPT !.distance = @ + bytes] \in Loads
    BY <2>1, <2>3 DEF Loads
  <2>5. [v.load EXCEPT !.distance = @ + bytes] # NoLoad
    BY <2>1, <2>3 DEF NoLoad
  <2> QED  BY <1>2, <2>1, <2>2, <2>3, <2>4, <2>5 DEF Views
<1> QED  BY <1>1, <1>2

(* A pool that some load needs is not empty. *)
LEMMA SizeOfPool == PoolSize \in Nat /\ (Loaded # {} => PoolSize >= 1)
<1>1. PoolSize \in Nat
  BY PoolAssumption DEF PoolSize
<1>2. ASSUME Loaded # {}  PROVE PoolSize >= 1
  <2>1. PICK global : global \in Loaded
    BY <1>2
  <2>2. Globals >= 1
    BY <2>1, PoolAssumption
  <2> QED  BY <2>2, PoolAssumption DEF PoolSize
<1> QED  BY <1>1, <1>2

(* A pool gives the load that waits its one label, within reach if the     *)
(* load is near enough, and changes nothing for any other.                 *)
LEMMA PoolView ==
  ASSUME 4 * (Window + Globals) <= Reach + 12,
         NEW v \in Views, LabelsOK(v), Waits(v, Window - 1)
  PROVE  /\ genGlobIns(v) \in Views
         /\ genGlobIns(v).count = v.count
         /\ LabelsOK(genGlobIns(v))
         /\ ~Pending(genGlobIns(v))
<1>1. CASE Globals = 0
  <2>1. v.load = NoLoad
    <3> SUFFICES ASSUME v.load # NoLoad  PROVE FALSE
      OBVIOUS
    <3>1. v.load \in Loads
      BY DEF Views
    <3>2. v.load.global \in Loaded
      BY <3>1 DEF Loads
    <3>3. v.load.global \in 1 .. Globals
      BY <3>2, PoolAssumption
    <3> QED  BY <1>1, <3>3
  <2> QED  BY <1>1, <2>1 DEF genGlobIns, Pending
<1>2. CASE Globals # 0
  <2> DEFINE g == Grown(v, PoolBytes)
             more == IF v.load # NoLoad /\ v.load.pool = v.id
                       THEN Append(v.labels, v.load.distance + WordAt(v.load.global))
                       ELSE v.labels
  <2>1. PoolBytes \in Nat
    BY PoolAssumption DEF PoolBytes
  <2>2. /\ g \in Views
        /\ g.count = v.count
        /\ g.id = v.id
        /\ g.labels = v.labels
        /\ (g.load = NoLoad) <=> (v.load = NoLoad)
        /\ v.load # NoLoad => g.load.pool = v.load.pool
    BY <2>1, GrownView
  <2>3. genGlobIns(v) = [g EXCEPT !.id = @ + 1, !.labels = more]
    BY <1>2, <2>2 DEF genGlobIns
  <2> HIDE DEF g
  <2>4. /\ v.id \in Nat /\ v.labels \in Seq(Nat)
        /\ v.load # NoLoad => /\ v.load \in Loads
                              /\ v.load.pool \in Nat
                              /\ v.load.distance \in Nat
                              /\ v.load.global \in 1 .. Globals
                              /\ WordAt(v.load.global) \in Nat
                              /\ WordAt(v.load.global) <= 4 + 4 * (Globals - 1)
    <3>1. v.id \in Nat /\ v.labels \in Seq(Nat) /\ v.load \in Loads \cup {NoLoad}
      BY DEF Views
    <3> SUFFICES ASSUME v.load # NoLoad
                 PROVE  /\ v.load \in Loads
                        /\ v.load.pool \in Nat
                        /\ v.load.distance \in Nat
                        /\ v.load.global \in 1 .. Globals
                        /\ WordAt(v.load.global) \in Nat
                        /\ WordAt(v.load.global) <= 4 + 4 * (Globals - 1)
      BY <3>1
    <3>2. v.load \in Loads
      BY <3>1
    <3>3. v.load.pool \in Nat /\ v.load.distance \in Nat /\ v.load.global \in Loaded
      BY <3>2 DEF Loads
    <3>4. v.load.global \in 1 .. Globals
      BY <3>3, PoolAssumption
    <3> QED  BY <3>2, <3>3, <3>4, PoolAssumption DEF WordAt
  <2>5. more \in Seq(Nat)
    BY <2>4
  <2> HIDE DEF more
  <2>6. genGlobIns(v) = [count |-> v.count, id |-> v.id + 1, load |-> g.load, labels |-> more]
    BY <2>2, <2>3, <2>5 DEF Views
  <2>7. /\ genGlobIns(v).id = v.id + 1
        /\ genGlobIns(v).labels = more
        /\ genGlobIns(v).load = g.load
        /\ genGlobIns(v).count = v.count
    BY <2>6
  <2>8. genGlobIns(v) \in Views
    <3>1. v.id + 1 \in Nat
      BY <2>4
    <3>2. g.load \in Loads \cup {NoLoad} /\ v.count \in Nat
      BY <2>2 DEF Views
    <3> QED  BY <2>5, <2>6, <3>1, <3>2 DEF Views
  <2>9. CASE Pending(v)
    <3>1. /\ v.load # NoLoad
          /\ v.labels = <<>>
          /\ v.load.pool = v.id
          /\ v.load.distance <= 4 * (Window - 1)
      BY <2>9 DEF Pending, Waits
    <3>2. more = <<v.load.distance + WordAt(v.load.global)>>
      BY <2>4, <3>1 DEF more
    <3>3. more # <<>> /\ Len(more) = 1 /\ more[1] = v.load.distance + WordAt(v.load.global)
      BY <3>2
    <3>4. (v.load.distance + WordAt(v.load.global)) - 8 <= Reach
      BY <2>4, <3>1, PoolAssumption
    <3>5. g.load # NoLoad /\ g.load.pool < v.id + 1
      BY <2>2, <2>4, <3>1
    <3>6. LabelsOK(genGlobIns(v))
      <4>1. genGlobIns(v).load # NoLoad /\ Len(genGlobIns(v).labels) <= 1
        BY <2>7, <3>3, <3>5
      <4> DEFINE placed == genGlobIns(v).labels
      <4>2. placed = more
        BY <2>7
      <4> HIDE DEF placed
      <4>3. genGlobIns(v).load.pool < genGlobIns(v).id
        BY <2>7, <3>5
      <4>4. placed[1] - 8 <= Reach
        BY <3>3, <3>4, <4>2
      <4> QED  BY <4>1, <4>3, <4>4 DEF LabelsOK, placed
    <3>7. ~Pending(genGlobIns(v))
      BY <2>7, <3>3 DEF Pending
    <3> QED  BY <2>7, <2>8, <3>6, <3>7
  <2>10. CASE ~Pending(v)
    <3>1. v.load # NoLoad => v.load.pool < v.id
      BY <2>10 DEF Pending, LabelsOK
    <3>2. more = v.labels
      BY <2>4, <3>1 DEF more
    <3>3. v.load # NoLoad => g.load.pool < v.id + 1
      BY <2>2, <2>4, <3>1
    <3>4. LabelsOK(genGlobIns(v))
      BY <2>2, <2>7, <3>2, <3>3 DEF LabelsOK
    <3>5. ~Pending(genGlobIns(v))
      BY <2>2, <2>7, <2>10, <3>2 DEF Pending
    <3> QED  BY <2>7, <2>8, <3>4, <3>5
  <2> QED  BY <2>9, <2>10
<1> QED  BY <1>1, <1>2

(* Counting one more element, with a pool if one is due, keeps a load that *)
(* waits below the count and below the window.                             *)
LEMMA CountedView ==
  ASSUME 4 * (Window + Globals) <= Reach + 12,
         NEW v \in Views, NEW bytes \in {0, 4}, LabelsOK(v),
         Waits(v, v.count - 1), Waits(v, Window - 2)
  PROVE  /\ Counted(v, bytes) \in Views
         /\ Counted(v, bytes).count <= Window + PoolSize
         /\ LabelsOK(Counted(v, bytes))
         /\ Waits(Counted(v, bytes), Counted(v, bytes).count - 1)
         /\ Pending(Counted(v, bytes)) => Counted(v, bytes).count < Window
         /\ Loaded # {} => Counted(v, bytes).count >= 1
<1> DEFINE g == Grown(v, bytes)
           u == [g EXCEPT !.count = @ + 1]
<1>1. /\ v.count \in Nat /\ v.id \in Nat /\ v.labels \in Seq(Nat)
      /\ v.load \in Loads \cup {NoLoad}
      /\ bytes \in Nat /\ bytes <= 4
  BY DEF Views
<1>2. /\ g \in Views
      /\ g.count = v.count
      /\ g.id = v.id
      /\ g.labels = v.labels
      /\ (g.load = NoLoad) <=> (v.load = NoLoad)
      /\ v.load # NoLoad => /\ g.load.pool = v.load.pool
                            /\ g.load.distance = v.load.distance + bytes
  BY <1>1, GrownView
<1>3. Counted(v, bytes) = PoolIfDue(u)
  BY DEF Counted
<1> HIDE DEF g
<1>4. /\ u \in Views
      /\ u.count = v.count + 1
      /\ u.id = v.id
      /\ u.labels = v.labels
      /\ u.load = g.load
  BY <1>1, <1>2 DEF Views
<1> HIDE DEF u
<1>5. Pending(u) <=> Pending(v)
  BY <1>2, <1>4 DEF Pending
<1>6. LabelsOK(u)
  <2>1. v.labels # <<>> => u.load.pool < u.id
    BY <1>2, <1>4 DEF LabelsOK
  <2> QED  BY <1>2, <1>4, <2>1 DEF LabelsOK
<1>7. Waits(u, u.count - 1) /\ Waits(u, Window - 1)
  <2> SUFFICES ASSUME Pending(u)
               PROVE  /\ u.load.pool = u.id
                      /\ u.load.distance <= 4 * (u.count - 1)
                      /\ u.load.distance <= 4 * (Window - 1)
    BY DEF Waits
  <2>1. /\ v.load.pool = v.id
        /\ v.load.distance <= 4 * (v.count - 1)
        /\ v.load.distance <= 4 * (Window - 2)
    BY <1>5 DEF Waits
  <2>2. v.load \in Loads /\ v.load.distance \in Nat
    BY <1>1, <1>5 DEF Pending, Loads
  <2>3. u.load.pool = v.load.pool /\ u.load.distance = v.load.distance + bytes
    BY <1>2, <1>4, <1>5 DEF Pending
  <2> QED  BY <1>1, <1>4, <2>1, <2>2, <2>3, PoolAssumption
<1>8. CASE Due(u)
  <2> DEFINE p == genGlobIns(u)
  <2>1. p \in Views /\ LabelsOK(p) /\ ~Pending(p)
    BY <1>4, <1>6, <1>7, PoolView
  <2>2. Counted(v, bytes) = [p EXCEPT !.count = PoolSize]
    BY <1>3, <1>8 DEF PoolIfDue, CountedPool
  <2> HIDE DEF p
  <2>3. PoolSize \in Nat /\ (Loaded # {} => PoolSize >= 1)
    BY SizeOfPool
  <2>4. /\ Counted(v, bytes) \in Views
        /\ Counted(v, bytes).count = PoolSize
        /\ Counted(v, bytes).id = p.id
        /\ Counted(v, bytes).labels = p.labels
        /\ Counted(v, bytes).load = p.load
    BY <2>1, <2>2, <2>3 DEF Views
  <2>5. LabelsOK(Counted(v, bytes)) /\ ~Pending(Counted(v, bytes))
    BY <2>1, <2>4 DEF LabelsOK, Pending
  <2> QED  BY <2>3, <2>4, <2>5, PoolAssumption DEF Waits
<1>9. CASE ~Due(u)
  <2>1. Counted(v, bytes) = u
    BY <1>3, <1>9 DEF PoolIfDue
  <2>2. u.count < Window /\ u.count >= 1 /\ PoolSize \in Nat
    BY <1>1, <1>4, <1>9, PoolAssumption DEF Due, PoolSize
  <2> QED  BY <1>1, <1>4, <1>6, <1>7, <2>1, <2>2, PoolAssumption
<1> QED  BY <1>8, <1>9

-----------------------------------------------------------------------------
(* The invariant holds at the start and every step keeps it. *)
LEMMA InitPoolInv == Init => PoolInv
<1> SUFFICES ASSUME Init  PROVE PoolInv
  OBVIOUS
<1>1. View = [count |-> 0, id |-> 0, load |-> NoLoad, labels |-> <<>>]
  BY DEF Init, View
<1>2. View \in Views
  BY <1>1 DEF Views
<1>3. LabelsOK(View) /\ ~Pending(View)
  BY <1>1 DEF LabelsOK, Pending
<1>4. count <= Window + PoolSize
  BY SizeOfPool, PoolAssumption DEF Init
<1> QED  BY <1>2, <1>3, <1>4 DEF Init, PoolInv, Waits

(* A step that becomes a view of the right shape has that view next. *)
LEMMA BecomeView ==
  ASSUME NEW v \in Views, Become(v)
  PROVE  View' = v /\ count' = v.count
BY DEF Become, View, Views

LEMMA NextPoolInv ==
  ASSUME 4 * (Window + Globals) <= Reach + 12
  PROVE  PoolInv /\ [Next]_vars => PoolInv'
<1> SUFFICES ASSUME PoolInv, [Next]_vars  PROVE PoolInv'
  OBVIOUS
<1>1. /\ View \in Views /\ View.count = count /\ View.id = const_pool_id
      /\ View.load = load /\ View.labels = labels
      /\ count \in Nat /\ const_pool_id \in Nat
      /\ LabelsOK(View)
  BY DEF PoolInv, View, Views
<1>2. ASSUME phase # "end"
      PROVE  Waits(View, count - 1) /\ Waits(View, Window - 2)
  <2>1. Waits(View, count - 1) /\ (Pending(View) => count < Window)
    BY <1>2 DEF PoolInv
  <2>2. Pending(View) => load.distance \in Nat
    BY <1>1 DEF Pending, Views, Loads
  <2> QED  BY <1>1, <2>1, <2>2, PoolAssumption DEF Waits
<1>3. ASSUME NEW v \in Views, NEW bytes \in {0, 4}, LabelsOK(v),
             Waits(v, v.count - 1), Waits(v, Window - 2),
             Become(Counted(v, bytes)), phase' = "block"
      PROVE  PoolInv'
  <2>1. /\ Counted(v, bytes) \in Views
        /\ Counted(v, bytes).count <= Window + PoolSize
        /\ LabelsOK(Counted(v, bytes))
        /\ Waits(Counted(v, bytes), Counted(v, bytes).count - 1)
        /\ Pending(Counted(v, bytes)) => Counted(v, bytes).count < Window
        /\ Loaded # {} => Counted(v, bytes).count >= 1
    BY <1>3, CountedView
  <2>2. View' = Counted(v, bytes) /\ count' = Counted(v, bytes).count
    BY <1>3, <2>1, BecomeView
  <2>3. LabelsOK(View') /\ Waits(View', count' - 1) /\ (Pending(View') => count' < Window)
    BY <2>1, <2>2
  <2> QED  BY <1>3, <2>1, <2>2, <2>3 DEF PoolInv, LabelsOK, Waits, Pending
<1>4. CASE BeginBlock
  BY <1>1, <1>2, <1>3, <1>4 DEF BeginBlock
<1>5. CASE Instruction
  BY <1>1, <1>2, <1>3, <1>5 DEF Instruction
<1>6. ASSUME NEW global \in Loaded, PseudoLoad(global)  PROVE PoolInv'
  <2> DEFINE new == [global |-> global, pool |-> const_pool_id, distance |-> 0]
             v == [View EXCEPT !.load = new]
  <2>1. phase = "block" /\ phase' = "block" /\ load = NoLoad /\ Become(Counted(v, 4))
    BY <1>6 DEF PseudoLoad
  <2>2. new \in Loads
    BY <1>1 DEF Loads
  <2>3. new.pool = const_pool_id /\ new.distance = 0
    OBVIOUS
  <2>4. new # NoLoad
    <3>1. global >= 1 /\ new.global = global /\ NoLoad.global = 0
      BY PoolAssumption DEF NoLoad
    <3> QED  BY <3>1
  <2> HIDE DEF new
  <2>5. /\ v \in Views
        /\ v.count = count
        /\ v.id = const_pool_id
        /\ v.labels = labels
        /\ v.load = new
    BY <1>1, <2>2 DEF Views
  <2> HIDE DEF v
  <2>6. labels = <<>>
    BY <1>1, <2>1 DEF LabelsOK
  <2>7. LabelsOK(v)
    BY <2>4, <2>5, <2>6 DEF LabelsOK
  <2>8. count >= 1
    BY <2>1 DEF PoolInv
  <2>9. Waits(v, v.count - 1) /\ Waits(v, Window - 2)
    BY <1>1, <2>3, <2>5, <2>8, PoolAssumption DEF Waits
  <2> QED  BY <1>3, <2>1, <2>5, <2>7, <2>9
<1>7. CASE EndBlock
  <2> DEFINE v == PoolIfDue(View)
             w == BlockPool(v)
  <2>1. phase = "block" /\ phase' = "outside" /\ Become(w)
    BY <1>7 DEF EndBlock
  <2>2. Waits(View, count - 1) /\ Waits(View, Window - 2) /\ Waits(View, Window - 1)
    <3>1. Waits(View, count - 1) /\ Waits(View, Window - 2)
      BY <1>2, <2>1
    <3>2. Pending(View) => load.distance \in Nat
      BY <1>1 DEF Pending, Views, Loads
    <3> QED  BY <1>1, <3>1, <3>2, PoolAssumption DEF Waits
  <2>3. PoolSize \in Nat /\ Window \in Nat
    BY SizeOfPool, PoolAssumption
  <2>4. /\ v \in Views /\ LabelsOK(v)
        /\ v.count <= Window + PoolSize
        /\ Waits(v, v.count - 1) /\ Waits(v, Window - 1)
        /\ Pending(v) => v.count < Window
    <3>1. CASE Due(View)
      <4> DEFINE p == genGlobIns(View)
      <4>1. p \in Views /\ LabelsOK(p) /\ ~Pending(p)
        BY <1>1, <2>2, PoolView
      <4>2. v = [p EXCEPT !.count = PoolSize]
        BY <3>1 DEF PoolIfDue, CountedPool
      <4> HIDE DEF p, v
      <4>3. /\ v \in Views /\ v.count = PoolSize /\ v.id = p.id
            /\ v.labels = p.labels /\ v.load = p.load
        BY <2>3, <4>1, <4>2 DEF Views
      <4>4. LabelsOK(v) /\ ~Pending(v)
        BY <4>1, <4>3 DEF LabelsOK, Pending
      <4> QED  BY <2>3, <4>3, <4>4 DEF Waits
    <3>2. CASE ~Due(View)
      <4>1. v = View
        BY <3>2 DEF PoolIfDue
      <4>2. count <= Window + PoolSize /\ (Pending(View) => count < Window)
        BY <2>1 DEF PoolInv
      <4> QED  BY <1>1, <2>2, <4>1, <4>2
    <3> QED  BY <3>1, <3>2
  <2> HIDE DEF v
  <2>5. CASE OptimizeMachineIr
    <3>1. w = v
      BY <2>5 DEF BlockPool
    <3>2. View' = v /\ count' = v.count
      BY <2>1, <2>4, <3>1, BecomeView
    <3>3. LabelsOK(View') /\ Waits(View', count' - 1) /\ (Pending(View') => count' < Window)
      BY <2>4, <3>2
    <3> QED  BY <2>1, <2>4, <3>2, <3>3 DEF PoolInv, LabelsOK, Waits, Pending
  <2>6. CASE ~OptimizeMachineIr
    <3> DEFINE p == genGlobIns(v)
    <3>1. p \in Views /\ LabelsOK(p) /\ ~Pending(p)
      BY <2>4, PoolView
    <3>2. w = [p EXCEPT !.count = 0]
      BY <2>6 DEF BlockPool
    <3> HIDE DEF p, w
    <3>3. /\ w \in Views /\ w.count = 0 /\ w.id = p.id
          /\ w.labels = p.labels /\ w.load = p.load
      BY <3>1, <3>2 DEF Views
    <3>4. LabelsOK(w) /\ ~Pending(w)
      BY <3>1, <3>3 DEF LabelsOK, Pending
    <3>5. View' = w /\ count' = 0
      BY <2>1, <3>3, BecomeView
    <3>6. LabelsOK(View') /\ ~Pending(View')
      BY <3>4, <3>5
    <3> QED  BY <2>1, <2>3, <3>3, <3>5, <3>6 DEF PoolInv, LabelsOK, Waits, Pending
  <2> QED  BY <2>5, <2>6
<1>8. CASE EndModule
  <2> DEFINE p == genGlobIns(View)
             w == [p EXCEPT !.count = 0]
  <2>1. phase = "outside" /\ phase' = "end" /\ Become(w)
    BY <1>8 DEF EndModule
  <2>2. Waits(View, Window - 1)
    <3>1. Waits(View, Window - 2)
      BY <1>2, <2>1
    <3>2. Pending(View) => load.distance \in Nat
      BY <1>1 DEF Pending, Views, Loads
    <3> QED  BY <1>1, <3>1, <3>2, PoolAssumption DEF Waits
  <2>3. p \in Views /\ LabelsOK(p) /\ ~Pending(p)
    BY <1>1, <2>2, PoolView
  <2> HIDE DEF p
  <2>4. /\ w \in Views /\ w.count = 0 /\ w.id = p.id
        /\ w.labels = p.labels /\ w.load = p.load
    BY <2>3 DEF Views
  <2> HIDE DEF w
  <2>5. LabelsOK(w) /\ ~Pending(w)
    BY <2>3, <2>4 DEF LabelsOK, Pending
  <2>6. View' = w /\ count' = 0
    BY <2>1, <2>4, BecomeView
  <2>7. LabelsOK(View') /\ ~Pending(View')
    BY <2>5, <2>6
  <2>8. PoolSize \in Nat /\ Window \in Nat
    BY SizeOfPool, PoolAssumption
  <2> QED  BY <2>1, <2>4, <2>6, <2>7, <2>8 DEF PoolInv, LabelsOK, Waits, Pending
<1>9. CASE UNCHANGED vars
  BY <1>9 DEF vars, PoolInv, View, LabelsOK, Waits, Pending
<1> QED  BY <1>4, <1>5, <1>6, <1>7, <1>8, <1>9 DEF Next

-----------------------------------------------------------------------------
(* buildMachineModule places every pool near enough: with a window and a   *)
(* number of globals that fit into the reach of LDR, no load of any        *)
(* program, however long, is further from its word than the load can tell. *)
THEOREM LoadsReachTheirWords ==
  ASSUME 4 * (Window + Globals) <= Reach + 12
  PROVE  Spec => []InReach
<1>1. Init => PoolInv
  BY InitPoolInv
<1>2. PoolInv /\ [Next]_vars => PoolInv'
  BY NextPoolInv
<1>3. PoolInv => InReach
  <2> SUFFICES ASSUME PoolInv, NEW i \in DOMAIN labels  PROVE labels[i] - 8 <= Reach
    BY DEF InReach
  <2>1. labels \in Seq(Nat) /\ Len(labels) <= 1 /\ (labels # <<>> => labels[1] - 8 <= Reach)
    BY DEF PoolInv, View, Views, LabelsOK
  <2>2. i = 1 /\ labels # <<>>
    BY <2>1
  <2> QED  BY <2>1, <2>2
<1> QED  BY <1>1, <1>2, <1>3, PTL DEF Spec

(* The numbers of the code: a pool is due after 1000 instructions, and     *)
(* the offset of an LDR is at most 4095.                                   *)
COROLLARY TwentySixGlobalsFit ==
  ASSUME Window = 1000, Reach = 4095, Globals <= 26
  PROVE  Spec => []InReach
<1>1. 4 * (Window + Globals) <= Reach + 12
  BY PoolAssumption
<1> QED  BY <1>1, LoadsReachTheirWords

(* Under the same condition the walk keeps its count within a window and a *)
(* pool, and the label a load names is defined exactly once, by the first  *)
(* pool after the load.                                                    *)
THEOREM LoadsAreDefinedOnce ==
  ASSUME 4 * (Window + Globals) <= Reach + 12
  PROVE  Spec => [](TypeOK /\ DefinedOnce)
<1>1. Init => PoolInv
  BY InitPoolInv
<1>2. PoolInv /\ [Next]_vars => PoolInv'
  BY NextPoolInv
<1>3. PoolInv => TypeOK
  <2>1. PoolSize \in Nat /\ Window \in Nat
    BY SizeOfPool, PoolAssumption
  <2> QED  BY <2>1 DEF PoolInv, View, Views, TypeOK
<1>4. PoolInv => DefinedOnce
  <2> SUFFICES ASSUME PoolInv  PROVE DefinedOnce
    OBVIOUS
  <2>1. labels \in Seq(Nat) /\ Len(labels) <= 1
    BY DEF PoolInv, View, Views, LabelsOK
  <2>2. phase = "end" /\ load # NoLoad => labels # <<>>
    BY DEF PoolInv, View, Pending
  <2>3. \A seq \in Seq(Nat) : seq # <<>> => Len(seq) \in Nat \ {0}
    BY EmptySeq, Zenon
  <2>4. labels # <<>> => Len(labels) \in Nat \ {0}
    BY <2>1, <2>3, Zenon
  <2>5. labels # <<>> => Len(labels) = 1
    <3> DEFINE n == Len(labels)
    <3>1. n <= 1 /\ (labels # <<>> => n \in Nat \ {0})
      BY <2>1, <2>4
    <3> HIDE DEF n
    <3>2. labels # <<>> => n = 1
      BY <3>1
    <3> QED  BY <3>2 DEF n
  <2> QED  BY <2>1, <2>2, <2>5 DEF DefinedOnce
<1> QED  BY <1>1, <1>2, <1>3, <1>4, PTL DEF Spec
=============================================================================
