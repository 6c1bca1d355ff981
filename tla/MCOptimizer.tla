---------------------------- MODULE MCOptimizer ----------------------------
(* Functions for the optimiser, in families: straight code, calls,         *)
(* branches, loops, arrays and a global.                                   *)
EXTENDS Optimizer

(* A function is given by its blocks, each a sequence of phis (operands by *)
(* block) and one of instructions.  Instruction k of block b is V(b, k),   *)
(* its phi k is Phi(b, k).                                                 *)
V(b, k) == 20 * b + k
Phi(b, k) == 20 * b + 10 + k

I(kind, op, args, to) == [kind |-> kind, op |-> op, args |-> args, to |-> to]
Bin(op, a, b) == I("binary", op, <<a, b>>, <<>>)
Un(op, a) == I("unary", op, <<a>>, <<>>)
Cmp(op, a, b) == I("cmp", op, <<a, b>>, <<>>)
GetInt == I("invoke", "getint", <<>>, <<>>)
PutInt(a) == I("invoke", "putint", <<a>>, <<>>)
Pure(a) == I("invoke", "pure", <<a>>, <<>>)
Load(a, off) == I("load", "", <<a, off>>, <<>>)
Store(v, a, off) == I("store", "", <<v, a, off>>, <<>>)
Alloc == I("alloc", "", <<>>, <<>>)
Br(c, t, f) == I("br", "", <<c>>, <<t, f>>)
Jmp(t) == I("jmp", "", <<>>, <<t>>)
Ret(v) == I("ret", "", <<v>>, <<>>)

B(ins) == [phis |-> <<>>, ins |-> ins]
BPhi(phis, ins) == [phis |-> phis, ins |-> ins]

NoValue(i) == i.kind \in {"br", "jmp", "ret", "store", "alloc", "phi"} \/ i.op = "putint"

(* Values that are used once, in their block, are right values if temps    *)
(* (an expression inside another), variables otherwise.                    *)
Function(blocks, temps, up) ==
  LET ins == UNION {{V(b, k) : k \in DOMAIN blocks[b].ins} : b \in DOMAIN blocks}
      phis == UNION {{Phi(b, k) : k \in DOMAIN blocks[b].phis} : b \in DOMAIN blocks}
      of(v) == IF v \in ins THEN blocks[v \div 20].ins[v % 20]
               ELSE I("phi", "", blocks[v \div 20].phis[(v % 20) - 10], <<>>)
      readers(v) == {p \in UNION {{<<u, i>> : i \in DOMAIN of(u).args} : u \in ins \cup phis} :
                       of(p[1]).args[p[2]] = v}
      once(v) == \E u \in ins : u \div 20 = v \div 20 /\ \E i \in 1 .. 3 : readers(v) = {<<u, i>>}
      result(v) == IF v \in phis THEN "L"
                   ELSE IF NoValue(of(v)) THEN "other"
                   ELSE IF of(v).kind = "cmp" \/ (temps /\ once(v)) THEN "R" ELSE "L"
  IN  [order |-> [b \in DOMAIN blocks |-> b],
       bb |-> [b \in DOMAIN blocks |->
                 [ins |-> [k \in DOMAIN blocks[b].ins |-> V(b, k)],
                  phis |-> {Phi(b, k) : k \in DOMAIN blocks[b].phis}, valid |-> TRUE]],
       edges |-> UNION {{<<b, c>> : c \in Range(Last(blocks[b].ins).to)} : b \in DOMAIN blocks},
       val |-> [v \in ins \cup phis |->
                  [kind |-> of(v).kind, op |-> of(v).op, args |-> of(v).args, blk |-> v \div 20,
                   res |-> result(v), valid |-> TRUE, to |-> of(v).to]],
       uses |-> UNION {{<<x, v>> : x \in Range(of(v).args)} : v \in ins \cup phis},
       arrays |-> <<>>,
       up |-> up]

-----------------------------------------------------------------------------
X == V(1, 1)   \* what block 1 reads first
Y == V(1, 2)
Z == V(1, 3)
Atoms == {X, Parameter, Number(0), Number(1), Number(-1)}

(* x = getint(); y = <e1>; z = <e2>; return z;                             *)
First ==
  {Bin(op, a, b) : op \in {"+", "-", "*"}, a \in Atoms, b \in Atoms}
    \cup {Bin(op, a, Number(n)) : op \in {"/", "%"}, a \in {X, Number(1)}, n \in {1, 2}}
    \cup {Bin(op, X, X) : op \in {"-", "+"}} \cup {Un("-", a) : a \in Atoms} \cup {Un("+", X)}

Second == {Bin(op, Y, b) : op \in {"+", "-", "*"}, b \in {X, Number(1), Number(-1)}}
            \cup {Bin("-", a, Y) : a \in {X, Number(0)}} \cup {Un("-", Y)}

Straight == {<<B(<<GetInt, e1, e2, Ret(Z)>>)>> : e1 \in First, e2 \in Second}

(* y = <e1>; return y <op> y;  Not where e1 becomes the negation of the    *)
(* parameter: the right value that takes the place of y is read twice.     *)
Negations == {Bin("-", Number(0), Parameter), Bin("*", Number(-1), Parameter), Bin("*", Parameter, Number(-1))}
Square(e) == <<B(<<GetInt, e, Bin("*", Y, Y), Ret(Z)>>)>>
Squares == {Square(e) : e \in First \ Negations}

(* The same expression twice, in different orders of the operands.         *)
Repeated ==
  {<<B(<<GetInt, Bin(op, X, Parameter), Bin(op, a, b), Bin("+", Y, Z), PutInt(Z), Ret(V(1, 4))>>)>> :
     op \in {"+", "-"}, a \in {X, Parameter}, b \in {X, Parameter, Number(1)}}

(* Calls whose results are used, or not.                                   *)
Calls ==
  {<<B(<<GetInt, Pure(X), Pure(a), PutInt(b), GetInt, Ret(r)>>)>> :
     a \in {X, Y}, b \in {X, Z}, r \in {X, V(1, 5)}}

-----------------------------------------------------------------------------
Conditions == {<<Number(0)>>, <<Number(1)>>, <<X>>, <<Y, Cmp("<", Parameter, X)>>,
               <<Y, Cmp(">=", Number(1), X)>>, <<Y, Un("!", X)>>}

Head1(c, t, f) == <<GetInt>> \o Tail(c) \o <<Br(Head(c), t, f)>>

(* if (c) x = <e2>; else x = <e3>; and one arm may return.                 *)
Arms == {<<Bin("+", X, Parameter)>>, <<Bin("*", X, Number(2)), Pure(V(2, 1))>>}

IfElse ==
  {<<B(Head1(c, 2, 3)), B(arm \o <<Jmp(4)>>), B(<<Bin(op, X, Parameter), Jmp(4)>>),
     BPhi(<<2 :> x @@ 3 :> y>>, <<Bin("+", Phi(4, 1), X), Ret(V(4, 1))>>)>> :
     c \in Conditions, arm \in Arms, op \in {"+", "-"}, x \in {V(2, 1), X}, y \in {V(3, 1), Parameter}}

If ==
  {<<B(Head1(c, 2, 3)), B(<<Bin("+", X, Number(1)), PutInt(V(2, 1)), GetInt, last>>),
     IF last = Jmp(3) THEN BPhi(<<1 :> X @@ 2 :> V(2, 1)>>, <<Ret(Phi(3, 1))>>)
     ELSE B(<<Ret(X)>>)>> :
     c \in Conditions, last \in {Jmp(3), Ret(V(2, 1))}}

(* if (c) { if (d) x = <e2>; } return x;                                   *)
IfIf ==
  {<<B(Head1(c, 2, 5)), B(<<Bin("+", X, Number(1)), Br(d, 3, 4)>>),
     B(<<PutInt(V(2, 1)), Bin("*", X, Parameter), Jmp(4)>>),
     BPhi(<<2 :> V(2, 1) @@ 3 :> V(3, 2)>>, <<Jmp(5)>>),
     BPhi(<<1 :> X @@ 4 :> Phi(4, 1)>>, <<Ret(Phi(5, 1))>>)>> :
     c \in Conditions, d \in {Number(0), Number(1), X}}

(* while (c) { i = i + 1; if (i > n) break; } return i;                    *)
Break ==
  {<<B(<<GetInt, Jmp(2)>>),
     BPhi(<<1 :> X @@ 5 :> V(3, 1)>>, <<Br(c, 3, 6)>>),
     B(<<Bin("+", Phi(2, 1), Number(1)), e, Cmp(">", V(3, 1), V(3, 2)), Br(V(3, 3), 4, 5)>>),
     B(<<Jmp(6)>>), B(<<Jmp(2)>>),
     BPhi(<<2 :> Phi(2, 1) @@ 4 :> V(3, 1)>>, <<Ret(Phi(6, 1))>>)>> :
     c \in {Number(0), Number(1), Phi(2, 1)}, e \in {Bin("*", X, Parameter), Bin("+", Parameter, Number(0))}}

(* if (c) while (i < n) i = i + <step>;                                    *)
LoopInArm ==
  {<<B(Head1(c, 2, 5)), B(<<Bin("+", X, Number(1)), Jmp(3)>>),
     BPhi(<<2 :> start @@ 4 :> V(4, 1)>>, <<Cmp("<", Phi(3, 1), limit), Br(V(3, 1), 4, 5)>>),
     B(<<Bin("+", Phi(3, 1), Number(1)), body, Jmp(3)>>),
     BPhi(<<1 :> X @@ 3 :> Phi(3, 1)>>, <<Ret(Phi(5, 1))>>)>> :
     c \in Conditions, start \in {X, V(2, 1)}, limit \in {Parameter, Number(0)},
     body \in {PutInt(V(4, 1)), Bin("*", X, Parameter)}}

(* i and s in a loop in a loop; <e> and <g> may be invariant.              *)
Nested ==
  {<<B(<<GetInt, Jmp(2)>>),
     BPhi(<<1 :> X @@ 6 :> V(6, 1), 1 :> Number(0) @@ 6 :> Phi(4, 2)>>,
          <<Cmp("<", Phi(2, 1), Parameter), Br(V(2, 1), 3, 7)>>),
     B(<<Jmp(4)>>),
     BPhi(<<3 :> Number(0) @@ 5 :> V(5, 1), 3 :> Phi(2, 2) @@ 5 :> V(5, 4)>>,
          <<Cmp("<", Phi(4, 1), Number(2)), Br(V(4, 1), 5, 6)>>),
     B(<<Bin("+", Phi(4, 1), Number(1)), e, g, Bin("+", Phi(4, 2), V(5, 3)), Jmp(4)>>),
     B(<<Bin("+", Phi(2, 1), Number(1)), Jmp(2)>>),
     B(<<Ret(Phi(2, 2))>>)>> :
     e \in {Bin("*", X, Parameter), Bin("*", Phi(2, 1), Parameter), Bin("-", X, Phi(4, 1))},
     g \in {Bin("+", V(5, 2), Parameter), Bin("*", V(5, 2), Phi(2, 1)), Un("-", V(5, 2))}}

(* while (i < 3) { if (i == x) { i = i + 1; continue; } i = i + 2; }       *)
Continue ==
  {<<B(<<GetInt, Jmp(2)>>),
     BPhi(<<1 :> start @@ 4 :> again @@ 5 :> V(5, 1)>>, <<Cmp("<", Phi(2, 1), Number(3)), Br(V(2, 1), 3, 6)>>),
     B(<<e, Cmp("==", Phi(2, 1), V(3, 1)), Br(V(3, 2), 4, 5)>>),
     B(<<Bin("+", Phi(2, 1), Number(1)), Jmp(2)>>),
     B(<<Bin("+", Phi(2, 1), Number(2)), Jmp(2)>>),
     B(<<Ret(Phi(2, 1))>>)>> :
     again \in {V(4, 1), X}, start \in {X, Number(0)}, e \in {Bin("*", X, Parameter), Bin("-", Phi(2, 1), X)}}

-----------------------------------------------------------------------------
(* int a[2] = {7, 8}; x = getint(); ... return a[i] + a[j];                *)
A == V(1, 1)
N == V(1, 4)
Array == <<Alloc, Store(Number(7), A, Number(0)), Store(Number(8), A, Number(1)), GetInt>>

Uses == {Store(N, A, Number(0)), Store(Number(9), A, Number(0)), Load(A, Number(0)), Load(A, N),
         Bin("+", N, Number(1))}

Arrays ==
  {<<B(Array \o <<u, w, Load(A, off), Bin("+", V(1, 7), IF u.kind = "load" THEN V(1, 5) ELSE N), Ret(V(1, 8))>>)>> :
     u \in Uses, w \in Uses, off \in {Number(0), N}}

(* An element is stored in an arm, where the index is not known.           *)
ArrayInArm ==
  {<<B(Array \o <<Cmp("<", N, Parameter), Br(V(1, 5), 2, 3)>>),
     B(<<s, Jmp(3)>>),
     B(<<Load(A, off), Load(A, Number(1)), Bin("+", V(3, 1), V(3, 2)), Ret(V(3, 3))>>)>> :
     s \in {Store(N, A, N), Store(N, A, Number(1)), PutInt(N)}, off \in {Number(0), N}}

(* An array read and written in a loop.                                    *)
ArrayInLoop ==
  {<<B(Array \o <<Jmp(2)>>),
     BPhi(<<1 :> Number(0) @@ 3 :> V(3, 1)>>, <<Cmp("<", Phi(2, 1), Number(2)), Br(V(2, 1), 3, 4)>>),
     B(<<Bin("+", Phi(2, 1), Number(1)), Load(A, Phi(2, 1)), s, Jmp(2)>>),
     B(<<Load(A, Number(0)), Ret(V(4, 1))>>)>> :
     s \in {Store(N, A, Phi(2, 1)), Store(N, A, Number(0)), PutInt(V(3, 2))}}

Globals ==
  {<<B(<<GetInt, Load(Global, Number(0)), s, Load(Global, Number(0)), Bin("+", Y, r), Ret(V(1, 5))>>)>> :
     s \in {Store(X, Global, Number(0)), PutInt(Y)}, r \in {X, V(1, 4)}}
  \cup {<<B(<<GetInt, Store(X, Global, Number(0)), Ret(X)>>)>>}

(* int a[2] = {7, 8}; a[x] = 2; return a[0];                               *)
StoreAnywhereLast == {<<B(Array \o <<Store(Number(2), A, N), Load(A, Number(0)), Ret(V(1, 6))>>)>>}

-----------------------------------------------------------------------------
Functions(family, temps, orders) ==
  {Function(p, t, up) : p \in family, t \in temps, up \in orders}

MCSources ==
  Functions(Straight \cup Calls \cup Globals \cup Arrays, BOOLEAN, {TRUE})
    \cup Functions(Squares \cup Repeated, {FALSE}, {TRUE})
    \cup Functions(IfElse \cup If \cup IfIf \cup Break, BOOLEAN, BOOLEAN)
    \cup Functions(LoopInArm \cup Nested \cup Continue, BOOLEAN, BOOLEAN)
    \cup Functions(ArrayInArm \cup ArrayInLoop, BOOLEAN, BOOLEAN)

MCStoresAnywhere == Functions(StoreAnywhereLast, {FALSE}, BOOLEAN)

MCInputs == {[argument |-> a, ints |-> i] : a \in {0, 2}, i \in {<<0, 1, 1>>, <<1, 0, 1>>, <<1, 1, 0>>}}
=============================================================================
