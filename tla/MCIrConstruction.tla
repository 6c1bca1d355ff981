--------------------------- MODULE MCIrConstruction ---------------------------
(* Programs of one function f(p, q) with q an array of rows of two, a global  *)
(* g and a global array m.                                                    *)
EXTENDS IrConstruction

p == LVal("p", <<>>)
g == LVal("g", <<>>)
getint == Call("getint", <<>>)
At(id, at) == LVal(id, at)
Put(e) == Exp(Call("putint", <<e>>))
Var(id, dims, init) == Decl(FALSE, <<Def(id, [i \in DOMAIN dims |-> Num(dims[i])], init)>>)
Const(id, dims, init) == Decl(TRUE, <<Def(id, [i \in DOMAIN dims |-> Num(dims[i])], init)>>)

Globals == <<Decl(FALSE, <<Def("g", <<>>, <<Num(1)>>), Def("m", <<Num(2)>>, <<>>)>>)>>
Params == <<Param("p", <<>>), Param("q", <<Num(0), Num(2)>>)>>
Of(body) == Program(Globals, FALSE, Params, body)
Returns(e) == Of(<<Return(e)>>)

-----------------------------------------------------------------------------
(* Expressions: two operators in every order and grouping, a sign before   *)
(* each of the operands.                                                   *)
Arithmetic == {"+", "-", "*", "/", "%"}
Signs == {"", "-", "!", "+"}
Signed(sign, e) == IF sign = "" THEN e ELSE UnaryOf(sign, e)

Expressions ==
  {BinaryOf(o2, BinaryOf(o1, getint, p), getint) : o1, o2 \in Arithmetic} \cup
  {BinaryOf(o1, getint, BinaryOf(o2, g, getint)) : o1, o2 \in Arithmetic} \cup
  {BinaryOf(o, Signed(s1, getint), Signed(s2, p)) : o \in {"-", "*"}, s1, s2 \in Signs} \cup
  {Signed(s, BinaryOf("-", p, Signed(t, getint))) : s, t \in Signs} \cup
  {BinaryOf("-", Call("note", <<e, getint>>), f) :
     e, f \in {p, getint, Call("note", <<g, Num(3)>>), BinaryOf("+", p, g), At("m", <<p>>)}} \cup
  {BinaryOf("+", At("q", <<p, Num(1)>>), At("q", <<At("m", <<p>>), BinaryOf("-", Num(1), p)>>)),
   BinaryOf("-", Call("row", <<At("q", <<p>>)>>), Call("row", <<LVal("q", <<>>)>>)),
   BinaryOf("*", Call("row", <<LVal("m", <<>>)>>), getint)}

-----------------------------------------------------------------------------
(* Conditions: what each operand reads and whether it is reached shows.    *)
Sees(n) == BinaryOf("<", Call("note", <<Num(n), getint>>), Num(n))
Atoms(n) == {Sees(n), getint, UnaryOf("!", p)}
Comparisons == {"<", ">=", "==", "!="}

(* An operand is put in no parentheses: each has to bind tighter than its operator. *)
Chains ==
  {BinaryOf(o2, BinaryOf(o1, getint, p), getint) :
     <<o1, o2>> \in {<<x, y>> \in Comparisons \X Comparisons : Binding(x) >= Binding(y)}} \cup
  {BinaryOf(o1, p, BinaryOf(o2, getint, getint)) :
     <<o1, o2>> \in {<<x, y>> \in Comparisons \X Comparisons : Binding(x) < Binding(y)}} \cup
  {BinaryOf("==", BinaryOf("<", getint, p), BinaryOf(">", g, BinaryOf("+", getint, Num(1))))}

Both(x, y, z) ==
  {BinaryOf("||", BinaryOf("&&", x, y), z), BinaryOf("||", x, BinaryOf("&&", y, z)),
   BinaryOf("&&", BinaryOf("&&", x, y), z), BinaryOf("||", BinaryOf("||", x, y), z)}

Conditions ==
  Chains \cup UNION {Both(x, y, z) : x \in Atoms(1), y \in Atoms(2), z \in Atoms(3)}

-----------------------------------------------------------------------------
(* Statements: branches in branches, and loops with every way out.         *)
G(n) == Assign(g, BinaryOf("+", g, Num(n)))
Counts == BinaryOf("<", g, Num(4))
Leaf == {G(3), Return(g), Break, Continue, Compound(<<Put(g), Empty>>)}

Branching ==
  {If(getint, Compound(<<If(p, x, e)>>), f) : x \in Leaf, e, f \in {<<>>, <<G(2)>>, <<Return(p)>>}} \cup
  {If(getint, Compound(<<>>), <<If(p, x, <<y>>)>>) : x, y \in Leaf} \cup
  {If(c, If(p, G(3), <<Put(p)>>), <<>>) : c \in {getint}}

LoopBodies ==
  {<<G(1), If(getint, x, <<>>), y>> : x, y \in Leaf} \cup
  {<<G(1), If(getint, x, <<y>>), Put(p)>> : x, y \in Leaf} \cup
  {<<x, Put(Num(9))>> : x \in Leaf \ {Continue, Compound(<<Put(g), Empty>>)}} \cup
  {<<G(1), While(BinaryOf("&&", getint, Counts), Compound(<<G(1), x>>)), Put(g)>> : x \in Leaf}

X == LVal("x", <<>>)
Declaring ==
  <<Var("x", <<>>, <<BinaryOf("+", g, getint)>>), Var("b", <<2, 2>>, <<Braces(<<Num(1), X>>)>>),
    Assign(At("b", <<p, Num(1)>>), BinaryOf("+", At("b", <<p, Num(1)>>), X)),
    Put(BinaryOf("*", X, X)), Put(At("b", <<Num(1), p>>)), Put(At("b", <<p, Num(1)>>)), G(2)>>

Statements ==
  {Compound(<<While(Counts, Compound(b))>>) : b \in LoopBodies \cup {Declaring}} \cup
  {While(c, Compound(<<G(1), Put(g), If(BinaryOf(">", g, Num(3)), Break, <<>>)>>)) : c \in Conditions} \cup
  {Compound(<<While(BinaryOf("||", getint, Counts), Compound(<<G(1), s>>))>>) : s \in Branching} \cup
  {While(Counts, G(1)), While(getint, Empty),
   Compound(<<If(getint, Return(p), <<Return(g)>>), G(1), Var("x", <<>>, <<getint>>), Put(X)>>),
   Compound(<<Var("b", <<2>>, <<>>), Assign(At("b", <<p>>), getint), Put(At("b", <<p>>)), Return(p), G(1)>>)}

(* Functions without a value, which leave early or at their end. *)
Voids ==
  {Program(Globals, TRUE, <<Param("p", <<>>)>>, <<If(c, x, e), Put(g)>>) :
     c \in {getint, BinaryOf("!=", g, p)}, x \in {ReturnVoid, Compound(<<Put(p), ReturnVoid>>), G(2)},
     e \in {<<>>, <<ReturnVoid>>, <<G(3)>>}}

-----------------------------------------------------------------------------
(* Initializers: all that fit, of arrays with up to three dimensions.      *)
Shapes == {<<3>>, <<2, 2>>, <<2, 2, 2>>}
RowsOf(e) == {Braces(s) : s \in {<<>>, <<e>>, <<e, e>>}}
Items(e) == {e, Braces(<<Braces(<<e>>), e>>), Braces(<<e, e, e>>)} \cup RowsOf(e)

RECURSIVE Aligned(_, _)
Aligned(dims, items) ==
  LET r == FoldLeft(LAMBDA s, item :
                      IF item.is # "braces" THEN [s EXCEPT !.at = @ + 1]
                      ELSE IF Rows(dims, s.at) = {} THEN [s EXCEPT !.ok = FALSE]
                      ELSE LET row == SubSeq(dims, Min(Rows(dims, s.at)), Len(dims))
                           IN  [at |-> s.at + Product(row), ok |-> s.ok /\ Aligned(row, item.items)],
                    [at |-> 0, ok |-> TRUE], items)
  IN  r.ok /\ r.at <= Product(dims)

Inits(dims, e) ==
  {items \in UNION {[1 .. n -> Items(e)] : n \in 0 .. 3} : Aligned(dims, items)}

RECURSIVE Elements(_)
Elements(dims) ==
  IF dims = <<>> THEN <<<<>>>>
  ELSE FlattenSeq([i \in 1 .. dims[1] |->
         [j \in DOMAIN Elements(Tail(dims)) |-> <<Num(i - 1)>> \o Elements(Tail(dims))[j]]])

(* The values are told apart by numbering them. *)
RECURSIVE NumberIn(_, _)
NumberIn(items, n) ==
  FoldLeft(LAMBDA r, item :
             IF item.is = "braces"
             THEN LET k == NumberIn(item.items, r.n) IN [n |-> k.n, list |-> Append(r.list, Braces(k.list))]
             ELSE [n |-> r.n + 1, list |-> Append(r.list, IF item.is = "num" THEN Num(r.n) ELSE item)],
           [n |-> n, list |-> <<>>], items)

PutsAll(dims) == [i \in DOMAIN Elements(dims) |-> Put(At("a", Elements(dims)[i]))]

Initialized ==
  UNION {LET init(items) == <<Braces(NumberIn(items, 5).list)>>
         IN  {Of(<<Var("a", d, init(items))>> \o PutsAll(d) \o <<Return(p)>>) : items \in Inits(d, Num(0)) \cup Inits(d, getint)} \cup
             {Program(Globals \o <<Var("a", d, init(items))>>, TRUE, <<>>, PutsAll(d)) : items \in Inits(d, Num(0))} \cup
             {Of(<<Const("a", d, init(items))>> \o PutsAll(d) \o <<Return(At("a", [i \in DOMAIN d |-> p]))>>) :
                items \in Inits(d, Num(0))}
         : d \in Shapes}

-----------------------------------------------------------------------------
(* Constants: of declarations, of dimensions and of other constants.       *)
Sums == {BinaryOf(o2, BinaryOf(o1, Num(7), c), Num(2)) : o1, o2 \in Arithmetic, c \in {LVal("c", <<>>), Num(4)}} \cup
        {BinaryOf(o1, Num(7), BinaryOf(o2, LVal("c", <<>>), UnaryOf("-", Num(2)))) : o1, o2 \in Arithmetic} \cup
        {UnaryOf("-", UnaryOf("+", BinaryOf("-", LVal("c", <<>>), Num(5)))),
         BinaryOf("+", At("t", <<Num(1), Num(0)>>), At("t", <<Num(0), LVal("c", <<>>)>>))}

T == Const("t", <<2, 4>>, <<Braces(<<Braces(<<Num(6), Num(5)>>), Num(8), Num(9)>>)>>)
C == Const("c", <<>>, <<Num(3)>>)

Constant ==
  UNION {{Program(Globals \o <<C, T, Var("h", <<>>, <<e>>)>>, FALSE, Params, <<Return(LVal("h", <<>>))>>),
          Of(<<C, T, Const("d", <<>>, <<e>>), Return(BinaryOf("-", LVal("d", <<>>), p))>>)} : e \in Sums}
  \cup {Of(<<C, Decl(FALSE, <<Def("a", <<LVal("c", <<>>), BinaryOf("-", LVal("c", <<>>), Num(1))>>,
                              <<Braces(<<Num(1), Num(2), Braces(<<LVal("c", <<>>), p>>)>>)>>)>>),
             Return(At("a", <<Num(1), p>>))>>)}

-----------------------------------------------------------------------------
(* Pointers, and what is done through them. *)
A3 == Var("a", <<2, 2, 2>>, <<Braces([i \in 1 .. 8 |-> Num(i)])>>)
Pointers ==
  {Of(<<A3, s, Put(Call("row", <<At("a", <<Num(1), p>>)>>)), Put(At("a", <<p, Num(1), Num(1)>>)),
        Put(Call("row", <<LVal("m", <<>>)>>)), Return(At("q", <<p, Num(0)>>))>>) :
     s \in {Assign(At("a", <<p, Num(1), getint>>), getint), Assign(At("q", <<p, Num(0)>>), BinaryOf("+", p, getint)),
            Assign(At("m", <<p>>), Call("note", <<p, g>>)), Exp(Call("grow", <<At("a", <<p, Num(1)>>)>>)),
            Exp(Call("grow", <<LVal("q", <<>>)>>)), Exp(Call("grow", <<At("q", <<Num(1)>>)>>)),
            Exp(Call("grow", <<At("a", <<p>>)>>)), Exp(Call("grow", <<LVal("a", <<>>)>>)),
            Var("x", <<>>, <<BinaryOf("+", At("a", <<p, p, p>>), getint)>>)}}
  \cup
  {Of(<<Var("x", <<>>, <<e>>), Var("y", <<>>, <<BinaryOf("*", LVal("x", <<>>), LVal("x", <<>>))>>),
        Assign(LVal("x", <<>>), BinaryOf("-", LVal("y", <<>>), LVal("x", <<>>))),
        If(BinaryOf("<", LVal("x", <<>>), LVal("y", <<>>)), Put(LVal("x", <<>>)), <<>>),
        Return(BinaryOf("+", LVal("x", <<>>), LVal("x", <<>>)))>>) : e \in {getint, p, g, At("q", <<p, p>>)}}

-----------------------------------------------------------------------------
Programs ==
  {Returns(e) : e \in Expressions} \cup
  {Of(<<If(c, Put(Num(1)), <<Put(Num(2))>>), Return(p)>>) : c \in Conditions} \cup
  {Of(<<s, Return(g)>>) : s \in Statements} \cup
  Voids \cup Initialized \cup Constant \cup Pointers

Runs ==
  {[ints |-> i, args |-> <<a, InputArray>>, array |-> (0 :> 4) @@ (1 :> 6) @@ (2 :> -3) @@ (3 :> 5)] :
     i \in {<<0, 2, -1, 1>>, <<1, 0, 3, 0>>, <<-5, 1, 1, 4, 0, 2, 1, 3, 0, 0, 1, -2>>}, a \in 0 .. 1}
=============================================================================
