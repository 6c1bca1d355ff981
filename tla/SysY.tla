--------------------------------- MODULE SysY ---------------------------------
(***************************************************************************)
(* The part of the language that IR construction translates: programs as   *)
(* trees, how a tree is written as a sequence of tokens, and what a        *)
(* program does.  Nothing here is taken from the compiler, except what the *)
(* operators compute (Evaluate): this is what it is compared with.         *)
(*                                                                         *)
(* A program has declarations, and one function.  What it calls is         *)
(* defined elsewhere: the runtime library, and three other functions.      *)
(* Operands and arguments are evaluated from left to right.                *)
(***************************************************************************)
EXTENDS Folding

Num(n) == [is |-> "num", n |-> n]
LVal(id, at) == [is |-> "lval", id |-> id, at |-> at]
Call(id, args) == [is |-> "call", id |-> id, args |-> args]
UnaryOf(op, arg) == [is |-> "unary", op |-> op, arg |-> arg]
BinaryOf(op, l, r) == [is |-> "binary", op |-> op, l |-> l, r |-> r]
Braces(items) == [is |-> "braces", items |-> items]

Assign(to, exp) == [is |-> "assign", to |-> to, exp |-> exp]
Exp(exp) == [is |-> "exp", exp |-> exp]
Return(exp) == [is |-> "return", exp |-> exp]
ReturnVoid == [is |-> "return void"]
If(cond, then, else) == [is |-> "if", cond |-> cond, then |-> then, else |-> else]
While(cond, body) == [is |-> "while", cond |-> cond, body |-> body]
Break == [is |-> "break"]
Continue == [is |-> "continue"]
Empty == [is |-> "empty"]
Compound(items) == [is |-> "block", items |-> items]

(* else is a sequence of no or one statement, init one of no or one tree.  *)
Def(id, dims, init) == [id |-> id, dims |-> dims, init |-> init]
Decl(const, defs) == [is |-> "decl", const |-> const, defs |-> defs]

(* A parameter that is an array has its first dimension left open.         *)
Param(id, dims) == [id |-> id, dims |-> dims]
Program(globals, void, params, body) ==
  [globals |-> globals, void |-> void, params |-> params, body |-> body]

-----------------------------------------------------------------------------
(* Writing.  An operand is put in parentheses if its operator binds less   *)
(* than its place asks for; operators of one kind associate to the left.   *)
Word(sym) == [sym |-> sym, name |-> "", value |-> 0]
Ident(id) == [sym |-> "IDENT", name |-> id, value |-> 0]
IntConst(n) == [sym |-> "INTCONST", name |-> "", value |-> n]

Binding(op) ==
  CASE op = "||" -> 1 [] op = "&&" -> 2 [] op \in {"==", "!="} -> 3
    [] op \in Orderings -> 4 [] op \in {"+", "-"} -> 5 [] OTHER -> 6

Commas(texts) ==
  FoldLeft(LAMBDA all, t : IF all = <<>> THEN t ELSE all \o <<Word(",")>> \o t, <<>>, texts)

RECURSIVE Written(_, _)
Written(t, place) ==
  LET each(ts) == [i \in DOMAIN ts |-> Written(ts[i], 0)]
      inner ==
        CASE t.is = "num" -> <<IntConst(t.n)>>
          [] t.is = "lval" -> <<Ident(t.id)>> \o
               FlattenSeq([i \in DOMAIN t.at |-> <<Word("[")>> \o Written(t.at[i], 0) \o <<Word("]")>>])
          [] t.is = "call" -> <<Ident(t.id), Word("(")>> \o Commas(each(t.args)) \o <<Word(")")>>
          [] t.is = "unary" -> <<Word(t.op)>> \o Written(t.arg, 7)
          [] t.is = "braces" -> <<Word("{")>> \o Commas(each(t.items)) \o <<Word("}")>>
          [] OTHER -> Written(t.l, Binding(t.op)) \o <<Word(t.op)>> \o Written(t.r, Binding(t.op) + 1)
  IN  IF t.is = "binary" /\ Binding(t.op) < place
      THEN <<Word("(")>> \o inner \o <<Word(")")>> ELSE inner

Subscripted(dims) ==
  FlattenSeq([i \in DOMAIN dims |-> <<Word("[")>> \o Written(dims[i], 0) \o <<Word("]")>>])

WrittenDef(d) ==
  <<Ident(d.id)>> \o Subscripted(d.dims)
  \o (IF d.init = <<>> THEN <<>> ELSE <<Word("=")>> \o Written(d.init[1], 0))

Until(text) == text \o <<Word(";")>>

RECURSIVE WrittenItem(_)
WrittenItem(s) ==
  CASE s.is = "assign" -> Until(Written(s.to, 0) \o <<Word("=")>> \o Written(s.exp, 0))
    [] s.is = "exp" -> Until(Written(s.exp, 0))
    [] s.is = "return" -> Until(<<Word("return")>> \o Written(s.exp, 0))
    [] s.is = "return void" -> Until(<<Word("return")>>)
    [] s.is \in {"break", "continue"} -> Until(<<Word(s.is)>>)
    [] s.is = "empty" -> Until(<<>>)
    [] s.is = "if" -> <<Word("if"), Word("(")>> \o Written(s.cond, 0) \o <<Word(")")>>
         \o WrittenItem(s.then)
         \o (IF s.else = <<>> THEN <<>> ELSE <<Word("else")>> \o WrittenItem(s.else[1]))
    [] s.is = "while" -> <<Word("while"), Word("(")>> \o Written(s.cond, 0) \o <<Word(")")>>
         \o WrittenItem(s.body)
    [] s.is = "block" -> <<Word("{")>> \o FlattenSeq([i \in DOMAIN s.items |-> WrittenItem(s.items[i])])
         \o <<Word("}")>>
    [] OTHER -> Until((IF s.const THEN <<Word("const")>> ELSE <<>>) \o <<Word("int")>>
         \o Commas([i \in DOMAIN s.defs |-> WrittenDef(s.defs[i])]))

WrittenParam(p) ==
  <<Word("int"), Ident(p.id)>> \o
  (IF p.dims = <<>> THEN <<>> ELSE <<Word("["), Word("]")>> \o Subscripted(Tail(p.dims)))

WrittenProgram(p) ==
  FlattenSeq([i \in DOMAIN p.globals |-> WrittenItem(p.globals[i])])
  \o <<Word(IF p.void THEN "void" ELSE "int"), Ident("f"), Word("(")>>
  \o Commas([i \in DOMAIN p.params |-> WrittenParam(p.params[i])]) \o <<Word(")")>>
  \o WrittenItem(Compound(p.body)) \o <<Word("END")>>

-----------------------------------------------------------------------------
(* Running.  A machine has variables, memory by address, and what is read  *)
(* and written; arrays stand far apart.                                    *)
Machine(mem, input) ==
  [vars |-> <<>>, mem |-> mem, shape |-> <<>>, ints |-> input.ints, out |-> <<>>, state |-> "runs"]

Set(f, x, n) == (x :> n) @@ f
Puts(m, n) == [m EXCEPT !.out = Append(@, n)]
Stops(m) == [m EXCEPT !.state = "stopped"]

(* What is called: getint, putint; note puts out what it is given, row     *)
(* reads two words behind a pointer, grow changes the first.               *)
Called(m, id, args) ==
  CASE m.state # "runs" -> [m |-> m, n |-> 0]
    [] id = "getint" /\ m.ints # <<>> -> [m |-> [m EXCEPT !.ints = Tail(@)], n |-> Head(m.ints)]
    [] id = "putint" -> [m |-> Puts(m, args[1]), n |-> 0]
    [] id = "note" -> [m |-> Puts(Puts(m, args[1]), args[2]), n |-> args[1] - 2 * args[2]]
    [] id = "row" -> [m |-> m, n |-> m.mem[args[1]] + 10 * m.mem[args[1] + 4]]
    [] id = "grow" -> [m |-> [m EXCEPT !.mem = Set(@, args[1], m.mem[args[1]] + 1)], n |-> 0]
    [] OTHER -> [m |-> Stops(m), n |-> 0]

Product(dims) == FoldLeft(LAMBDA n, d : n * d, 1, dims)
Stride(dims, i) == Product(SubSeq(dims, i + 1, Len(dims)))

(* Where the elements written in braces go: an element fills the next      *)
(* place, braces the next row of the largest size that begins there, and   *)
(* the rest is zero.  A list of pairs <<place, tree>>.                     *)
Rows(dims, at) == {k \in 2 .. Len(dims) : at % Product(SubSeq(dims, k, Len(dims))) = 0}

RECURSIVE Places(_, _, _)
Places(dims, items, start) ==
  FoldLeft(LAMBDA r, item :
             IF item.is # "braces" THEN [at |-> r.at + 1, list |-> Append(r.list, <<r.at, item>>)]
             ELSE LET row == SubSeq(dims, Min(Rows(dims, r.at - start)), Len(dims))
                  IN  [at |-> r.at + Product(row),
                       list |-> r.list \o Places(row, item.items, r.at).list],
           [at |-> start, list |-> <<>>], items)

Fits(dims, braces) ==
  LET list == Places(dims, braces.items, 0).list
  IN  \A i \in DOMAIN list : list[i][1] < Product(dims)

RECURSIVE Meant(_, _)

(* The value of an expression, and the machine after it. *)
Operands2(m, l, r) ==
  LET x == Meant(m, l)
      y == Meant(x.m, r)
  IN  [m |-> y.m, x |-> x.n, y |-> y.n]

MeantArgs(m, ts) ==
  FoldLeft(LAMBDA r, t : LET e == Meant(r.m, t) IN [m |-> e.m, ns |-> Append(r.ns, e.n)],
           [m |-> m, ns |-> <<>>], ts)

Address(m, t, ns) ==
  LET s == m.shape[t.id]
  IN  s.base + 4 * FoldLeft(LAMBDA n, i : n + ns[i] * Stride(s.dims, i), 0, [i \in DOMAIN ns |-> i])

Meant(m, t) ==
  CASE t.is = "num" -> [m |-> m, n |-> t.n]
    [] t.is = "lval" /\ t.id \in DOMAIN m.vars -> [m |-> m, n |-> m.vars[t.id]]
    [] t.is = "lval" /\ t.id \notin DOMAIN m.vars ->
         LET a == MeantArgs(m, t.at)
             address == Address(m, t, a.ns)
         IN  [m |-> a.m, n |-> IF Len(t.at) = Len(m.shape[t.id].dims) THEN a.m.mem[address] ELSE address]
    [] t.is = "call" -> LET a == MeantArgs(m, t.args) IN Called(a.m, t.id, a.ns)
    [] t.is = "unary" -> LET e == Meant(m, t.arg) IN [m |-> e.m, n |-> EvaluateUnary(t.op, e.n)]
    [] t.op \in {"&&", "||"} ->
         LET x == Meant(m, t.l)
         IN  IF (x.n = 0) = (t.op = "&&") THEN [m |-> x.m, n |-> Truth(x.n # 0)]
             ELSE LET y == Meant(x.m, t.r) IN [m |-> y.m, n |-> Truth(y.n # 0)]
    [] OTHER -> LET o == Operands2(m, t.l, t.r) IN [m |-> o.m, n |-> Evaluate(t.op, o.x, o.y)]

(* A declaration: scalars of the function are variables, all else memory.  *)
Shape(base, dims) == [base |-> base, dims |-> dims]
Base(m) == 100000 + 100 * Cardinality(DOMAIN m.shape)

MeantInit(m, d, dims) ==
  LET base == Base(m)
      list == IF d.init = <<>> THEN <<>>
              ELSE IF dims = <<>> THEN <<<<0, d.init[1]>>>>
              ELSE Places(dims, d.init[1].items, 0).list
      zeroed == [m EXCEPT !.shape = Set(@, d.id, Shape(base, dims)),
                          !.mem = [i \in {base + 4 * k : k \in 0 .. Product(dims) - 1} |-> 0] @@ @]
  IN  FoldLeft(LAMBDA k, p : LET e == Meant(k, p[2])
                             IN  [e.m EXCEPT !.mem = Set(@, base + 4 * p[1], e.n)],
               zeroed, list)

MeantDef(m, d, isGlobal) ==
  LET dims == MeantArgs(m, d.dims).ns
  IN  IF dims = <<>> /\ ~isGlobal
      THEN IF d.init = <<>> THEN m
           ELSE LET e == Meant(m, d.init[1]) IN [e.m EXCEPT !.vars = Set(@, d.id, e.n)]
      ELSE MeantInit(m, d, dims)

MeantDecl(m, d, isGlobal) == FoldLeft(LAMBDA k, def : MeantDef(k, def, isGlobal), m, d.defs)

(* Statements.  break and continue are states a loop takes back; a machine *)
(* that is not in state "runs" takes no step; a loop goes round Fuel times *)
(* at most, which the programs looked at do not reach.                     *)
Fuel == 10

RECURSIVE Done(_, _), Loops(_, _, _)
Done(m, s) ==
  CASE m.state # "runs" -> m
    [] s.is = "assign" ->
         LET e == Meant(m, s.exp)
         IN  IF s.to.id \in DOMAIN m.vars \/ s.to.id \notin DOMAIN m.shape
             THEN [e.m EXCEPT !.vars = Set(@, s.to.id, e.n)]
             ELSE LET a == MeantArgs(e.m, s.to.at)
                  IN  [a.m EXCEPT !.mem = Set(@, Address(m, s.to, a.ns), e.n)]
    [] s.is = "exp" -> Meant(m, s.exp).m
    [] s.is = "return" -> LET e == Meant(m, s.exp)
                          IN  IF e.m.state = "runs" THEN Stops(Puts(e.m, e.n)) ELSE e.m
    [] s.is = "return void" -> Stops(m)
    [] s.is = "empty" -> m
    [] s.is \in {"break", "continue"} -> [m EXCEPT !.state = s.is]
    [] s.is = "if" -> LET c == Meant(m, s.cond)
                      IN  IF c.n # 0 THEN Done(c.m, s.then)
                          ELSE IF s.else = <<>> THEN c.m ELSE Done(c.m, s.else[1])
    [] s.is = "while" -> Loops(m, s, Fuel)
    [] s.is = "block" -> FoldLeft(Done, m, s.items)
    [] OTHER -> MeantDecl(m, s, FALSE)

Loops(m, s, fuel) ==
  LET c == Meant(m, s.cond)
      after == Done(c.m, s.body)
  IN  IF m.state # "runs" \/ fuel = 0 THEN m
      ELSE IF c.m.state # "runs" \/ c.n = 0 THEN c.m
      ELSE CASE after.state = "break" -> [after EXCEPT !.state = "runs"]
             [] after.state = "continue" -> Loops([after EXCEPT !.state = "runs"], s, fuel - 1)
             [] OTHER -> Loops(after, s, fuel - 1)

(* What a program puts out, the value it returns last.  Its parameters are *)
(* the arguments of the input in turn; one that is an array is the memory  *)
(* at InputArray.                                                          *)
InputArray == 5000
InputMemory(input) == [a \in {InputArray + 4 * k : k \in DOMAIN input.array} |-> input.array[(a - InputArray) \div 4]]

Given(m, p, n) ==
  IF p.dims = <<>> THEN [m EXCEPT !.vars = Set(@, p.id, n)]
  ELSE [m EXCEPT !.shape = Set(@, p.id, Shape(InputArray, [i \in DOMAIN p.dims |->
                    IF i = 1 THEN 0 ELSE Meant(m, p.dims[i]).n]))]

Does(p, input) ==
  LET declared == FoldLeft(LAMBDA m, d : MeantDecl(m, d, TRUE), Machine(InputMemory(input), input), p.globals)
      called == FoldLeft(LAMBDA m, i : Given(m, p.params[i], input.args[i]), declared,
                         [i \in DOMAIN p.params |-> i])
  IN  Done(called, Compound(p.body)).out
=============================================================================
