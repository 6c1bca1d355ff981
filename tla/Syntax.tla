-------------------------------- MODULE Syntax --------------------------------
(***************************************************************************)
(* Syntax analysis, front/syntax/syntax_analyze.cpp: from the tokens to    *)
(* the tree.  Every operator is given the position of the next token and   *)
(* the declarations in scope, and returns where it stopped and the node.   *)
(*                                                                         *)
(* Nodes are those of SysY.tla.  An expression node without an operator,   *)
(* of which the source makes one for each kind, is its only child; array   *)
(* initializers are nodes of their own, and a use of a variable names its  *)
(* declaration.  Names are resolved in SymbolTable.tla: here st is the     *)
(* innermost declaration of each name.                                     *)
(***************************************************************************)
EXTENDS SysY

VARIABLE tokenInfoList

Sym(i) == tokenInfoList[i].sym
Name(i) == tokenInfoList[i].name
Value(i) == tokenInfoList[i].value

Parsed(at, t) == [at |-> at, t |-> t]
Past(r) == [r EXCEPT !.at = @ + 1]

SymbolTableItem(const, global, dims, value) ==
  [const |-> const, global |-> global, dims |-> dims, value |-> value]

(* From LOrExp to MulExp, the operators that chain expressions of the next kind. *)
Ops == <<{"||"}, {"&&"}, {"==", "!="}, Orderings, {"+", "-"}, {"*", "/", "%"}>>
LOrExp == 1
AddExp == 5

-----------------------------------------------------------------------------
(* Constant expressions are computed while they are read. *)
RECURSIVE ConstLevel(_, _, _), ConstChain(_, _, _), ConstElement(_, _, _, _)

GetConstExp(i, st) == ConstLevel(AddExp, i, st)

ConstChain(k, left, st) ==
  IF Sym(left.at) \notin Ops[k] THEN left
  ELSE LET right == ConstLevel(k + 1, left.at + 1, st)
       IN  ConstChain(k, Parsed(right.at, Evaluate(Sym(left.at), left.t, right.t)), st)

(* Beyond what its initializer lists an array holds zero. *)
ConstElement(i, node, dimension, st) ==
  LET offset == GetConstExp(i + 1, st)
  IN  CASE offset.t >= Len(node.list) -> Parsed(offset.at + 1, 0)
        [] dimension = 1 -> Parsed(offset.at + 1, node.list[offset.t + 1].n)
        [] OTHER -> ConstElement(offset.at + 1, node.list[offset.t + 1], dimension - 1, st)

GetConstVarExp(i, st) ==
  LET item == st[Name(i)]
  IN  IF item.dims = <<>> THEN Parsed(i + 1, item.value.n)
      ELSE ConstElement(i + 1, item.value, Len(item.dims), st)

ConstLevel(k, i, st) ==
  CASE k < 7 -> ConstChain(k, ConstLevel(k + 1, i, st), st)
    [] Sym(i) = "(" -> Past(GetConstExp(i + 1, st))
    [] Sym(i) = "INTCONST" -> Parsed(i + 1, Value(i))
    [] Sym(i) \in {"+", "-"} ->
         LET e == ConstLevel(7, i + 1, st) IN Parsed(e.at, EvaluateUnary(Sym(i), e.t))
    [] OTHER -> GetConstVarExp(i, st)

RECURSIVE ConstSubscripts(_, _)
ConstSubscripts(r, st) ==
  IF Sym(r.at) # "[" THEN r
  ELSE LET e == GetConstExp(r.at + 1, st) IN ConstSubscripts(Parsed(e.at + 1, Append(r.t, e.t)), st)

-----------------------------------------------------------------------------
(* Expressions. *)
RECURSIVE Analyze(_, _, _), Chain(_, _, _), Subscripts(_, _), AnalyzeFuncRParams(_, _)

AnalyzeExp(i, st) == Analyze(AddExp, i, st)
AnalyzeCond(i, st) == Analyze(LOrExp, i, st)

(* Mutant: an operator takes all that follows as its right operand. *)
ChainToTheRight(k, left, st) ==
  IF Sym(left.at) \notin Ops[k] THEN left
  ELSE LET right == Analyze(k, left.at + 1, st)
       IN  Parsed(right.at, BinaryOf(Sym(left.at), left.t, right.t))

(* Operators of one kind associate to the left. *)
Chain(k, left, st) ==
  IF Sym(left.at) \notin Ops[k] THEN left
  ELSE LET right == Analyze(k + 1, left.at + 1, st)
       IN  Chain(k, Parsed(right.at, BinaryOf(Sym(left.at), left.t, right.t)), st)

Subscripts(r, st) ==
  IF Sym(r.at) # "[" THEN r
  ELSE LET e == AnalyzeExp(r.at + 1, st) IN Subscripts(Parsed(e.at + 1, Append(r.t, e.t)), st)

(* getIdentUsage of a variable: the node holds what its declaration says.  *)
AnalyzeLVal(i, st) ==
  LET at == Subscripts(Parsed(i + 1, <<>>), st)
  IN  Parsed(at.at, [is |-> "lval", id |-> Name(i), at |-> at.t, ident |-> st[Name(i)]])

(* A constant is a number from here on. *)
LValExp(i, st) ==
  LET lVal == AnalyzeLVal(i, st)
      item == lVal.t.ident
  IN  IF item.const /\ item.dims = <<>> THEN Parsed(lVal.at, item.value) ELSE lVal

AnalyzeFuncRParams(r, st) ==
  LET e == AnalyzeExp(r.at, st)
      exps == Parsed(e.at, Append(r.t, e.t))
  IN  IF Sym(e.at) = "," THEN AnalyzeFuncRParams(Past(exps), st) ELSE exps

AnalyzeUnaryExp(i, st) ==
  CASE Sym(i) = "IDENT" /\ Sym(i + 1) = "(" ->
         LET exps == IF Sym(i + 2) = ")" THEN Parsed(i + 2, <<>>)
                     ELSE AnalyzeFuncRParams(Parsed(i + 2, <<>>), st)
         IN  Parsed(exps.at + 1, Call(Name(i), exps.t))
    [] Sym(i) \in {"+", "-", "!"} ->
         LET e == Analyze(7, i + 1, st) IN Parsed(e.at, UnaryOf(Sym(i), e.t))
    [] Sym(i) = "(" -> Past(AnalyzeExp(i + 1, st))
    [] Sym(i) = "INTCONST" -> Parsed(i + 1, Num(Value(i)))
    [] OTHER -> LValExp(i, st)

Analyze(k, i, st) ==
  IF k < 7 THEN Chain(k, Analyze(k + 1, i, st), st) ELSE AnalyzeUnaryExp(i, st)

-----------------------------------------------------------------------------
(* Initializers: analyzeConstInitValArr, analyzeInitValArr and the values  *)
(* in them.  A node lists what is written of its row; a row without braces *)
(* takes as many values as it has places.                                  *)
InitValArr(expectedSize, list) == [is |-> "array", expectedSize |-> expectedSize, list |-> list]

RECURSIVE InitVal(_, _, _, _, _), InitVals(_, _, _, _, _, _)

InitVals(r, d, dims, const, ends, st) ==
  IF Len(r.t) = dims[d] \/ Sym(r.at) \in ends THEN r
  ELSE LET e == InitVal(r.at, d + 1, dims, const, st)
           more == Parsed(e.at, Append(r.t, e.t))
       IN  InitVals(IF Sym(e.at) = "," THEN Past(more) ELSE more, d, dims, const, ends, st)

InitVal(i, d, dims, const, st) ==
  LET value == IF const THEN LET e == GetConstExp(i, st) IN Parsed(e.at, Num(e.t))
               ELSE AnalyzeExp(i, st)
      braces == InitVals(Parsed(i + 1, <<>>), d, dims, const, {"}"}, st)
      row == InitVals(Parsed(i, <<>>), d, dims, const, IF d = Len(dims) THEN {"{", "}"} ELSE {}, st)
  IN  CASE d > Len(dims) -> value
        [] d <= Len(dims) /\ Sym(i) = "{" -> Parsed(braces.at + 1, InitValArr(dims[d], braces.t))
        [] OTHER -> Parsed(row.at, InitValArr(dims[d], row.t))

(* The places of the values, the array being size words at start. *)
RECURSIVE ToOneDimensionArray(_, _, _)
ToOneDimensionArray(t, start, size) ==
  IF t.is # "array" THEN <<<<start, t>>>>
  ELSE LET step == size \div t.expectedSize
       IN  FlattenSeq([i \in DOMAIN t.list |-> ToOneDimensionArray(t.list[i], start + (i - 1) * step, step)])

-----------------------------------------------------------------------------
(* Declarations.  A name is declared before its initializer is read. *)
Defined(dims, i, const, global, st) ==
  LET item(value) == SymbolTableItem(const, global, dims.t, value)
      declared(value) == (Name(i) :> item(value)) @@ st
      initVal == InitVal(dims.at + 1, 1, dims.t, const \/ global, declared(Num(0)))
      node(init) == [id |-> Name(i), ident |-> item(Num(0)), init |-> init]
  IN  IF Sym(dims.at) = "="
      THEN [at |-> initVal.at, st |-> declared(initVal.t), t |-> node(<<initVal.t>>)]
      ELSE [at |-> dims.at, st |-> declared(Num(0)), t |-> node(<<>>)]

AnalyzeDef(i, const, global, st) ==
  Defined(ConstSubscripts(Parsed(i + 1, <<>>), st), i, const, global, st)

RECURSIVE AnalyzeDefs(_, _, _, _)
AnalyzeDefs(def, defs, const, global) ==
  LET all == Append(defs, def.t)
  IN  IF Sym(def.at) = "," THEN AnalyzeDefs(AnalyzeDef(def.at + 1, const, global, def.st), all, const, global)
      ELSE [at |-> def.at + 1, st |-> def.st, t |-> [is |-> "decl", const |-> const, defs |-> all]]

AnalyzeDecl(i, global, st) ==
  LET const == Sym(i) = "const"
      first == IF const THEN i + 2 ELSE i + 1
  IN  AnalyzeDefs(AnalyzeDef(first, const, global, st), <<>>, const, global)

-----------------------------------------------------------------------------
(* Statements and blocks. *)
IsAssign(i) ==
  LET end == CHOOSE j \in i .. Len(tokenInfoList) : Sym(j) = ";" /\ \A k \in i .. j - 1 : Sym(k) # ";"
  IN  \E j \in i .. end : Sym(j) = "="

RECURSIVE AnalyzeStmt(_, _), AnalyzeBlockItems(_)

AnalyzeBlockItems(r) ==
  IF Sym(r.at) = "}" THEN r
  ELSE LET item == IF Sym(r.at) \in {"int", "const"} THEN AnalyzeDecl(r.at, FALSE, r.st)
                   ELSE AnalyzeStmt(r.at, r.st) @@ [st |-> r.st]
       IN  AnalyzeBlockItems([item EXCEPT !.t = Append(r.t, @)])

(* A function without a value returns at its end. *)
EndBlock(items, isVoid) ==
  Parsed(items.at + 1, Compound(IF isVoid THEN Append(items.t, ReturnVoid) ELSE items.t))

AnalyzeBlock(i, isVoid, st) ==
  EndBlock(AnalyzeBlockItems([at |-> i + 1, st |-> st, t |-> <<>>]), isVoid)

AnalyzeIf(i, st) ==
  LET cond == AnalyzeCond(i + 2, st)
      then == AnalyzeStmt(cond.at + 1, st)
      else == AnalyzeStmt(then.at + 1, st)
  IN  IF Sym(then.at) = "else" THEN Parsed(else.at, If(cond.t, then.t, <<else.t>>))
      ELSE Parsed(then.at, If(cond.t, then.t, <<>>))

AnalyzeWhile(i, st) ==
  LET cond == AnalyzeCond(i + 2, st)
      body == AnalyzeStmt(cond.at + 1, st)
  IN  Parsed(body.at, While(cond.t, body.t))

AnalyzeAssign(i, st) ==
  LET lVal == AnalyzeLVal(i, st)
      exp == AnalyzeExp(lVal.at + 1, st)
  IN  Parsed(exp.at + 1, Assign(lVal.t, exp.t))

AnalyzeStmt(i, st) ==
  CASE Sym(i) = "{" -> AnalyzeBlock(i, FALSE, st)
    [] Sym(i) \in {"break", "continue"} -> Parsed(i + 2, [is |-> Sym(i)])
    [] Sym(i) = "if" -> AnalyzeIf(i, st)
    [] Sym(i) = "while" -> AnalyzeWhile(i, st)
    [] Sym(i) = "return" ->
         IF Sym(i + 1) = ";" THEN Parsed(i + 2, ReturnVoid)
         ELSE LET exp == AnalyzeExp(i + 1, st) IN Parsed(exp.at + 1, Return(exp.t))
    [] Sym(i) = ";" -> Parsed(i + 1, Empty)
    [] OTHER -> IF IsAssign(i) THEN AnalyzeAssign(i, st)
                ELSE LET exp == AnalyzeExp(i, st) IN Parsed(exp.at + 1, Exp(exp.t))

-----------------------------------------------------------------------------
(* Functions and the unit.  The first dimension of a parameter is 0.       *)
RECURSIVE AnalyzeFuncFParams(_)
AnalyzeFuncFParams(r) ==
  LET i == r.at + 1
      dims == IF Sym(i + 1) = "[" THEN ConstSubscripts(Parsed(i + 3, <<0>>), r.st)
              ELSE Parsed(i + 1, <<>>)
      item == SymbolTableItem(FALSE, FALSE, dims.t, Num(0))
      params == [at |-> dims.at, st |-> (Name(i) :> item) @@ r.st,
                 t |-> Append(r.t, [id |-> Name(i), ident |-> item])]
  IN  IF Sym(dims.at) = "," THEN AnalyzeFuncFParams(Past(params)) ELSE params

AnalyzeFuncDef(i, st) ==
  LET isVoid == Sym(i) = "void"
      params == IF Sym(i + 3) = ")" THEN [at |-> i + 3, st |-> st, t |-> <<>>]
                ELSE AnalyzeFuncFParams([at |-> i + 3, st |-> st, t |-> <<>>])
  IN  [AnalyzeBlock(params.at + 1, isVoid, params.st) EXCEPT
         !.t = [void |-> isVoid, params |-> params.t, block |-> @]]

CompUnit == [decls |-> <<>>, funcs |-> <<>>]
WithFunc(unit, func) == [unit EXCEPT !.funcs = Append(@, func)]
WithDecl(unit, decl) == [unit EXCEPT !.decls = Append(@, decl)]

RECURSIVE AnalyzeCompUnit(_)
AnalyzeCompUnit(r) ==
  CASE Sym(r.at) = "END" -> r.t
    [] Sym(r.at) # "END" /\ Sym(r.at + 2) = "(" ->
         AnalyzeCompUnit([AnalyzeFuncDef(r.at, r.st) EXCEPT !.t = WithFunc(r.t, @)] @@ [st |-> r.st])
    [] OTHER -> AnalyzeCompUnit([AnalyzeDecl(r.at, TRUE, r.st) EXCEPT !.t = WithDecl(r.t, @)])

SyntaxAnalyze == AnalyzeCompUnit([at |-> 1, st |-> <<>>, t |-> CompUnit])
=============================================================================
