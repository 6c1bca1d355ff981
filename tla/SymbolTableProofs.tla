-------------------------- MODULE SymbolTableProofs --------------------------
(***************************************************************************)
(* The table of blocks implements the scopes of the language, for programs *)
(* of any size and nesting.                                                *)
(***************************************************************************)
EXTENDS SymbolTable, SequenceTheorems, TLAPS

Fields == {"isTop", "fatherBlockId", "symbolTableThisBlock"}

(* A symbol is filed under its unique name in the block it names, and      *)
(* functions are in the global block only.                                 *)
SymbolOK(b, k) ==
  \/ \E n \in VariableNames : k = UniqueName("V", n) /\ SymbolsOf(b)[k] = Item("V", n, b)
  \/ \E n \in FunctionNames : /\ k = UniqueName("F", n)
                              /\ SymbolsOf(b)[k] = Item("F", n, b)
                              /\ b = Top

(* Every block was counted, so the next number of a layer is a new one. *)
BlockOK(b) ==
  /\ b \in BlockIds
  /\ b[2] <= NumberOf(b[1])
  /\ DOMAIN symbolTable[b] = Fields
  /\ symbolTable[b].fatherBlockId \in BlockIds
  /\ symbolTable[b].isTop \in BOOLEAN
  /\ symbolTable[b].isTop <=> b[1] = 0
  /\ \A k \in DOMAIN SymbolsOf(b) : SymbolOK(b, k)

TableOK == \A b \in DOMAIN symbolTable : BlockOK(b)

NumbersOK ==
  /\ DOMAIN blockLayerId2LayerNum \subseteq Nat
  /\ \A l \in DOMAIN blockLayerId2LayerNum : blockLayerId2LayerNum[l] \in Nat

(* The pointers from block to block are the nesting of the text. *)
PathOK ==
  /\ \A i \in 1 .. Len(Open) : Open[i] \in DOMAIN symbolTable /\ Open[i][1] = i - 1
  /\ Open[1] = Top
  /\ \A i \in 2 .. Len(Open) : symbolTable[Open[i]].fatherBlockId = Open[i - 1]

LocationOK ==
  /\ callers \in Seq(BlockIds)
  /\ nowLayId \in BlockIds
  /\ layIdInFuncFParams \in BlockIds
  /\ nowLayer = Len(callers)
  /\ pc \in {"items", "func", "params", "body"}
  /\ pc \in {"func", "body"} => callers = <<>> /\ findName = {}
  /\ pc = "params" => Len(callers) = 1 /\ layIdInFuncFParams = nowLayId

(* Only what some open block declares is looked for. *)
SearchOK ==
  /\ startBlockId \in DOMAIN symbolTable
  /\ findName # {} => pc \in {"items", "params"}
  /\ \A k \in findName : Visible(k) /\ findName = {k}
  /\ \A k \in findName : \/ \E n \in VariableNames : k = <<"V", n>>
                         \/ \E n \in FunctionNames \ {Main} : k = <<"F", n>>

IInv == TableOK /\ NumbersOK /\ PathOK /\ LocationOK /\ SearchOK /\ SearchInOrder

-----------------------------------------------------------------------------
(* The sequence of open blocks, position by position. *)
LEMMA OpenBlocks ==
  ASSUME LocationOK
  PROVE  /\ Open \in Seq(BlockIds)
         /\ pc # "body" => /\ Len(Open) = Len(callers) + 1
                           /\ Open[Len(callers) + 1] = nowLayId
                           /\ \A i \in 1 .. Len(callers) : Open[i] = callers[i]
         /\ pc = "body" => /\ Len(Open) = 2
                           /\ Open[1] = nowLayId
                           /\ Open[2] = layIdInFuncFParams
  BY DEF LocationOK, Open

(* Insertion of a symbol into the current block leaves the others alone. *)
LEMMA Inserted ==
  ASSUME IInv, NEW kind, NEW name, InsertSymbol(kind, name)
  PROVE  /\ DOMAIN symbolTable' = DOMAIN symbolTable
         /\ \A b \in DOMAIN symbolTable :
              /\ DOMAIN symbolTable'[b] = Fields
              /\ symbolTable'[b].isTop = symbolTable[b].isTop
              /\ symbolTable'[b].fatherBlockId = symbolTable[b].fatherBlockId
              /\ b # nowLayId => SymbolsOf(b)' = SymbolsOf(b)
         /\ nowLayId \in DOMAIN symbolTable
         /\ symbolTable'[nowLayId].symbolTableThisBlock
              = With(SymbolsOf(nowLayId), UniqueName(kind, name), Item(kind, name, nowLayId))
<1>1. nowLayId \in DOMAIN symbolTable
  BY OpenBlocks DEF IInv, PathOK, LocationOK
<1>2. DOMAIN symbolTable[nowLayId] = Fields
  BY <1>1 DEF IInv, TableOK, BlockOK
<1>3. \A b \in DOMAIN symbolTable : DOMAIN symbolTable[b] = Fields
  BY DEF IInv, TableOK, BlockOK
<1> DEFINE new == With(SymbolsOf(nowLayId), UniqueName(kind, name), Item(kind, name, nowLayId))
<1>4. symbolTable' = [symbolTable EXCEPT ![nowLayId] =
                        [symbolTable[nowLayId] EXCEPT !.symbolTableThisBlock = new]]
  BY DEF InsertSymbol, SymbolsOf
<1> HIDE DEF new
<1>5. symbolTable'[nowLayId] = [symbolTable[nowLayId] EXCEPT !.symbolTableThisBlock = new]
  BY <1>1, <1>4
<1>6. /\ DOMAIN symbolTable'[nowLayId] = Fields
      /\ symbolTable'[nowLayId].isTop = symbolTable[nowLayId].isTop
      /\ symbolTable'[nowLayId].fatherBlockId = symbolTable[nowLayId].fatherBlockId
      /\ symbolTable'[nowLayId].symbolTableThisBlock = new
  BY <1>2, <1>5 DEF Fields
<1>7. \A b \in DOMAIN symbolTable : b # nowLayId => symbolTable'[b] = symbolTable[b]
  BY <1>4
<1>8. DOMAIN symbolTable' = DOMAIN symbolTable
  BY <1>4
<1> QED  BY <1>1, <1>3, <1>6, <1>7, <1>8 DEF SymbolsOf, new

(* A block that is made has an id no block had. *)
LEMMA Distributed ==
  ASSUME IInv, NEW layerId \in Nat, DistributeBlockId(layerId, nowLayId), layerId > 0,
         nowLayId \in BlockIds
  PROVE  /\ nowLayId' \notin DOMAIN symbolTable
         /\ nowLayId' \in BlockIds
         /\ nowLayId'[1] = layerId
         /\ DOMAIN symbolTable' = DOMAIN symbolTable \cup {nowLayId'}
         /\ \A b \in DOMAIN symbolTable : symbolTable'[b] = symbolTable[b]
         /\ symbolTable'[nowLayId'].fatherBlockId = nowLayId
         /\ symbolTable'[nowLayId'].symbolTableThisBlock = <<>>
         /\ TableOK'
         /\ NumbersOK'
<1>1. NumberOf(layerId) \in Nat
  BY DEF IInv, NumbersOK, NumberOf
<1>0. PICK id : id = <<layerId, NumberOf(layerId) + 1>>
  OBVIOUS
<1>2. id \in BlockIds /\ id[1] = layerId /\ id[2] = NumberOf(layerId) + 1
  BY <1>0, <1>1 DEF BlockIds
<1>3. nowLayId' = id
  BY <1>0 DEF DistributeBlockId
<1>4. id \notin DOMAIN symbolTable
  BY <1>1, <1>2 DEF IInv, TableOK, BlockOK
<1> DEFINE block == [isTop |-> layerId = 0, fatherBlockId |-> nowLayId,
                     symbolTableThisBlock |-> <<>>]
<1>5. /\ blockLayerId2LayerNum' = With(blockLayerId2LayerNum, layerId, id[2])
      /\ symbolTable' = With(symbolTable, id, block)
  BY <1>0 DEF DistributeBlockId
<1>6. /\ DOMAIN symbolTable' = DOMAIN symbolTable \cup {id}
      /\ \A b \in DOMAIN symbolTable : symbolTable'[b] = symbolTable[b]
      /\ symbolTable'[id] = block
  BY <1>4, <1>5 DEF With
<1>7. /\ DOMAIN symbolTable'[id] = Fields
      /\ symbolTable'[id].isTop = (layerId = 0)
      /\ symbolTable'[id].fatherBlockId = nowLayId
      /\ symbolTable'[id].symbolTableThisBlock = <<>>
  BY <1>6 DEF Fields
<1>8. NumbersOK'
  BY <1>1, <1>2, <1>5 DEF IInv, NumbersOK, With
<1>9. \A l \in Nat : /\ NumberOf(l)' >= NumberOf(l)
                     /\ NumberOf(l) \in Nat
                     /\ l = layerId => NumberOf(l)' = id[2]
  BY <1>1, <1>2, <1>5 DEF IInv, NumbersOK, With, NumberOf
<1>10. ASSUME NEW b \in DOMAIN symbolTable  PROVE BlockOK(b)'
  <2>1. BlockOK(b) /\ symbolTable'[b] = symbolTable[b] /\ SymbolsOf(b)' = SymbolsOf(b)
    BY <1>6 DEF IInv, TableOK, SymbolsOf
  <2>2. b[1] \in Nat /\ b[2] \in Nat
    BY <2>1 DEF BlockOK, BlockIds
  <2>3. b[2] <= NumberOf(b[1])'
    BY <1>8, <1>9, <2>1, <2>2 DEF BlockOK, NumbersOK, NumberOf
  <2> QED  BY <2>1, <2>3 DEF BlockOK, SymbolOK
<1>11. BlockOK(id)'
  <2> layerId # 0 /\ id[1] # 0
    BY <1>2
  <2>1. id[1] # 0 /\ symbolTable'[id].isTop = FALSE
    BY <1>7, Zenon
  <2>2. /\ symbolTable'[id].isTop \in BOOLEAN
        /\ symbolTable'[id].isTop <=> id[1] = 0
    BY <2>1, Zenon
  <2>3. id[2] <= NumberOf(id[1])'
    BY <1>1, <1>2, <1>9
  <2>4. DOMAIN SymbolsOf(id)' = {}
    BY <1>7 DEF SymbolsOf
  <2> QED  BY <1>2, <1>7, <2>2, <2>3, <2>4 DEF BlockOK
<1> QED  BY <1>2, <1>3, <1>4, <1>6, <1>7, <1>8, <1>10, <1>11 DEF TableOK

-----------------------------------------------------------------------------
LEMMA InitIInv == Init => IInv
<1> SUFFICES ASSUME Init PROVE IInv
  OBVIOUS
<1>1. Open = <<Top>> /\ Len(Open) = 1 /\ Open[1] = Top /\ Top[1] = 0 /\ Top[2] = 1 /\ Top \in BlockIds
  BY DEF Init, Open, Top, BlockIds
<1>2. DOMAIN symbolTable = {Top} /\ DOMAIN symbolTable[Top] = Fields /\ symbolTable[Top].isTop = TRUE
      /\ symbolTable[Top].fatherBlockId = <<0, 0>>
      /\ SymbolsOf(Top) = [k \in {UniqueName("F", n) : n \in RuntimeFunctions} |-> Item("F", k[2], Top)]
  BY DEF Init, Fields, SymbolsOf
<1>3. \A k \in DOMAIN SymbolsOf(Top) : SymbolOK(Top, k)
  <2> SUFFICES ASSUME NEW k \in DOMAIN SymbolsOf(Top) PROVE SymbolOK(Top, k)
    OBVIOUS
  <2>1. PICK n \in RuntimeFunctions : k = UniqueName("F", n)
    BY <1>2
  <2>2. n \in FunctionNames /\ k[2] = n
    BY <2>1, NamesAssumption DEF UniqueName
  <2> QED  BY <1>2, <2>1, <2>2 DEF SymbolOK
<1>4. NumberOf(0) = 1 /\ NumbersOK
  BY DEF Init, NumberOf, NumbersOK
<1>5. TableOK
  <2>1. /\ symbolTable[Top].isTop \in BOOLEAN
        /\ symbolTable[Top].isTop <=> Top[1] = 0
    BY <1>1, <1>2, Zenon
  <2>2. Top[2] <= NumberOf(Top[1]) /\ symbolTable[Top].fatherBlockId \in BlockIds
    BY <1>1, <1>2, <1>4 DEF BlockIds
  <2>3. BlockOK(Top)
    BY <1>1, <1>2, <1>3, <2>1, <2>2 DEF BlockOK
  <2> QED  BY <1>2, <2>3 DEF TableOK
<1>6. PathOK
  BY <1>1, <1>2 DEF PathOK
<1>7. LocationOK
  BY <1>1 DEF LocationOK, Init, BlockIds
<1>8. SearchOK /\ SearchInOrder
  BY <1>2 DEF SearchOK, SearchInOrder, Init
<1> QED  BY <1>4, <1>5, <1>6, <1>7, <1>8 DEF IInv

-----------------------------------------------------------------------------
(* A new symbol is well filed, and nothing else of the table changes. *)
LEMMA InsertKeepsTable ==
  ASSUME IInv, NEW kind \in {"F", "V"}, NEW name, InsertSymbol(kind, name),
         kind = "V" => name \in VariableNames,
         kind = "F" => name \in FunctionNames /\ nowLayId = Top,
         UNCHANGED blockLayerId2LayerNum
  PROVE  TableOK' /\ NumbersOK'
<1>1. ASSUME NEW b \in DOMAIN symbolTable  PROVE BlockOK(b)'
  <2>1. BlockOK(b)
    BY DEF IInv, TableOK
  <2>2. ASSUME NEW k \in DOMAIN SymbolsOf(b)'  PROVE SymbolOK(b, k)'
    <3>1. CASE b # nowLayId
      BY <2>1, <2>2, <3>1, Inserted DEF BlockOK, SymbolOK
    <3>2. CASE b = nowLayId /\ k = UniqueName(kind, name)
      <4>1. SymbolsOf(b)'[k] = Item(kind, name, b)
        BY <3>2, Inserted DEF With, SymbolsOf
      <4> QED  BY <3>2, <4>1 DEF SymbolOK
    <3>3. CASE b = nowLayId /\ k # UniqueName(kind, name)
      <4>1. k \in DOMAIN SymbolsOf(b) /\ SymbolsOf(b)'[k] = SymbolsOf(b)[k]
        <5>1. SymbolsOf(b)' = With(SymbolsOf(b), UniqueName(kind, name), Item(kind, name, b))
          BY <3>3, Inserted DEF SymbolsOf
        <5>2. k \in DOMAIN SymbolsOf(b) \cup {UniqueName(kind, name)}
          BY <2>2, <5>1 DEF With
        <5> QED  BY <3>3, <5>1, <5>2 DEF With
      <4> QED  BY <2>1, <4>1 DEF BlockOK, SymbolOK
    <3> QED  BY <3>1, <3>2, <3>3
  <2>3. (b[2] <= NumberOf(b[1]))'
    BY <2>1 DEF BlockOK, NumberOf
  <2>4. (symbolTable[b].isTop \in BOOLEAN /\ (symbolTable[b].isTop <=> b[1] = 0))'
    BY <2>1, Inserted, Zenon DEF BlockOK
  <2> QED  BY <2>1, <2>2, <2>3, <2>4, Inserted DEF BlockOK
<1>2. NumbersOK'
  BY DEF IInv, NumbersOK
<1> QED  BY <1>1, <1>2, Inserted DEF TableOK

(* Nor does a search, or the nesting, see more than that. *)
LEMMA InsertKeepsRest ==
  ASSUME IInv, NEW kind, NEW name, InsertSymbol(kind, name), findName = {},
         UNCHANGED <<nowLayer, nowLayId, layIdInFuncFParams, callers, search>>,
         \/ UNCHANGED pc
         \/ pc = "items" /\ pc' = "func" /\ callers = <<>>
  PROVE  PathOK' /\ LocationOK' /\ SearchOK' /\ SearchInOrder'
<1>1. LocationOK'
  BY DEF IInv, LocationOK, search
<1>2. Open' = Open
  BY DEF Open
<1>3. PathOK'
  <2>1. \A i \in 1 .. Len(Open) : Open[i] \in DOMAIN symbolTable
    BY DEF IInv, PathOK
  <2> QED  BY <1>2, <2>1, Inserted DEF IInv, PathOK
<1>4. SearchOK' /\ SearchInOrder'
  BY Inserted DEF IInv, SearchOK, SearchInOrder, search
<1> QED  BY <1>1, <1>3, <1>4

-----------------------------------------------------------------------------
(* A new block is the last one of the path. *)
LEMMA OpensBlock ==
  ASSUME IInv, pc # "body", pc' # "body", findName = {},
         nowLayer' = nowLayer + 1,
         DistributeBlockId(nowLayer', nowLayId),
         callers' = Append(callers, nowLayId)
  PROVE  /\ Open' = Append(Open, nowLayId')
         /\ nowLayId' \notin DOMAIN symbolTable
         /\ \A b \in DOMAIN symbolTable : symbolTable'[b] = symbolTable[b]
         /\ DOMAIN symbolTable' = DOMAIN symbolTable \cup {nowLayId'}
         /\ symbolTable'[nowLayId'].symbolTableThisBlock = <<>>
         /\ TableOK' /\ NumbersOK' /\ PathOK'
         /\ callers' \in Seq(BlockIds) /\ nowLayId' \in BlockIds /\ nowLayer' = Len(callers')
<1>1. PICK l : l = nowLayer'
  OBVIOUS
<1>2. /\ callers \in Seq(BlockIds) /\ nowLayId \in BlockIds /\ nowLayer = Len(callers)
      /\ Open = Append(callers, nowLayId)
  BY DEF IInv, LocationOK, Open
<1>3. l \in Nat /\ l > 0 /\ l = Len(callers) + 1 /\ DistributeBlockId(l, nowLayId)
  BY <1>1, <1>2
<1>4. /\ nowLayId' \notin DOMAIN symbolTable
      /\ nowLayId' \in BlockIds
      /\ nowLayId'[1] = l
      /\ DOMAIN symbolTable' = DOMAIN symbolTable \cup {nowLayId'}
      /\ \A b \in DOMAIN symbolTable : symbolTable'[b] = symbolTable[b]
      /\ symbolTable'[nowLayId'].fatherBlockId = nowLayId
      /\ symbolTable'[nowLayId'].symbolTableThisBlock = <<>>
      /\ TableOK'
      /\ NumbersOK'
  BY <1>2, <1>3, Distributed
<1>5. Open' = Append(Open, nowLayId')
  BY <1>2 DEF Open
<1>6. /\ Len(Open) = Len(callers) + 1 /\ Open \in Seq(BlockIds)
      /\ Len(Open') = Len(Open) + 1
      /\ Open'[Len(Open) + 1] = nowLayId'
      /\ \A i \in 1 .. Len(Open) : Open'[i] = Open[i]
      /\ Open[Len(Open)] = nowLayId
  BY <1>2, <1>4, <1>5
<1>7. PathOK'
  <2>1. ASSUME NEW i \in 1 .. Len(Open')
        PROVE  Open'[i] \in DOMAIN symbolTable' /\ Open'[i][1] = i - 1
    BY <1>3, <1>4, <1>6 DEF IInv, PathOK
  <2>2. Open'[1] = Top
    BY <1>6 DEF IInv, PathOK
  <2>3. ASSUME NEW i \in 2 .. Len(Open')
        PROVE  symbolTable'[Open'[i]].fatherBlockId = Open'[i - 1]
    <3>1. CASE i = Len(Open')
      BY <1>4, <1>6, <3>1
    <3>2. CASE i # Len(Open')
      <4>1. i \in 2 .. Len(Open) /\ i - 1 \in 1 .. Len(Open)
        BY <1>6, <3>2
      <4> QED  BY <1>4, <1>6, <4>1 DEF IInv, PathOK
    <3> QED  BY <3>1, <3>2
  <2> QED  BY <2>1, <2>2, <2>3 DEF PathOK
<1> QED  BY <1>2, <1>4, <1>5, <1>7

(* At the end of a block the path is what it was before the block. *)
LEMMA ClosesBlock ==
  ASSUME IInv, pc # "body", pc' # "body", nowLayer > 0, Return
  PROVE  /\ Open \in Seq(BlockIds) /\ Len(Open) > 1
         /\ Open' = SubSeq(Open, 1, Len(Open) - 1)
         /\ Open' \in Seq(BlockIds) /\ Len(Open') = Len(Open) - 1
         /\ \A i \in 1 .. Len(Open') : Open'[i] = Open[i]
         /\ callers' \in Seq(BlockIds) /\ nowLayId' \in BlockIds /\ nowLayer' = Len(callers')
<1>1. /\ callers \in Seq(BlockIds) /\ nowLayId \in BlockIds /\ nowLayer = Len(callers)
      /\ Open = Append(callers, nowLayId) /\ Len(callers) \in Nat /\ Len(callers) > 0
  BY DEF IInv, LocationOK, Open
<1>2. /\ callers' = SubSeq(callers, 1, Len(callers) - 1)
      /\ nowLayId' = callers[Len(callers)]
      /\ nowLayer' = nowLayer - 1
      /\ Open' = Append(callers', nowLayId')
  BY DEF Return, Open
<1>3. /\ callers' \in Seq(BlockIds) /\ Len(callers') = Len(callers) - 1
      /\ \A i \in 1 .. Len(callers) - 1 : callers'[i] = callers[i]
      /\ nowLayId' \in BlockIds
  BY <1>1, <1>2
<1>4. Open' \in Seq(BlockIds) /\ Len(Open') = Len(callers) /\ Len(Open) = Len(callers) + 1
      /\ Open \in Seq(BlockIds)
  BY <1>1, <1>2, <1>3
<1>5. ASSUME NEW i \in 1 .. Len(Open')  PROVE Open'[i] = Open[i]
  BY <1>1, <1>2, <1>3, <1>4
<1>6. SubSeq(Open, 1, Len(Open) - 1) \in Seq(BlockIds)
      /\ Len(SubSeq(Open, 1, Len(Open) - 1)) = Len(Open) - 1
      /\ \A i \in 1 .. Len(Open) - 1 : SubSeq(Open, 1, Len(Open) - 1)[i] = Open[i]
  BY <1>1, <1>4
<1>7. Open' = SubSeq(Open, 1, Len(Open) - 1)
  BY <1>4, <1>5, <1>6, SeqEqual
<1> QED  BY <1>1, <1>2, <1>3, <1>4, <1>5, <1>7

-----------------------------------------------------------------------------
(* Steps that leave the table alone keep what is said of it. *)
LEMMA TableUnchanged ==
  ASSUME TableOK, NumbersOK, UNCHANGED table
  PROVE  TableOK' /\ NumbersOK'
<1>1. UNCHANGED <<symbolTable, blockLayerId2LayerNum>>
  BY DEF table
<1>2. ASSUME NEW b \in DOMAIN symbolTable  PROVE BlockOK(b)'
  BY <1>1 DEF TableOK, BlockOK, NumberOf, SymbolOK, SymbolsOf
<1> QED  BY <1>1, <1>2 DEF TableOK, NumbersOK

(* A search is not begun where nothing can be found, and goes up the path. *)
LEMMA SearchStep ==
  ASSUME IInv, NEW k \in findName, FindFather(k)
  PROVE  SearchOK' /\ SearchInOrder' /\ PathOK' /\ LocationOK'
<1>1. PICK i \in 1 .. Len(Open) :
        /\ startBlockId = Open[i]
        /\ \A j \in i + 1 .. Len(Open) : k \notin DOMAIN SymbolsOf(Open[j])
  BY DEF IInv, SearchInOrder
<1>2. Open[i][1] # 0
  <2>1. BlockOK(Open[i]) /\ ~symbolTable[Open[i]].isTop
    BY <1>1 DEF FindFather, IInv, PathOK, TableOK
  <2> QED  BY <2>1, Zenon DEF BlockOK
<1>3. Len(Open) \in Nat
  BY OpenBlocks DEF IInv
<1>4. i - 1 \in 1 .. Len(Open) /\ i \in 2 .. Len(Open)
  BY <1>1, <1>2, <1>3 DEF IInv, PathOK
<1>5. startBlockId' = Open[i - 1]
  BY <1>1, <1>4 DEF FindFather, IInv, PathOK
<1>6. /\ UNCHANGED <<symbolTable, nowLayer, nowLayId, layIdInFuncFParams, callers, pc, findName>>
      /\ Open' = Open
  BY DEF FindFather, table, location, Open
<1>7. k \notin DOMAIN SymbolsOf(Open[i])
  BY <1>1 DEF FindFather
<1>8. \A j \in (i - 1) + 1 .. Len(Open) : k \notin DOMAIN SymbolsOf(Open[j])
  BY <1>1, <1>3, <1>7
<1>9. \A x \in findName : x = k
  BY DEF IInv, SearchOK
<1>10. SearchInOrder'
  BY <1>4, <1>5, <1>6, <1>8, <1>9 DEF SearchInOrder, SymbolsOf
<1>11. SearchOK'
  BY <1>4, <1>5, <1>6 DEF IInv, SearchOK, Visible, SymbolsOf, PathOK
<1>12. PathOK' /\ LocationOK'
  BY <1>6 DEF IInv, PathOK, LocationOK
<1> QED  BY <1>10, <1>11, <1>12

LEMMA NextIInv == IInv /\ [Next]_vars => IInv'
<1> SUFFICES ASSUME IInv, [Next]_vars PROVE IInv'
  OBVIOUS
<1>1. ASSUME NEW name \in VariableNames, DefineVariable(name)  PROVE IInv'
  <2>1. /\ findName = {} /\ InsertSymbol("V", name)
        /\ UNCHANGED <<blockLayerId2LayerNum, nowLayer, nowLayId, layIdInFuncFParams, callers, search, pc>>
    BY <1>1 DEF DefineVariable, location
  <2>2. TableOK' /\ NumbersOK'
    BY <2>1, InsertKeepsTable
  <2>3. PathOK' /\ LocationOK' /\ SearchOK' /\ SearchInOrder'
    BY <2>1, InsertKeepsRest
  <2> QED  BY <2>2, <2>3 DEF IInv
<1>2. ASSUME NEW name \in FunctionNames, DefineFunction(name)  PROVE IInv'
  <2>1. /\ findName = {} /\ InsertSymbol("F", name) /\ pc = "items" /\ nowLayer = 0 /\ pc' = "func"
        /\ UNCHANGED <<blockLayerId2LayerNum, nowLayer, nowLayId, layIdInFuncFParams, callers, search>>
    BY <1>2 DEF DefineFunction
  <2>2. callers = <<>> /\ nowLayId = Top
    <3>1. callers \in Seq(BlockIds) /\ Len(callers) = 0
      BY <2>1 DEF IInv, LocationOK
    <3>2. callers = <<>>
      BY <3>1, EmptySeq
    <3>3. Open[1] = nowLayId
      BY <2>1, <3>2 DEF Open
    <3> QED  BY <3>2, <3>3 DEF IInv, PathOK
  <2>3. TableOK' /\ NumbersOK'
    BY <2>1, <2>2, InsertKeepsTable
  <2>4. PathOK' /\ LocationOK' /\ SearchOK' /\ SearchInOrder'
    BY <2>1, <2>2, InsertKeepsRest
  <2> QED  BY <2>3, <2>4 DEF IInv
<1>3. CASE BeginParameters
  <2>1. /\ pc = "func" /\ pc' = "params" /\ nowLayer' = nowLayer + 1
        /\ DistributeBlockId(nowLayer', nowLayId) /\ callers' = Append(callers, nowLayId)
        /\ layIdInFuncFParams' = nowLayId' /\ UNCHANGED search
    BY <1>3 DEF BeginParameters
  <2>2. findName = {} /\ callers = <<>>
    BY <2>1 DEF IInv, LocationOK
  <2>3. /\ TableOK' /\ NumbersOK' /\ PathOK'
        /\ callers' \in Seq(BlockIds) /\ nowLayId' \in BlockIds /\ nowLayer' = Len(callers')
        /\ DOMAIN symbolTable' = DOMAIN symbolTable \cup {nowLayId'}
    BY <2>1, <2>2, OpensBlock
  <2>4. LocationOK'
    BY <2>1, <2>2, <2>3 DEF IInv, LocationOK, search
  <2>5. SearchOK' /\ SearchInOrder'
    BY <2>1, <2>2, <2>3 DEF IInv, SearchOK, SearchInOrder, search
  <2> QED  BY <2>3, <2>4, <2>5 DEF IInv
<1>4. CASE EndParameters
  <2>1. /\ findName = {} /\ pc = "params" /\ pc' = "body" /\ Len(callers) = 1
        /\ layIdInFuncFParams = nowLayId /\ nowLayer = 1
        /\ UNCHANGED <<symbolTable, blockLayerId2LayerNum, layIdInFuncFParams, search>>
    BY <1>4 DEF EndParameters, table, IInv, LocationOK
  <2>2. /\ callers \in Seq(BlockIds) /\ nowLayId' = callers[1] /\ nowLayer' = 0
        /\ callers' = SubSeq(callers, 1, 0)
    BY <1>4, <2>1 DEF EndParameters, Return, IInv, LocationOK
  <2>3. callers' = <<>> /\ callers[1] \in BlockIds
    BY <2>1, <2>2, SubSeqEmpty
  <2>4. /\ Len(Open) = 2 /\ Open[1] = callers[1] /\ Open[2] = nowLayId
        /\ Len(Open') = 2 /\ Open'[1] = callers[1] /\ Open'[2] = nowLayId
    <3>1. Len(Open) = 2 /\ Open[1] = callers[1] /\ Open[2] = nowLayId
      BY <2>1, OpenBlocks DEF IInv
    <3>2. Open' = <<callers[1], nowLayId>>
      BY <2>1, <2>2 DEF Open
    <3> QED  BY <3>1, <3>2
  <2>5. PathOK'
    BY <2>1, <2>4 DEF IInv, PathOK
  <2>6. LocationOK'
    BY <2>1, <2>2, <2>3 DEF IInv, LocationOK, search
  <2>7. SearchOK' /\ SearchInOrder'
    BY <2>1 DEF IInv, SearchOK, SearchInOrder, search
  <2> QED  BY <2>1, <2>5, <2>6, <2>7, TableUnchanged DEF IInv, table
<1>5. CASE EnterFunctionBlock
  <2>1. /\ pc = "body" /\ pc' = "items" /\ callers = <<>> /\ findName = {} /\ nowLayer = 0
        /\ nowLayer' = 1 /\ nowLayId' = layIdInFuncFParams /\ callers' = Append(callers, nowLayId)
        /\ UNCHANGED <<symbolTable, blockLayerId2LayerNum, layIdInFuncFParams, search>>
    BY <1>5 DEF EnterFunctionBlock, table, IInv, LocationOK
  <2>2. /\ nowLayId \in BlockIds /\ layIdInFuncFParams \in BlockIds
        /\ callers' = <<nowLayId>>
    BY <2>1 DEF IInv, LocationOK
  <2>3. /\ Len(Open) = 2 /\ Open[1] = nowLayId /\ Open[2] = layIdInFuncFParams
        /\ Len(Open') = 2 /\ Open'[1] = nowLayId /\ Open'[2] = layIdInFuncFParams
    BY <2>1, <2>2 DEF Open
  <2>4. PathOK'
    BY <2>1, <2>3 DEF IInv, PathOK
  <2>5. LocationOK'
    BY <2>1, <2>2 DEF IInv, LocationOK, search
  <2>6. SearchOK' /\ SearchInOrder'
    BY <2>1 DEF IInv, SearchOK, SearchInOrder, search
  <2> QED  BY <2>1, <2>4, <2>5, <2>6, TableUnchanged DEF IInv, table
<1>6. CASE EnterBlock
  <2>1. /\ findName = {} /\ pc = "items" /\ pc' = "items" /\ nowLayer' = nowLayer + 1
        /\ DistributeBlockId(nowLayer', nowLayId) /\ callers' = Append(callers, nowLayId)
        /\ UNCHANGED <<layIdInFuncFParams, search>>
    BY <1>6 DEF EnterBlock
  <2>2. /\ TableOK' /\ NumbersOK' /\ PathOK'
        /\ callers' \in Seq(BlockIds) /\ nowLayId' \in BlockIds /\ nowLayer' = Len(callers')
        /\ DOMAIN symbolTable' = DOMAIN symbolTable \cup {nowLayId'}
    BY <2>1, OpensBlock
  <2>3. LocationOK'
    BY <2>1, <2>2 DEF IInv, LocationOK, search
  <2>4. SearchOK' /\ SearchInOrder'
    BY <2>1, <2>2 DEF IInv, SearchOK, SearchInOrder, search
  <2> QED  BY <2>2, <2>3, <2>4 DEF IInv
<1>7. CASE LeaveBlock
  <2>1. /\ findName = {} /\ pc = "items" /\ pc' = "items" /\ nowLayer > 0 /\ Return
        /\ UNCHANGED <<symbolTable, blockLayerId2LayerNum, layIdInFuncFParams, search>>
    BY <1>7 DEF LeaveBlock, table
  <2>2. /\ Open \in Seq(BlockIds) /\ Len(Open) > 1
        /\ Len(Open') = Len(Open) - 1
        /\ \A i \in 1 .. Len(Open') : Open'[i] = Open[i]
        /\ callers' \in Seq(BlockIds) /\ nowLayId' \in BlockIds /\ nowLayer' = Len(callers')
    BY <2>1, ClosesBlock
  <2>3. PathOK'
    <3>1. ASSUME NEW i \in 1 .. Len(Open')
          PROVE  /\ Open'[i] \in DOMAIN symbolTable' /\ Open'[i][1] = i - 1
                 /\ i \in 2 .. Len(Open') => symbolTable'[Open'[i]].fatherBlockId = Open'[i - 1]
      <4>1. i \in 1 .. Len(Open) /\ Open'[i] = Open[i]
        BY <2>2
      <4>2. i \in 2 .. Len(Open') => /\ i \in 2 .. Len(Open) /\ i - 1 \in 1 .. Len(Open')
                                     /\ Open'[i - 1] = Open[i - 1]
        BY <2>2
      <4> QED  BY <2>1, <4>1, <4>2 DEF IInv, PathOK
    <3>2. Open'[1] = Top
      BY <2>2 DEF IInv, PathOK
    <3>3. \A i \in 2 .. Len(Open') : i \in 1 .. Len(Open')
      BY <2>2
    <3> QED  BY <3>1, <3>2, <3>3 DEF PathOK
  <2>4. LocationOK'
    BY <2>1, <2>2 DEF IInv, LocationOK, search
  <2>5. SearchOK' /\ SearchInOrder'
    BY <2>1 DEF IInv, SearchOK, SearchInOrder, search
  <2> QED  BY <2>1, <2>3, <2>4, <2>5, TableUnchanged DEF IInv, table
<1>8. ASSUME NEW kind \in {"F", "V"}, NEW name, Use(kind, name),
             kind = "V" => name \in VariableNames, kind = "F" => name \in FunctionNames
      PROVE  IInv'
  <2>1. /\ pc \in {"items", "params"} /\ findName = {} /\ findName' = {<<kind, name>>}
        /\ startBlockId' = nowLayId /\ Visible(<<kind, name>>)
        /\ kind = "F" => name # Main
        /\ UNCHANGED <<symbolTable, blockLayerId2LayerNum, nowLayer, nowLayId, layIdInFuncFParams, callers, pc>>
    BY <1>8 DEF Use, table, location
  <2>2. Open' = Open /\ Len(Open) \in Nat /\ Len(Open) > 0 /\ Open[Len(Open)] = nowLayId
    BY <2>1, OpenBlocks DEF Open, IInv, LocationOK
  <2>3. nowLayId \in DOMAIN symbolTable
    BY <2>2 DEF IInv, PathOK
  <2>4. SearchInOrder'
    BY <2>1, <2>2 DEF SearchInOrder
  <2>5. Visible(<<kind, name>>)'
    BY <2>1, <2>2 DEF Visible, SymbolsOf
  <2>6. SearchOK'
    BY <2>1, <2>3, <2>5, <1>8 DEF SearchOK
  <2>7. PathOK' /\ LocationOK'
    BY <2>1, <2>2 DEF IInv, PathOK, LocationOK
  <2> QED  BY <2>1, <2>4, <2>6, <2>7, TableUnchanged DEF IInv, table
<1>9. ASSUME NEW k \in findName, FindFather(k)  PROVE IInv'
  BY <1>9, SearchStep, TableUnchanged DEF IInv, FindFather
<1>10. ASSUME NEW k \in findName, FindAnswer(k)  PROVE IInv'
  <2>1. /\ findName' = {} /\ startBlockId' = Top
        /\ UNCHANGED <<symbolTable, blockLayerId2LayerNum, nowLayer, nowLayId, layIdInFuncFParams, callers, pc>>
    BY <1>10 DEF FindAnswer, table, location
  <2>2. Open' = Open /\ Top \in DOMAIN symbolTable
    <3>1. Open' = Open
      BY <2>1 DEF Open
    <3>2. Len(Open) \in Nat /\ Len(Open) > 0
      BY OpenBlocks DEF IInv, LocationOK
    <3> QED  BY <3>1, <3>2 DEF IInv, PathOK
  <2>3. PathOK' /\ LocationOK'
    BY <2>1, <2>2 DEF IInv, PathOK, LocationOK
  <2>4. SearchOK' /\ SearchInOrder'
    BY <2>1, <2>2 DEF SearchOK, SearchInOrder
  <2> QED  BY <2>1, <2>3, <2>4, TableUnchanged DEF IInv, table
<1>11. CASE UNCHANGED vars
  <2>1. UNCHANGED <<symbolTable, blockLayerId2LayerNum, nowLayer, nowLayId, layIdInFuncFParams,
                    callers, pc, findName, startBlockId, Open>>
    BY <1>11 DEF vars, Open
  <2>2. PathOK' /\ LocationOK' /\ SearchOK' /\ SearchInOrder'
    BY <2>1 DEF IInv, PathOK, LocationOK, SearchOK, SearchInOrder, Visible, SymbolsOf
  <2> QED  BY <2>1, <2>2, TableUnchanged DEF IInv, table
<1> QED  BY <1>1, <1>2, <1>3, <1>4, <1>5, <1>6, <1>7, <1>8, <1>9, <1>10, <1>11
         DEF Next, FindSymbol

THEOREM SpecIInv == Spec => []IInv
  BY InitIInv, NextIInv, PTL DEF Spec

-----------------------------------------------------------------------------
(* The types of the table and of the analysis are kept, in any program. *)
THEOREM TypeCorrect == Spec => []TypeOK
<1>1. ASSUME IInv  PROVE TypeOK
  <2>1. ASSUME NEW b \in DOMAIN symbolTable
        PROVE  /\ b \in BlockIds
               /\ symbolTable[b].isTop \in BOOLEAN
               /\ symbolTable[b].fatherBlockId \in BlockIds
               /\ DOMAIN SymbolsOf(b) \subseteq UniqueNames
               /\ \A k \in DOMAIN SymbolsOf(b) : SymbolsOf(b)[k].blockId = b
    <3>1. BlockOK(b)
      BY <1>1 DEF IInv, TableOK
    <3>2. ASSUME NEW k \in DOMAIN SymbolsOf(b)
          PROVE  k \in UniqueNames /\ SymbolsOf(b)[k].blockId = b
      BY <3>1, <3>2 DEF BlockOK, SymbolOK, UniqueNames, Item
    <3>3. symbolTable[b].isTop \in BOOLEAN /\ b \in BlockIds /\ symbolTable[b].fatherBlockId \in BlockIds
      BY <3>1 DEF BlockOK
    <3> QED  BY <3>2, <3>3
  <2>2. nowLayId \in DOMAIN symbolTable /\ callers \in Seq(DOMAIN symbolTable)
    <3>1. Len(Open) \in Nat
      BY <1>1, OpenBlocks DEF IInv
    <3>2. CASE pc = "body"
      BY <1>1, <3>1, <3>2, OpenBlocks DEF IInv, PathOK, LocationOK
    <3>3. CASE pc # "body"
      <4>1. \A i \in 1 .. Len(callers) : callers[i] \in DOMAIN symbolTable
        BY <1>1, <3>3, OpenBlocks DEF IInv, PathOK, LocationOK
      <4>2. callers \in Seq(BlockIds)
        BY <1>1 DEF IInv, LocationOK
      <4> QED  BY <1>1, <3>1, <3>3, <4>1, <4>2, OpenBlocks, IsASeq DEF IInv, PathOK, LocationOK
    <3> QED  BY <3>2, <3>3
  <2>3. findName \subseteq UniqueNames
    BY <1>1 DEF IInv, SearchOK, UniqueNames, UniqueName
  <2>4. /\ nowLayer \in Nat
        /\ layIdInFuncFParams \in BlockIds
        /\ pc \in {"items", "func", "params", "body"}
        /\ startBlockId \in DOMAIN symbolTable
    BY <1>1 DEF IInv, LocationOK, SearchOK
  <2> QED  BY <1>1, <2>1, <2>2, <2>3, <2>4 DEF TypeOK, IInv, NumbersOK
<1> QED  BY <1>1, SpecIInv, PTL

(* A search passes the open blocks from the inside to the outside and      *)
(* passes no declaration of its name, at any depth.                        *)
THEOREM SearchesInOrder == Spec => []SearchInOrder
<1>1. IInv => SearchInOrder
  BY DEF IInv
<1> QED  BY <1>1, SpecIInv, PTL

(* No step overwrites a block or a symbol that is in the table. *)
LEMMA StepKeepsDeclarations ==
  ASSUME IInv, [Next]_vars, NEW b \in DOMAIN symbolTable
  PROVE  /\ b \in DOMAIN symbolTable'
         /\ symbolTable'[b].fatherBlockId = symbolTable[b].fatherBlockId
         /\ \A k \in DOMAIN SymbolsOf(b) :
              /\ k \in DOMAIN symbolTable'[b].symbolTableThisBlock
              /\ symbolTable'[b].symbolTableThisBlock[k] = SymbolsOf(b)[k]
<1> DEFINE Kept == /\ b \in DOMAIN symbolTable'
                   /\ symbolTable'[b].fatherBlockId = symbolTable[b].fatherBlockId
                   /\ \A k \in DOMAIN SymbolsOf(b) :
                        /\ k \in DOMAIN symbolTable'[b].symbolTableThisBlock
                        /\ symbolTable'[b].symbolTableThisBlock[k] = SymbolsOf(b)[k]
<1>1. ASSUME NEW kind, NEW name, Undeclared(kind, name), InsertSymbol(kind, name)  PROVE Kept
  <2>1. CASE b = nowLayId
    <3>1. symbolTable'[b].symbolTableThisBlock
            = With(SymbolsOf(b), UniqueName(kind, name), Item(kind, name, b))
      BY <1>1, <2>1, Inserted
    <3>2. UniqueName(kind, name) \notin DOMAIN SymbolsOf(b)
      BY <1>1, <2>1 DEF Undeclared
    <3>3. \A k \in DOMAIN SymbolsOf(b) :
              /\ k \in DOMAIN symbolTable'[b].symbolTableThisBlock
              /\ symbolTable'[b].symbolTableThisBlock[k] = SymbolsOf(b)[k]
      BY <3>1, <3>2 DEF With
    <3> QED  BY <1>1, <3>3, Inserted
  <2>2. CASE b # nowLayId
    BY <1>1, <2>2, Inserted DEF SymbolsOf
  <2> QED  BY <2>1, <2>2
<1>2. CASE BeginParameters
  <2>1. symbolTable'[b] = symbolTable[b] /\ b \in DOMAIN symbolTable'
    BY <1>2, OpensBlock DEF BeginParameters, IInv, LocationOK
  <2> QED  BY <2>1 DEF SymbolsOf
<1>3. CASE EnterBlock
  <2>1. symbolTable'[b] = symbolTable[b] /\ b \in DOMAIN symbolTable'
    BY <1>3, OpensBlock DEF EnterBlock
  <2> QED  BY <2>1 DEF SymbolsOf
<1>4. ASSUME UNCHANGED symbolTable  PROVE Kept
  BY <1>4 DEF SymbolsOf
<1>5. CASE \E name \in VariableNames : DefineVariable(name) \/ Use("V", name)
  BY <1>1, <1>4, <1>5 DEF DefineVariable, Use, table
<1>6. CASE \E name \in FunctionNames : DefineFunction(name) \/ Use("F", name)
  BY <1>1, <1>4, <1>6 DEF DefineFunction, Use, table
<1>7. CASE EndParameters \/ EnterFunctionBlock \/ LeaveBlock \/ FindSymbol \/ UNCHANGED vars
  BY <1>4, <1>7 DEF EndParameters, EnterFunctionBlock, LeaveBlock, FindSymbol, FindFather,
                    FindAnswer, table, vars
<1> QED  BY <1>2, <1>3, <1>5, <1>6, <1>7 DEF Next

(* What was declared stays declared, in any program. *)
THEOREM AllDeclarationsKept == Spec => DeclarationsKept
<1>1. ASSUME IInv, [Next]_vars
      PROVE  [\A b \in DOMAIN symbolTable :
               /\ b \in DOMAIN symbolTable'
               /\ symbolTable'[b].fatherBlockId = symbolTable[b].fatherBlockId
               /\ \A k \in DOMAIN SymbolsOf(b) :
                    /\ k \in DOMAIN symbolTable'[b].symbolTableThisBlock
                    /\ symbolTable'[b].symbolTableThisBlock[k] = SymbolsOf(b)[k]]_vars
  BY <1>1, StepKeepsDeclarations
<1> QED  BY <1>1, SpecIInv, PTL DEF Spec, DeclarationsKept

-----------------------------------------------------------------------------
(* Nothing in the table has the usage name of a new declaration. *)
LEMMA NewUsageName ==
  ASSUME IInv, NEW kind \in {"F", "V"}, NEW name, Undeclared(kind, name),
         kind = "F" => nowLayId = Top, nowLayId \in BlockIds,
         NEW b \in DOMAIN symbolTable, NEW k \in DOMAIN SymbolsOf(b)
  PROVE  SymbolsOf(b)[k].usageName # UsageName(kind, name, nowLayId)
<1> SUFFICES ASSUME SymbolsOf(b)[k].usageName = UsageName(kind, name, nowLayId)
             PROVE  k = UniqueName(kind, name) /\ b = nowLayId
  BY DEF Undeclared
<1>1. SymbolOK(b, k) /\ b \in BlockIds
  BY DEF IInv, TableOK, BlockOK
<1>2. ASSUME NEW n, k = UniqueName("V", n), SymbolsOf(b)[k] = Item("V", n, b)
      PROVE  k = UniqueName(kind, name) /\ b = nowLayId
  <2>1. [kind |-> "V", layer |-> b[1], num |-> b[2], name |-> n] = UsageName(kind, name, nowLayId)
    BY <1>2 DEF Item, UsageName
  <2>2. kind = "V" /\ n = name /\ b[1] = nowLayId[1] /\ b[2] = nowLayId[2]
    BY <2>1 DEF UsageName
  <2> QED  BY <1>1, <1>2, <2>2 DEF BlockIds
<1>3. ASSUME NEW n, k = UniqueName("F", n), SymbolsOf(b)[k] = Item("F", n, b), b = Top
      PROVE  k = UniqueName(kind, name) /\ b = nowLayId
  <2>1. UsageName("F", n, b) = UsageName(kind, name, nowLayId)
    BY <1>3 DEF Item
  <2>2. kind = "F" /\ n = name
    BY <2>1 DEF UsageName
  <2> QED  BY <1>3, <2>2
<1> QED  BY <1>1, <1>2, <1>3 DEF SymbolOK

-----------------------------------------------------------------------------
(* The variables of Scopes, as the table shows them. *)
LScopes == [i \in 1 .. Len(Open) |-> UsageNamesIn(Open[i])]

LObjects == UNION {{SymbolsOf(b)[k].usageName : k \in DOMAIN SymbolsOf(b)} :
                     b \in DOMAIN symbolTable}

LEMMA Pair ==
  ASSUME NEW S, NEW s \in Seq(S), NEW a \in S, Len(s) = 1
  PROVE  Append(s, a) = <<s[1], a>>
<1>1. Append(s, a) \in Seq(S) /\ Len(Append(s, a)) = 2
  OBVIOUS
<1>2. Append(s, a)[1] = s[1] /\ Append(s, a)[2] = a /\ s[1] \in S
  OBVIOUS
<1>3. <<s[1], a>> \in Seq(S) /\ Len(<<s[1], a>>) = 2
  BY <1>2
<1>4. ASSUME NEW i \in 1 .. 2  PROVE Append(s, a)[i] = <<s[1], a>>[i]
  <2>1. <<s[1], a>>[1] = s[1] /\ <<s[1], a>>[2] = a
    OBVIOUS
  <2>2. CASE i = 1
    BY <1>2, <2>1, <2>2
  <2>3. CASE i = 2
    BY <1>2, <2>1, <2>3
  <2>4. i = 1 \/ i = 2
    OBVIOUS
  <2> QED  BY <2>2, <2>3, <2>4
<1> QED  BY <1>1, <1>3, <1>4, SeqEqual

LEMMA Single ==
  ASSUME NEW S, NEW s \in Seq(S), NEW a \in S, NEW b \in S, Len(s) = 0
  PROVE  Append(Append(s, a), b) = <<a, b>>
<1>1. Append(s, a) \in Seq(S) /\ Len(Append(s, a)) = 1 /\ Append(s, a)[1] = a
  OBVIOUS
<1> QED  BY <1>1, Pair

(* An insertion is a declaration. *)
LEMMA InsertDeclares ==
  ASSUME IInv, NEW kind \in {"F", "V"}, NEW name, Undeclared(kind, name),
         InsertSymbol(kind, name), kind = "F" => nowLayId = Top, pc # "body",
         Open' = Open, UNCHANGED found
  PROVE  Language!Declare(UniqueName(kind, name))
<1> DEFINE n == Len(Open)
           key == UniqueName(kind, name)
           new == UsageName(kind, name, nowLayId)
<1>1. n \in Nat /\ n > 0 /\ Open[n] = nowLayId /\ nowLayId \in BlockIds
  BY OpenBlocks DEF IInv, LocationOK
<1>2. \A i \in 1 .. n : Open[i] \in DOMAIN symbolTable /\ (i # n => Open[i] # nowLayId)
  BY <1>1 DEF IInv, PathOK
<1>3. \A b \in DOMAIN symbolTable : b # nowLayId => UsageNamesIn(b)' = UsageNamesIn(b)
  BY Inserted DEF UsageNamesIn
<1>4. /\ nowLayId \in DOMAIN symbolTable
      /\ symbolTable'[nowLayId].symbolTableThisBlock
           = With(SymbolsOf(nowLayId), key, Item(kind, name, nowLayId))
      /\ DOMAIN symbolTable' = DOMAIN symbolTable
  BY Inserted
<1>5. key \notin DOMAIN SymbolsOf(nowLayId)
  BY DEF Undeclared
<1>6. PICK here : here = nowLayId
  OBVIOUS
<1>7. SymbolsOf(here)' = With(SymbolsOf(here), key, Item(kind, name, here))
  BY <1>4, <1>6 DEF SymbolsOf
<1>8. /\ DOMAIN SymbolsOf(here)' = DOMAIN SymbolsOf(here) \cup {key}
      /\ SymbolsOf(here)'[key].usageName = new
      /\ \A k \in DOMAIN SymbolsOf(here) : SymbolsOf(here)'[k] = SymbolsOf(here)[k]
  BY <1>5, <1>6, <1>7 DEF With, Item
<1>9. UsageNamesIn(here)' = [x \in DOMAIN UsageNamesIn(here) \cup {key} |->
                               IF x = key THEN new ELSE UsageNamesIn(here)[x]]
  BY <1>5, <1>8 DEF UsageNamesIn
<1>10. LScopes' = [LScopes EXCEPT ![n] =
                     [x \in DOMAIN UsageNamesIn(here) \cup {key} |->
                        IF x = key THEN new ELSE UsageNamesIn(here)[x]]]
  <2> DEFINE names(f) == [k \in DOMAIN f |-> f[k].usageName]
             updated == [x \in DOMAIN UsageNamesIn(here) \cup {key} |->
                           IF x = key THEN new ELSE UsageNamesIn(here)[x]]
  <2>1. LScopes' = [i \in 1 .. n |-> names(symbolTable'[Open[i]].symbolTableThisBlock)]
    BY DEF LScopes, UsageNamesIn, SymbolsOf
  <2>2. names(symbolTable'[Open[n]].symbolTableThisBlock) = updated
    BY <1>1, <1>6, <1>9 DEF UsageNamesIn, SymbolsOf
  <2>3. ASSUME NEW i \in 1 .. n, i # n
        PROVE  names(symbolTable'[Open[i]].symbolTableThisBlock) = UsageNamesIn(Open[i])
    BY <1>2, <2>3, Inserted DEF UsageNamesIn, SymbolsOf
  <2> HIDE DEF names, updated
  <2>4. LScopes' = [i \in 1 .. n |-> IF i = n THEN updated ELSE UsageNamesIn(Open[i])]
    BY <2>1, <2>2, <2>3
  <2>5. [LScopes EXCEPT ![n] = updated]
          = [i \in 1 .. n |-> IF i = n THEN updated ELSE UsageNamesIn(Open[i])]
    BY DEF LScopes
  <2> QED  BY <2>4, <2>5 DEF updated
<1>11. new \notin LObjects
  BY <1>1, NewUsageName DEF LObjects
<1>12. LObjects' = LObjects \cup {new}
  <2>1. \A b \in DOMAIN symbolTable : b # here => SymbolsOf(b)' = SymbolsOf(b)
    BY <1>6, Inserted
  <2>2. here \in DOMAIN symbolTable
    BY <1>4, <1>6
  <2>3. ASSUME NEW u \in LObjects'  PROVE u \in LObjects \cup {new}
    BY <1>4, <1>8, <2>1, <2>2 DEF LObjects
  <2>4. ASSUME NEW u \in LObjects \cup {new}  PROVE u \in LObjects'
    BY <1>4, <1>8, <2>1, <2>2 DEF LObjects
  <2> QED  BY <2>3, <2>4
<1>13. LScopes[Len(LScopes)] = UsageNamesIn(here) /\ Len(LScopes) = n
  BY <1>1, <1>6 DEF LScopes
<1>14. key \notin DOMAIN UsageNamesIn(here)
  BY <1>5, <1>6 DEF UsageNamesIn
<1> HIDE DEF n, key, new
<1>15. /\ key \notin DOMAIN LScopes[Len(LScopes)]
       /\ new \in LObjects' \ LObjects
       /\ LObjects' = LObjects \cup {new}
       /\ LScopes' = [LScopes EXCEPT ![Len(LScopes)] =
                        [x \in DOMAIN LScopes[Len(LScopes)] \cup {key} |->
                           IF x = key THEN new ELSE LScopes[Len(LScopes)][x]]]
  BY <1>10, <1>11, <1>12, <1>13, <1>14
<1> QED  BY <1>15 DEF Language!Declare, LScopes, LObjects, key

(* A new block opens a scope that is empty. *)
LEMMA BlockOpens ==
  ASSUME IInv, pc # "body", pc' # "body", findName = {},
         nowLayer' = nowLayer + 1,
         DistributeBlockId(nowLayer', nowLayId),
         callers' = Append(callers, nowLayId),
         UNCHANGED found
  PROVE  Language!Open
<1>1. /\ Open' = Append(Open, nowLayId')
      /\ nowLayId' \notin DOMAIN symbolTable
      /\ \A b \in DOMAIN symbolTable : symbolTable'[b] = symbolTable[b]
      /\ DOMAIN symbolTable' = DOMAIN symbolTable \cup {nowLayId'}
      /\ symbolTable'[nowLayId'].symbolTableThisBlock = <<>>
      /\ nowLayId' \in BlockIds
  BY OpensBlock
<1>2. PICK new : new = nowLayId'
  OBVIOUS
<1>3. Open \in Seq(BlockIds) /\ Open' = Append(Open, new) /\ new \in BlockIds
  BY <1>1, <1>2, OpenBlocks DEF IInv
<1>4. \A b \in DOMAIN symbolTable : /\ SymbolsOf(b)' = SymbolsOf(b)
                                    /\ UsageNamesIn(b)' = UsageNamesIn(b)
  BY <1>1 DEF SymbolsOf, UsageNamesIn
<1>5. SymbolsOf(new)' = <<>> /\ DOMAIN SymbolsOf(new)' = {} /\ UsageNamesIn(new)' = <<>>
  <2>1. SymbolsOf(new)' = <<>>
    BY <1>1, <1>2 DEF SymbolsOf
  <2>2. DOMAIN SymbolsOf(new)' = {}
    BY <2>1
  <2> QED  BY <2>1, <2>2 DEF UsageNamesIn
<1>6. LScopes' = Append(LScopes, <<>>)
  <2>1. /\ Len(Open') = Len(Open) + 1 /\ Len(Open) \in Nat /\ Open'[Len(Open) + 1] = new
        /\ \A i \in 1 .. Len(Open) : Open'[i] = Open[i] /\ Open[i] \in DOMAIN symbolTable
    BY <1>3 DEF IInv, PathOK
  <2> DEFINE names(f) == [k \in DOMAIN f |-> f[k].usageName]
  <2>2. LScopes' = [i \in 1 .. Len(Open) + 1 |-> names(symbolTable'[Open'[i]].symbolTableThisBlock)]
    BY <2>1 DEF LScopes, UsageNamesIn, SymbolsOf
  <2>3. \A i \in 1 .. Len(Open) :
          names(symbolTable'[Open'[i]].symbolTableThisBlock) = UsageNamesIn(Open[i])
    BY <1>1, <2>1 DEF UsageNamesIn, SymbolsOf
  <2>4. symbolTable'[Open'[Len(Open) + 1]].symbolTableThisBlock = <<>>
    BY <1>1, <1>2, <2>1
  <2>5. LScopes' = [i \in 1 .. Len(Open) + 1 |->
                     IF i = Len(Open) + 1 THEN <<>> ELSE UsageNamesIn(Open[i])]
    <3>1. names(symbolTable'[Open'[Len(Open) + 1]].symbolTableThisBlock) = <<>>
      BY <2>4
    <3> HIDE DEF names
    <3> QED  BY <2>1, <2>2, <2>3, <3>1
  <2>6. Append(LScopes, <<>>) = [i \in 1 .. Len(Open) + 1 |->
                     IF i = Len(Open) + 1 THEN <<>> ELSE UsageNamesIn(Open[i])]
    BY <2>1 DEF LScopes
  <2> QED  BY <2>5, <2>6
<1>7. LObjects' = LObjects
  <2>1. new \notin DOMAIN symbolTable /\ DOMAIN symbolTable' = DOMAIN symbolTable \cup {new}
    BY <1>1, <1>2
  <2>2. ASSUME NEW u \in LObjects'  PROVE u \in LObjects
    BY <1>4, <1>5, <2>1 DEF LObjects
  <2>3. ASSUME NEW u \in LObjects  PROVE u \in LObjects'
    BY <1>4, <2>1 DEF LObjects
  <2> QED  BY <2>2, <2>3
<1> QED  BY <1>6, <1>7 DEF Language!Open, LScopes, LObjects

(* The end of a block closes its scope. *)
LEMMA BlockCloses ==
  ASSUME IInv, pc # "body", pc' # "body", nowLayer > 0, Return, UNCHANGED <<symbolTable, found>>
  PROVE  Language!Close
<1>1. /\ Open \in Seq(BlockIds) /\ Len(Open) > 1
      /\ Len(Open') = Len(Open) - 1
      /\ \A i \in 1 .. Len(Open') : Open'[i] = Open[i]
  BY ClosesBlock
<1>2. LScopes' = [i \in 1 .. Len(Open) - 1 |-> UsageNamesIn(Open[i])]
  <2> DEFINE names(b) == [k \in DOMAIN SymbolsOf(b) |-> SymbolsOf(b)[k].usageName]
  <2>1. LScopes' = [i \in 1 .. Len(Open) - 1 |->
           [k \in DOMAIN symbolTable[Open'[i]].symbolTableThisBlock |->
              symbolTable[Open'[i]].symbolTableThisBlock[k].usageName]]
    BY <1>1 DEF LScopes, UsageNamesIn, SymbolsOf
  <2> QED  BY <1>1, <2>1 DEF UsageNamesIn, SymbolsOf
<1>3. SubSeq(LScopes, 1, Len(LScopes) - 1) = [i \in 1 .. Len(Open) - 1 |-> UsageNamesIn(Open[i])]
  BY <1>1 DEF LScopes
<1>4. LObjects' = LObjects
  BY DEF LObjects, SymbolsOf
<1>5. Len(LScopes) > 1
  BY <1>1 DEF LScopes
<1> QED  BY <1>2, <1>3, <1>4, <1>5 DEF Language!Close, LScopes, LObjects

(* An answer is the innermost declaration: the symbol found is filed under *)
(* the name asked, in the block it names, so the item that is made of the  *)
(* two has its usage name; and what is declared somewhere is found.        *)
LEMMA AnswerIsUse ==
  ASSUME IInv, NEW k \in findName, FindAnswer(k)
  PROVE  Language!Use(k) /\ k \in UniqueNames
<1>1. PICK i \in 1 .. Len(Open) :
        /\ startBlockId = Open[i]
        /\ \A j \in i + 1 .. Len(Open) : k \notin DOMAIN SymbolsOf(Open[j])
  BY DEF IInv, SearchInOrder
<1>2. Len(Open) \in Nat /\ Open[i] \in DOMAIN symbolTable
  BY OpenBlocks DEF IInv, PathOK
<1>3. /\ k \in UniqueNames
      /\ \A n : k # UniqueName("F", n) \/ k = <<"F", n>>
      /\ k = <<k[1], k[2]>> /\ k[1] \in {"F", "V"} /\ (k[1] = "F" => k[2] # Main)
  BY DEF IInv, SearchOK, UniqueNames, UniqueName
<1>4. k \in DOMAIN SymbolsOf(Open[i])
  <2> SUFFICES ASSUME k \notin DOMAIN SymbolsOf(Open[i]) PROVE FALSE
    OBVIOUS
  <2>1. symbolTable[Open[i]].isTop /\ BlockOK(Open[i])
    BY <1>1, <1>2 DEF FindAnswer, IInv, TableOK
  <2>2. Open[i][1] = 0
    BY <2>1, Zenon DEF BlockOK
  <2>3. i = 1
    BY <1>1, <1>2, <2>2 DEF IInv, PathOK
  <2>4. PICK j \in 1 .. Len(Open) : k \in DOMAIN SymbolsOf(Open[j])
    BY DEF IInv, SearchOK, Visible
  <2>5. j = i \/ j \in i + 1 .. Len(Open)
    BY <1>2, <2>3, <2>4
  <2> QED  BY <1>1, <2>4, <2>5
<1>5. SymbolOK(Open[i], k)
  BY <1>2, <1>4 DEF IInv, TableOK, BlockOK
<1>6. SymbolsOf(Open[i])[k] = Item(k[1], k[2], Open[i])
  <2>1. CASE \E n \in VariableNames : k = UniqueName("V", n) /\ SymbolsOf(Open[i])[k] = Item("V", n, Open[i])
    BY <2>1 DEF UniqueName
  <2>2. CASE \E n \in FunctionNames : k = UniqueName("F", n) /\ SymbolsOf(Open[i])[k] = Item("F", n, Open[i])
    BY <1>3, <2>2
  <2> QED  BY <1>5, <2>1, <2>2 DEF SymbolOK
<1>7. found' = {SymbolsOf(Open[i])[k].usageName}
  BY <1>1, <1>4, <1>6 DEF FindAnswer, Item
<1>8. UNCHANGED <<symbolTable, Open>>
  BY DEF FindAnswer, table, location, Open
<1>9. LScopes' = LScopes /\ LObjects' = LObjects
  BY <1>8 DEF LScopes, LObjects, UsageNamesIn, SymbolsOf
<1>10. /\ Len(LScopes) = Len(Open)
       /\ \A j \in 1 .. Len(Open) : DOMAIN LScopes[j] = DOMAIN SymbolsOf(Open[j])
       /\ LScopes[i][k] = SymbolsOf(Open[i])[k].usageName
  BY <1>2, <1>4 DEF LScopes, UsageNamesIn
<1>11. /\ i \in 1 .. Len(LScopes)
       /\ k \in DOMAIN LScopes[i]
       /\ \A j \in i + 1 .. Len(LScopes) : k \notin DOMAIN LScopes[j]
       /\ found' = {LScopes[i][k]}
  BY <1>1, <1>2, <1>4, <1>7, <1>10
<1> QED  BY <1>3, <1>9, <1>11 DEF Language!Use, LScopes, LObjects

(* Steps the language does not see. *)
LEMMA NoStepOfScopes ==
  ASSUME UNCHANGED <<symbolTable, Open, found>>
  PROVE  UNCHANGED Language!vars
  BY DEF Language!vars, UsageNamesIn, SymbolsOf

LEMMA InitScopes == Init => Language!Init
<1> SUFFICES ASSUME Init PROVE Language!Init
  OBVIOUS
<1> DEFINE given == {UniqueName("F", n) : n \in RuntimeFunctions}
<1>1. Open = <<Top>>
  BY DEF Init, Open
<1>2. DOMAIN symbolTable = {Top} /\ SymbolsOf(Top) = [k \in given |-> Item("F", k[2], Top)]
  BY DEF Init, SymbolsOf
<1>3. UsageNamesIn(Top) = [k \in given |-> UsageName("F", k[2], Top)]
  BY <1>2 DEF UsageNamesIn, Item
<1>4. LScopes = <<[k \in given |-> UsageName("F", k[2], Top)]>>
  BY <1>1, <1>3 DEF LScopes
<1>5. LObjects = {[k \in given |-> UsageName("F", k[2], Top)][l] :
                     l \in DOMAIN [k \in given |-> UsageName("F", k[2], Top)]}
  <2>1. LObjects = {SymbolsOf(Top)[k].usageName : k \in DOMAIN SymbolsOf(Top)}
    BY <1>2 DEF LObjects
  <2>2. LObjects = {SymbolsOf(Top)[k].usageName : k \in given}
    BY <1>2, <2>1
  <2>3. \A k \in given : SymbolsOf(Top)[k].usageName = UsageName("F", k[2], Top)
    BY <1>2 DEF Item
  <2> HIDE DEF given
  <2>4. LObjects = {UsageName("F", k[2], Top) : k \in given}
    BY <2>2, <2>3
  <2> QED  BY <2>4
<1>6. found = {}
  BY DEF Init
<1> QED  BY <1>4, <1>5, <1>6, Zenon DEF Language!Init, LScopes, LObjects

(* The table of blocks implements the scopes of the language: usage names  *)
(* are new for every declaration and a use is given that of the innermost  *)
(* one, for every program.                                                 *)
THEOREM TableImplementsScopes == Spec => ImplementsScopes
<1>1. ASSUME IInv, [Next]_vars PROVE [Language!Next]_(Language!vars)
  <2>1. ASSUME NEW name \in VariableNames, DefineVariable(name)  PROVE Language!Next
    <3>1. /\ pc # "body" /\ InsertSymbol("V", name) /\ Undeclared("V", name) /\ found' = found
          /\ Open' = Open
      BY <2>1 DEF DefineVariable, location, search, Open
    <3>2. Language!Declare(UniqueName("V", name))
      BY <1>1, <3>1, InsertDeclares
    <3> QED  BY <3>2 DEF Language!Next, UniqueNames
  <2>2. ASSUME NEW name \in FunctionNames, DefineFunction(name)  PROVE Language!Next
    <3>1. /\ pc = "items" /\ pc' = "func" /\ InsertSymbol("F", name) /\ Undeclared("F", name)
          /\ found' = found /\ Open' = Open /\ nowLayer = 0
      BY <2>2 DEF DefineFunction, search, Open
    <3>2. nowLayId = Top
      <4>1. callers \in Seq(BlockIds) /\ Len(callers) = 0
        BY <1>1, <3>1 DEF IInv, LocationOK
      <4>2. Open[1] = nowLayId
        BY <3>1, <4>1, EmptySeq DEF Open
      <4> QED  BY <1>1, <4>2 DEF IInv, PathOK
    <3>3. Language!Declare(UniqueName("F", name))
      BY <1>1, <3>1, <3>2, InsertDeclares
    <3> QED  BY <3>3 DEF Language!Next, UniqueNames
  <2>3. CASE BeginParameters
    <3>1. pc = "func" /\ pc' = "params" /\ findName = {} /\ found' = found
      BY <1>1, <2>3 DEF BeginParameters, search, IInv, LocationOK
    <3>2. Language!Open
      BY <1>1, <2>3, <3>1, BlockOpens DEF BeginParameters
    <3> QED  BY <3>2 DEF Language!Next
  <2>4. CASE EndParameters
    <3>1. /\ Len(callers) = 1 /\ callers \in Seq(BlockIds) /\ layIdInFuncFParams = nowLayId
          /\ pc = "params" /\ pc' = "body" /\ nowLayId' = callers[1]
          /\ UNCHANGED <<symbolTable, layIdInFuncFParams, found>>
      BY <1>1, <2>4 DEF EndParameters, Return, IInv, LocationOK, table, search
    <3>2. Append(callers, nowLayId) = <<callers[1], nowLayId>>
      BY <1>1, <3>1, Pair DEF IInv, LocationOK
    <3>3. Open = <<callers[1], nowLayId>>
      BY <3>1, <3>2 DEF Open
    <3>4. Open' = <<nowLayId', layIdInFuncFParams'>>
      BY <3>1 DEF Open
    <3>5. Open' = Open
      BY <3>1, <3>3, <3>4
    <3> QED  BY <3>1, <3>5, NoStepOfScopes
  <2>5. CASE EnterFunctionBlock
    <3>1. /\ Len(callers) = 0 /\ callers \in Seq(BlockIds) /\ pc = "body" /\ pc' = "items"
          /\ callers' = Append(callers, nowLayId) /\ nowLayId' = layIdInFuncFParams
          /\ UNCHANGED <<symbolTable, found>>
      BY <1>1, <2>5 DEF EnterFunctionBlock, table, search, IInv, LocationOK
    <3>2. nowLayId \in BlockIds /\ layIdInFuncFParams \in BlockIds
      BY <1>1 DEF IInv, LocationOK
    <3>3. Append(callers', nowLayId') = <<nowLayId, layIdInFuncFParams>>
      BY <3>1, <3>2, Single
    <3>4. Open' = Open
      BY <3>1, <3>3 DEF Open
    <3> QED  BY <3>1, <3>4, NoStepOfScopes
  <2>6. CASE EnterBlock
    <3>1. pc = "items" /\ pc' = "items" /\ findName = {} /\ found' = found
      BY <2>6 DEF EnterBlock, search
    <3>2. Language!Open
      BY <1>1, <2>6, <3>1, BlockOpens DEF EnterBlock
    <3> QED  BY <3>2 DEF Language!Next
  <2>7. CASE LeaveBlock
    <3>1. /\ pc = "items" /\ pc' = "items" /\ nowLayer > 0 /\ Return
          /\ UNCHANGED <<symbolTable, found>>
      BY <2>7 DEF LeaveBlock, table, search
    <3>2. Language!Close
      BY <1>1, <3>1, BlockCloses
    <3> QED  BY <3>2 DEF Language!Next
  <2>8. ASSUME NEW kind, NEW name, Use(kind, name)  PROVE UNCHANGED Language!vars
    BY <2>8, NoStepOfScopes DEF Use, table, location, Open
  <2>9. ASSUME NEW k \in findName, FindFather(k)  PROVE UNCHANGED Language!vars
    BY <2>9, NoStepOfScopes DEF FindFather, table, location, Open
  <2>10. ASSUME NEW k \in findName, FindAnswer(k)  PROVE Language!Next
    BY <1>1, <2>10, AnswerIsUse DEF Language!Next
  <2>11. CASE UNCHANGED vars
    BY <2>11, NoStepOfScopes DEF vars, Open
  <2> QED  BY <1>1, <2>1, <2>2, <2>3, <2>4, <2>5, <2>6, <2>7, <2>8, <2>9, <2>10, <2>11
           DEF Next, FindSymbol
<1> QED  BY <1>1, InitScopes, SpecIInv, PTL DEF Spec, ImplementsScopes, Language!Spec
=============================================================================
