----------------------------- MODULE SymbolTable -----------------------------
(***************************************************************************)
(* The table of blocks that syntax analysis fills and asks:                *)
(* front/syntax/symbol_table.cpp as driven by syntax_analyze.cpp.          *)
(*                                                                         *)
(* A block has the number of its layer and a number within the layer, and  *)
(* a pointer to the block around it.  The parameters of a function are     *)
(* declared before its block is met: analyzeFuncDef makes the block,       *)
(* leaves it again, and keeps its id in layIdInFuncFParams for             *)
(* analyzeBlock.  Each call of analyzeBlock keeps the block it came from   *)
(* in a local, fatherLayId; callers are these locals, outermost first.     *)
(*                                                                         *)
(* The program is chosen while it is read: any declarations, blocks and    *)
(* uses, in any order, that a legal program may have.  The loop of         *)
(* findSymbol is taken step by step.                                       *)
(***************************************************************************)
EXTENDS Integers, Sequences, FiniteSets

CONSTANTS
  VariableNames,     \* names of variables, constants and parameters
  FunctionNames,     \* names of functions; one may be that of a variable
  RuntimeFunctions,  \* names of functions declared before the program
  Main,              \* the name of the main function
  MaxBlocks,         \* bound: blocks in a program
  MaxLayers          \* bound: nesting of blocks, the global one not counted

ASSUME NamesAssumption ==
  /\ RuntimeFunctions \subseteq FunctionNames
  /\ Main \in FunctionNames \ RuntimeFunctions

VARIABLES
  symbolTable,           \* block id -> SymbolTablePerBlock
  blockLayerId2LayerNum, \* layer -> blocks made in it
  nowLayer, nowLayId,    \* where analysis stands
  layIdInFuncFParams,    \* the block of the parameters of the function
  callers,               \* fatherLayId of every analyzeBlock that is under way
  pc,                    \* what is being read: "items" of a block, a function
                         \* after its name ("func"), "params", their end ("body")
  findName,              \* what findSymbol is looking for, {} if it is not called
  startBlockId,          \* the block it is looking at; Top if it is not called
  found                  \* what the last name used was taken for, {} at first

vars == <<symbolTable, blockLayerId2LayerNum, nowLayer, nowLayId,
          layIdInFuncFParams, callers, pc, findName, startBlockId, found>>

location == <<nowLayer, nowLayId, layIdInFuncFParams, callers, pc>>
search == <<findName, startBlockId, found>>
table == <<symbolTable, blockLayerId2LayerNum>>

Top == <<0, 1>>
BlockIds == Nat \X Nat

-----------------------------------------------------------------------------
(* SymbolTableItem.  The unique name tells a function from a variable of   *)
(* the same name; the usage name is what IR construction calls the symbol. *)
(* Both are strings put together from these parts.                         *)
UniqueName(kind, name) ==
  IF kind = "F" /\ name = Main THEN <<"main", name>> ELSE <<kind, name>>

(* Mutant: the usage name without the number of the block in its layer. *)
UsageNameOfLayer(kind, name, blockId) ==
  [kind |-> kind, layer |-> blockId[1], num |-> 0, name |-> name]

UsageName(kind, name, blockId) ==
  IF kind = "F" /\ name = Main
  THEN [kind |-> "main", layer |-> 0, num |-> 0, name |-> name]
  ELSE [kind |-> kind, layer |-> blockId[1], num |-> blockId[2], name |-> name]

(* Mutant: the symbol says the first block of its layer. *)
ItemOfLayer(kind, name, blockId) ==
  [kind |-> kind, name |-> name, blockId |-> <<blockId[1], 1>>,
   usageName |-> UsageName(kind, name, blockId)]

Item(kind, name, blockId) ==
  [kind |-> kind, name |-> name, blockId |-> blockId,
   usageName |-> UsageName(kind, name, blockId)]

(* The keys a block can have. *)
UniqueNames ==
  {UniqueName("V", n) : n \in VariableNames} \cup {UniqueName("F", n) : n \in FunctionNames}

-----------------------------------------------------------------------------
SymbolsOf(b) == symbolTable[b].symbolTableThisBlock

With(f, k, v) == [x \in DOMAIN f \cup {k} |-> IF x = k THEN v ELSE f[x]]

(* insertSymbol into the block analysis stands in. *)
InsertSymbol(kind, name) ==
  LET item == Item(kind, name, nowLayId)
  IN symbolTable' =
       [symbolTable EXCEPT ![nowLayId].symbolTableThisBlock =
          With(@, UniqueName(kind, name), item)]

(* A legal program declares a name once in a block. *)
Undeclared(kind, name) == UniqueName(kind, name) \notin DOMAIN SymbolsOf(nowLayId)

(* Mutant: the number of a layer is not counted up: all its blocks are 1. *)
NumberPerFather(layerId) == 0

NumberOf(layerId) ==
  IF layerId \in DOMAIN blockLayerId2LayerNum THEN blockLayerId2LayerNum[layerId] ELSE 0

(* distributeBlockId and insertBlock. *)
DistributeBlockId(layerId, fatherBlockId) ==
  LET blockId == <<layerId, NumberOf(layerId) + 1>>
  IN /\ blockLayerId2LayerNum' = With(blockLayerId2LayerNum, layerId, blockId[2])
     /\ symbolTable' = With(symbolTable, blockId,
          [isTop |-> layerId = 0, fatherBlockId |-> fatherBlockId,
           symbolTableThisBlock |-> <<>>])
     /\ nowLayId' = blockId

MoreBlocks == Cardinality(DOMAIN symbolTable) < MaxBlocks

(* syntaxAnalyze begins in the global block, with the runtime functions in it. *)
Init ==
  /\ symbolTable = [b \in {Top} |->
       [isTop |-> TRUE, fatherBlockId |-> <<0, 0>>,
        symbolTableThisBlock |->
          [k \in {UniqueName("F", n) : n \in RuntimeFunctions} |-> Item("F", k[2], Top)]]]
  /\ blockLayerId2LayerNum = [l \in {0} |-> 1]
  /\ nowLayer = 0
  /\ nowLayId = Top
  /\ layIdInFuncFParams = <<0, 0>>
  /\ callers = <<>>
  /\ pc = "items"
  /\ findName = {}
  /\ startBlockId = Top
  /\ found = {}

-----------------------------------------------------------------------------
(* getIdentDefine and getIdentDefineInFunction for a variable, a constant  *)
(* or a parameter, after the dimensions were read.                         *)
DefineVariable(name) ==
  /\ findName = {}
  /\ pc \in {"items", "params"}
  /\ Undeclared("V", name)
  /\ InsertSymbol("V", name)
  /\ UNCHANGED <<blockLayerId2LayerNum, location, search>>

(* getIdentDefine for a function: its name belongs to the global block. *)
DefineFunction(name) ==
  /\ findName = {}
  /\ pc = "items"
  /\ nowLayer = 0
  /\ MoreBlocks
  /\ Undeclared("F", name)
  /\ InsertSymbol("F", name)
  /\ pc' = "func"
  /\ UNCHANGED <<blockLayerId2LayerNum, nowLayer, nowLayId, layIdInFuncFParams, callers, search>>

(* analyzeFuncDef makes the block of the function for its parameters ... *)
BeginParameters ==
  /\ pc = "func"
  /\ nowLayer' = nowLayer + 1
  /\ DistributeBlockId(nowLayer', nowLayId)
  /\ layIdInFuncFParams' = nowLayId'
  /\ callers' = Append(callers, nowLayId)
  /\ pc' = "params"
  /\ UNCHANGED search

Return ==
  /\ nowLayer' = nowLayer - 1
  /\ nowLayId' = callers[Len(callers)]
  /\ callers' = SubSeq(callers, 1, Len(callers) - 1)

(* ... leaves it after the last one ... *)
EndParameters ==
  /\ findName = {}
  /\ pc = "params"
  /\ Return
  /\ pc' = "body"
  /\ UNCHANGED <<table, layIdInFuncFParams, search>>

(* ... and analyzeBlock(isFuncBlock) comes back to it. *)
EnterFunctionBlock ==
  /\ pc = "body"
  /\ nowLayer' = nowLayer + 1
  /\ nowLayId' = layIdInFuncFParams
  /\ callers' = Append(callers, nowLayId)
  /\ pc' = "items"
  /\ UNCHANGED <<table, layIdInFuncFParams, search>>

(* analyzeBlock for a statement: in a function only. *)
EnterBlock ==
  /\ findName = {}
  /\ pc = "items"
  /\ nowLayer \in 1 .. MaxLayers - 1
  /\ MoreBlocks
  /\ nowLayer' = nowLayer + 1
  /\ DistributeBlockId(nowLayer', nowLayId)
  /\ callers' = Append(callers, nowLayId)
  /\ UNCHANGED <<layIdInFuncFParams, pc, search>>

(* The end of analyzeBlock. *)
LeaveBlock ==
  /\ findName = {}
  /\ pc = "items"
  /\ nowLayer > 0
  /\ Return
  /\ UNCHANGED <<table, layIdInFuncFParams, pc, search>>

-----------------------------------------------------------------------------
(* The blocks the text read so far has open, outermost first.  Between the *)
(* parameters of a function and its block, the scope is still theirs.      *)
Open ==
  IF pc = "body" THEN <<nowLayId, layIdInFuncFParams>> ELSE Append(callers, nowLayId)

(* A legal program uses what is declared in some block around the use. *)
Visible(k) == \E i \in 1 .. Len(Open) : k \in DOMAIN SymbolsOf(Open[i])

(* getIdentUsage and getConstVarExp ask findSymbol; functions are used in  *)
(* functions, and nothing calls main.                                      *)
Use(kind, name) ==
  /\ findName = {}
  /\ pc \in {"items", "params"}
  /\ kind = "F" => nowLayer > 0 /\ name # Main
  /\ Visible(<<kind, name>>)
  /\ findName' = {<<kind, name>>}
  /\ startBlockId' = nowLayId
  /\ UNCHANGED <<table, location, found>>

(* Mutant: what is not in the block is looked for among the globals. *)
FindGlobal(k) ==
  /\ k \notin DOMAIN SymbolsOf(startBlockId)
  /\ ~symbolTable[startBlockId].isTop
  /\ startBlockId' = Top
  /\ UNCHANGED <<table, location, findName, found>>

(* findSymbol goes to the block around, unless it is at the top. *)
FindFather(k) ==
  /\ k \notin DOMAIN SymbolsOf(startBlockId)
  /\ ~symbolTable[startBlockId].isTop
  /\ startBlockId' = symbolTable[startBlockId].fatherBlockId
  /\ UNCHANGED <<table, location, findName, found>>

(* It answers with the symbol, or with nullptr at the top; getIdentUsage   *)
(* makes a new item from the block of the symbol and the name it was asked.*)
FindAnswer(k) ==
  /\ \/ k \in DOMAIN SymbolsOf(startBlockId)
     \/ symbolTable[startBlockId].isTop
  /\ found' = IF k \in DOMAIN SymbolsOf(startBlockId)
              THEN {Item(k[1], k[2], SymbolsOf(startBlockId)[k].blockId).usageName}
              ELSE {}
  /\ findName' = {}
  /\ startBlockId' = Top
  /\ UNCHANGED <<table, location>>

FindSymbol == \E k \in findName : FindFather(k) \/ FindAnswer(k)

Next ==
  \/ \E name \in VariableNames : DefineVariable(name) \/ Use("V", name)
  \/ \E name \in FunctionNames : DefineFunction(name) \/ Use("F", name)
  \/ BeginParameters
  \/ EndParameters
  \/ EnterFunctionBlock
  \/ EnterBlock
  \/ LeaveBlock
  \/ FindSymbol

Spec == Init /\ [][Next]_vars

-----------------------------------------------------------------------------
(* What the table says of a block once is true of it for the rest of the   *)
(* analysis: block ids are not given out again, so no block and no symbol  *)
(* of a closed block is overwritten, and IR construction, which comes      *)
(* after it, can go by usage names.                                        *)
DeclarationsKept ==
  [][\A b \in DOMAIN symbolTable :
       /\ b \in DOMAIN symbolTable'
       /\ symbolTable'[b].fatherBlockId = symbolTable[b].fatherBlockId
       /\ \A k \in DOMAIN SymbolsOf(b) :
            /\ k \in DOMAIN symbolTable'[b].symbolTableThisBlock
            /\ symbolTable'[b].symbolTableThisBlock[k] = SymbolsOf(b)[k]]_vars

(* The table as its types describe it: a symbol knows the block it is in,   *)
(* and analysis stands in a block, and came from blocks, of the table.     *)
TypeOK ==
  /\ DOMAIN symbolTable \subseteq BlockIds
  /\ \A b \in DOMAIN symbolTable :
       /\ symbolTable[b].isTop \in BOOLEAN
       /\ symbolTable[b].fatherBlockId \in BlockIds
       /\ DOMAIN SymbolsOf(b) \subseteq UniqueNames
       /\ \A k \in DOMAIN SymbolsOf(b) : SymbolsOf(b)[k].blockId = b
  /\ DOMAIN blockLayerId2LayerNum \subseteq Nat
  /\ \A l \in DOMAIN blockLayerId2LayerNum : blockLayerId2LayerNum[l] \in Nat
  /\ nowLayer \in Nat
  /\ nowLayId \in DOMAIN symbolTable
  /\ layIdInFuncFParams \in BlockIds
  /\ callers \in Seq(DOMAIN symbolTable)
  /\ pc \in {"items", "func", "params", "body"}
  /\ startBlockId \in DOMAIN symbolTable
  /\ findName \subseteq UniqueNames

(* A search that is under way has passed no declaration of the name: the   *)
(* blocks it left behind are the innermost ones that are open, in order.   *)
SearchInOrder ==
  \A k \in findName :
    \E i \in 1 .. Len(Open) :
      /\ startBlockId = Open[i]
      /\ \A j \in i + 1 .. Len(Open) : k \notin DOMAIN SymbolsOf(Open[j])

-----------------------------------------------------------------------------
(* The table implements the scopes of the language: objects are usage      *)
(* names, so every declaration gets a usage name nothing had before it,    *)
(* and every use is given the usage name of the innermost declaration,     *)
(* also after blocks with declarations of the same name were closed.       *)
UsageNamesIn(b) ==
  [k \in DOMAIN SymbolsOf(b) |-> SymbolsOf(b)[k].usageName]

Language == INSTANCE Scopes WITH
              Keys <- UniqueNames,
              Predeclared <- [k \in {UniqueName("F", n) : n \in RuntimeFunctions} |->
                                UsageName("F", k[2], Top)],
              scopes <- [i \in 1 .. Len(Open) |-> UsageNamesIn(Open[i])],
              objects <- UNION {{SymbolsOf(b)[k].usageName : k \in DOMAIN SymbolsOf(b)} :
                                  b \in DOMAIN symbolTable},
              answer <- found

ImplementsScopes == Language!Spec
=============================================================================
