---------------------------- MODULE MemoryPasses ----------------------------
(* The passes on memory: read-only globals become constant, local arrays are  *)
(* folded, removed if they are only written, made constants if they are      *)
(* written once per element with numbers.  Operands are <<value, address,    *)
(* offset>> of a store and <<address, offset>> of a load.                    *)
EXTENDS DeadCode

Address(f, v) == f.val[v].args[IF Kind(f, v) = "store" THEN 2 ELSE 1]
Offset(f, v) == f.val[v].args[IF Kind(f, v) = "store" THEN 3 ELSE 2]
Stored(f, v) == f.val[v].args[1]
OnlyStored(f, address) == \A u \in Users(f, address) : Kind(f, u) = "store"

AbandonAll(f, S) == FoldLeft(Abandon, f, InOrder(f, S))

Allocs(f, b) == SelectSeq(Ins(f, b), LAMBDA v : Kind(f, v) = "alloc")

(* A pass that treats every local array, block by block.                   *)
LocalArrays(f) == FoldLeft(LAMBDA s, b : s \o Allocs(f, b), <<>>, f.order)

(* read_only_variable_to_constant, for an int global: it becomes a constant *)
(* array of one element, since the branch for numbers compares value_type  *)
(* with VariableType::INT and is never taken.  Folding reads the element.  *)
ReadOnlyToConstant(f) ==
  LET array == ConstantArray(0)
      use(g, u) == ReplaceUse(g, u, Global, array)
  IN  IF \E u \in Users(f, Global) : Kind(f, u) \in {"store", "invoke"} THEN f
      ELSE FoldLeft(use, [f EXCEPT !.arrays = (array :> [n \in {0} |-> 0]) @@ @],
                    InOrder(f, Users(f, Global)))

-----------------------------------------------------------------------------
(* fold_array.  A state r of the walk through the block of an array has    *)
(* the function f, the known contents of elements, their last stores, the  *)
(* elements whose last store nobody has needed, and whether to stop.       *)

StoreAtNumber(r, v) ==
  LET off == Offset(r.f, v)
      again == off \in DOMAIN r.stores /\ off \in r.erasable
  IN  [r EXCEPT !.f = IF again THEN Abandon(@, r.stores[off]) ELSE @,
                !.erasable = @ \cup {off},
                !.known = (off :> Stored(r.f, v)) @@ @,
                !.stores = (off :> v) @@ @]

StoreAnywhere(r) ==
  [r EXCEPT !.stop = TRUE, !.f = AbandonAll(@, {r.stores[off] : off \in r.erasable})]

LoadKnown(r, b, v) ==
  LET off == Offset(r.f, v)
      x == r.known[off]
      replaced == NeedsVariable(ReplaceEverywhere(r.f, v, x), x)
  IN  [r EXCEPT !.f = Erase(Abandon(replaced, v), b, v),
                !.erasable = IF IsNumber(x) THEN @ ELSE @ \ {off}]

(* Mutant: a load from an unknown element needs no store.                  *)
LoadAnywhereIgnored(r) == r

LoadAnywhere(r) == [r EXCEPT !.erasable = {}]

FoldArray(f, alloc) ==
  LET b == Block(f, alloc)
      after == {i \in DOMAIN Ins(f, b) : \E j \in 1 .. i - 1 : Ins(f, b)[j] = alloc}
      walk(r, i) ==
        LET v == Ins(f, b)[i]
            kind == Kind(r.f, v)
            number == IsNumber(Offset(r.f, v))
        IN  CASE r.stop \/ i \notin after \/ alloc \notin Operands(r.f, v) -> r
              [] kind \in {"invoke", "binary"} -> [r EXCEPT !.stop = TRUE]
              [] kind = "store" -> IF number THEN StoreAtNumber(r, v) ELSE StoreAnywhere(r)
              [] kind = "load" -> IF ~number THEN LoadAnywhere(r)
                                  ELSE IF Offset(r.f, v) \in DOMAIN r.known THEN LoadKnown(r, b, v)
                                  ELSE r
      start == [f |-> f, known |-> <<>>, stores |-> <<>>, erasable |-> {}, stop |-> FALSE]
  IN  FoldLeftDomain(walk, start, Ins(f, b)).f

ArrayFolding(f) == FoldLeft(FoldArray, f, LocalArrays(f))

-----------------------------------------------------------------------------
(* dead_array_delete: a global or an array that is only written goes, and  *)
(* the stores with it.                                                     *)
DeadArrayDelete(f) ==
  LET delete(g, alloc) ==
        IF OnlyStored(g, alloc) THEN AbandonAll(Abandon(g, alloc), Users(g, alloc)) ELSE g
      globals == IF OnlyStored(f, Global) THEN AbandonAll(f, Users(f, Global)) ELSE f
  IN  FoldLeft(delete, globals, LocalArrays(globals))

(* array_external: every store is of a number, to an element of its own.   *)
Lifts(f, alloc) ==
  \A u \in Users(f, alloc) :
    \/ /\ Kind(f, u) = "store"
       /\ IsNumber(Stored(f, u)) /\ IsNumber(Offset(f, u))
       /\ \A w \in Users(f, alloc) \ {u} : Kind(f, w) = "store" => Offset(f, w) # Offset(f, u)
    \/ Kind(f, u) = "load"

Lift(f, alloc) ==
  LET array == ConstantArray(alloc)
      stores == {u \in Users(f, alloc) : Kind(f, u) = "store"}
      contents == [n \in {NumberOf(Offset(f, u)) : u \in stores} |->
                     NumberOf(Stored(f, CHOOSE u \in stores : Offset(f, u) = Number(n)))]
      use(g, u) == IF u \in stores THEN Abandon(g, u) ELSE ReplaceUse(g, u, alloc, array)
  IN  IF ~Lifts(f, alloc) THEN f
      ELSE Abandon(FoldLeft(use, [f EXCEPT !.arrays = (array :> contents) @@ @],
                            InOrder(f, Users(f, alloc))), alloc)

ArrayExternal(f) == FoldLeft(Lift, f, LocalArrays(f))
=============================================================================
