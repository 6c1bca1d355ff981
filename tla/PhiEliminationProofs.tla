----------------------- MODULE PhiEliminationProofs -----------------------
(***************************************************************************)
(* Proofs about the first half of ConflictGraph, phi elimination, for      *)
(* every function in SSA form: which instructions the blocks have then and *)
(* in which order, and that a comparison stays before its branch.          *)
(***************************************************************************)
EXTENDS ConflictGraph, TLAPS

-----------------------------------------------------------------------------
(* The code of a block b, with the phis P in front and the phi_movs of M:  *)
(* phis, values, a store, phi_movs, a comparison, the jump, in this order. *)

Instructions == [type : {"PHI", "INS", "STORE", "PHI_MOV", "CMP", "JMP", "BR", "RET"},
                 value : Int, operands : SUBSET Int]

Rank(t) == CASE t = "PHI" -> 1 [] t = "INS" -> 2 [] t = "STORE" -> 3 [] t = "PHI_MOV" -> 4
             [] t = "CMP" -> 5 [] OTHER -> 6

Sorted(s) ==
  \A i, j \in DOMAIN s : i < j =>
    /\ Rank(s[i].type) <= Rank(s[j].type)
    /\ Rank(s[i].type) = Rank(s[j].type) => s[i].type \in {"PHI", "INS", "PHI_MOV"}

Ended(s) ==
  /\ s \in Seq(Instructions) /\ Len(s) > 0
  /\ Rank(s[Len(s)].type) = 6
  /\ \A i \in DOMAIN s : s[i].type = "CMP" => s[Len(s)].type = "BR"

ValuesForm(f, s, b) ==
  /\ \A i \in DOMAIN s : s[i].type = "INS" =>
       s[i].value \in Ordinary /\ f.block[s[i].value] = b /\ s[i].operands = f.operands[s[i].value]
  /\ \A v \in Ordinary : f.block[v] = b => \E i \in DOMAIN s : s[i].type = "INS" /\ s[i].value = v
  /\ \A i, j \in DOMAIN s : i < j /\ s[i].type = "INS" /\ s[j].type = "INS" =>
       Earlier(f, b, s[i].value, s[j].value)

PhiForm(s, P) ==
  /\ \A i \in DOMAIN s : s[i].type = "PHI" => s[i].value \in P /\ s[i].operands = {Mov(s[i].value)}
  /\ \A p \in P : \E i \in DOMAIN s : s[i].type = "PHI" /\ s[i].value = p
  /\ \A i, j \in DOMAIN s : s[i].type = "PHI" /\ s[j].type = "PHI" /\ s[i].value = s[j].value => i = j

MovForm(f, s, b, M) ==
  /\ \A i \in DOMAIN s : s[i].type = "PHI_MOV" =>
       \E p \in M : s[i].value = Mov(p) /\ s[i].operands = {f.phi[p].operands[b]} \ {None}
  /\ \A p \in M : \E i \in DOMAIN s : s[i].type = "PHI_MOV" /\ s[i].value = Mov(p)
  /\ \A i, j \in DOMAIN s :
       s[i].type = "PHI_MOV" /\ s[j].type = "PHI_MOV" /\ s[i].value = s[j].value => i = j

EndForm(f, s, b) ==
  /\ \A i \in DOMAIN s : s[i].type \in {"STORE", "CMP", "JMP", "BR", "RET"} =>
       s[i].value = None /\ s[i].operands \subseteq f.ends[b]
  /\ f.ends[b] # {} => \E i \in DOMAIN s : /\ s[i].type \in {"STORE", "CMP", "JMP", "BR", "RET"}
                                          /\ s[i].operands = f.ends[b]

BlockForm(f, s, b, P, M) ==
  Ended(s) /\ Sorted(s) /\ ValuesForm(f, s, b) /\ PhiForm(s, P) /\ MovForm(f, s, b, M) /\ EndForm(f, s, b)

-----------------------------------------------------------------------------
(* One instruction x is inserted into s before the k-th.                   *)
Inserted(s, r, k, x) ==
  /\ k \in 1 .. Len(s)
  /\ r \in Seq(Instructions) /\ Len(r) = Len(s) + 1
  /\ \A i \in 1 .. Len(r) : r[i] = IF i < k THEN s[i] ELSE IF i = k THEN x ELSE s[i - 1]

Was(k, i) == IF i < k THEN i ELSE i - 1
Now(k, j) == IF j < k THEN j ELSE j + 1

(* What was there keeps its order; x has what was before the k-th on one   *)
(* side and the rest on the other.                                         *)
Kept(s, r, k) ==
  /\ \A i \in DOMAIN r : i # k => \E j \in DOMAIN s : r[i] = s[j] /\ (i < k => j < k) /\ (k < i => k <= j)
  /\ \A j \in DOMAIN s : \E i \in DOMAIN r : i # k /\ r[i] = s[j]
  /\ \A i, h \in DOMAIN r : i # k /\ h # k /\ i < h => \E j, l \in DOMAIN s : j < l /\ r[i] = s[j] /\ r[h] = s[l]
  /\ \A i, h \in DOMAIN r : i # k /\ h # k /\ i # h => \E j, l \in DOMAIN s : j # l /\ r[i] = s[j] /\ r[h] = s[l]

LEMMA Shift ==
  ASSUME NEW s \in Seq(Instructions), NEW r, NEW k, NEW x, Inserted(s, r, k, x)
  PROVE  /\ k \in DOMAIN r /\ r[k] = x
         /\ DOMAIN r \subseteq Int
         /\ r[Len(r)] = s[Len(s)]
         /\ Kept(s, r, k)
  <1>1. /\ DOMAIN s = 1 .. Len(s) /\ DOMAIN r = 1 .. Len(s) + 1 /\ Len(s) \in Nat
        /\ k \in 1 .. Len(s) /\ r[k] = x /\ k \in DOMAIN r
        /\ r[Len(r)] = s[Len(s)]
    BY DEF Inserted
  <1>2. \A i \in DOMAIN r : i # k => Was(k, i) \in DOMAIN s /\ r[i] = s[Was(k, i)]
    BY DEF Inserted, Was
  <1>3. \A j \in DOMAIN s : Now(k, j) \in DOMAIN r /\ Now(k, j) # k /\ r[Now(k, j)] = s[j]
    BY DEF Inserted, Now
  <1>4. \A i, j \in DOMAIN r : i # k /\ j # k /\ i < j => Was(k, i) < Was(k, j)
    BY <1>1 DEF Was
  <1>5. \A i, j \in DOMAIN r : i # k /\ j # k /\ i # j => Was(k, i) # Was(k, j)
    BY <1>1 DEF Was
  <1>6. \A i \in DOMAIN r : i # k => (i < k => Was(k, i) < k) /\ (k < i => k <= Was(k, i))
    BY <1>1 DEF Was
  <1>. HIDE DEF Was
  <1>7. \A i \in DOMAIN r : i # k => \E j \in DOMAIN s : r[i] = s[j] /\ (i < k => j < k) /\ (k < i => k <= j)
    BY <1>2, <1>6
  <1>8. \A i, h \in DOMAIN r : i # k /\ h # k /\ i < h => \E j, l \in DOMAIN s : j < l /\ r[i] = s[j] /\ r[h] = s[l]
    BY <1>2, <1>4
  <1>9. \A i, h \in DOMAIN r : i # k /\ h # k /\ i # h => \E j, l \in DOMAIN s : j # l /\ r[i] = s[j] /\ r[h] = s[l]
    BY <1>2, <1>5
  <1>10. \A j \in DOMAIN s : \E i \in DOMAIN r : i # k /\ r[i] = s[j]
    BY <1>3
  <1>. QED  BY <1>1, <1>7, <1>8, <1>9, <1>10 DEF Kept

LEMMA Concatenated ==
  ASSUME NEW S, NEW s \in Seq(S), NEW t \in Seq(S)
  PROVE  /\ s \o t \in Seq(S) /\ Len(s \o t) = Len(s) + Len(t)
         /\ \A i \in 1 .. Len(s \o t) : (s \o t)[i] = IF i <= Len(s) THEN s[i] ELSE t[i - Len(s)]
  <1>1. s \o t \in Seq(S)
    OBVIOUS
  <1>2. Len(s \o t) = Len(s) + Len(t)
    OBVIOUS
  <1>3. \A i \in 1 .. Len(s \o t) : (s \o t)[i] = IF i <= Len(s) THEN s[i] ELSE t[i - Len(s)]
    OBVIOUS
  <1>. QED  BY <1>1, <1>2, <1>3

LEMMA InsertAtInserts ==
  ASSUME NEW s \in Seq(Instructions), NEW k \in 1 .. Len(s), NEW x \in Instructions
  PROVE  Inserted(s, InsertAt(s, k, x), k, x)
  <1>. DEFINE before == SubSeq(s, 1, k - 1)
              after == SubSeq(s, k, Len(s))
              r == InsertAt(s, k, x)
  <1>1. /\ Len(s) \in Nat /\ k \in Int /\ 1 <= k /\ k <= Len(s)
        /\ \A i \in 1 .. Len(s) : s[i] \in Instructions
    OBVIOUS
  <1>2. /\ before \in Seq(Instructions) /\ Len(before) = k - 1
        /\ \A i \in 1 .. k - 1 : before[i] = s[i]
    BY <1>1
  <1>3. /\ after \in Seq(Instructions) /\ Len(after) = Len(s) + 1 - k
        /\ \A i \in 1 .. Len(s) + 1 - k : after[i] = s[k + i - 1]
    BY <1>1
  <1>4. r = (before \o <<x>>) \o after
    BY DEF InsertAt
  <1>. HIDE DEF before, after, r
  <1>5. /\ before \o <<x>> \in Seq(Instructions) /\ Len(before \o <<x>>) = k
        /\ \A i \in 1 .. k : (before \o <<x>>)[i] = IF i < k THEN s[i] ELSE x
    BY <1>1, <1>2, Concatenated
  <1>. DEFINE front == before \o <<x>>
  <1>6. /\ front \in Seq(Instructions) /\ Len(front) = k
        /\ \A i \in 1 .. k : front[i] = IF i < k THEN s[i] ELSE x
        /\ r = front \o after
    BY <1>4, <1>5
  <1>. HIDE DEF front
  <1>7. /\ r \in Seq(Instructions)
        /\ Len(r) = Len(s) + 1
        /\ \A i \in 1 .. Len(r) : r[i] = IF i <= k THEN front[i] ELSE after[i - k]
    <2>. DEFINE whole == front \o after
    <2>1. /\ whole \in Seq(Instructions)
          /\ Len(whole) = Len(front) + Len(after)
          /\ \A i \in 1 .. Len(whole) :
               whole[i] = IF i <= Len(front) THEN front[i] ELSE after[i - Len(front)]
      BY <1>3, <1>6, Concatenated
    <2>2. r = whole
      BY <1>6
    <2>. HIDE DEF whole
    <2>3. Len(front) = k /\ Len(after) = Len(s) + 1 - k
      BY <1>3, <1>6
    <2>4. Len(whole) = Len(s) + 1
      BY <1>1, <2>1, <2>3
    <2>. QED  BY <2>1, <2>2, <2>3, <2>4
  <1>8. \A i \in 1 .. Len(r) : i > k => after[i - k] = s[i - 1]
    <2>1. \A i \in 1 .. Len(r) : i > k => i - k \in 1 .. Len(s) + 1 - k /\ k + (i - k) - 1 = i - 1
      BY <1>1, <1>7
    <2>. QED  BY <1>3, <2>1
  <1>9. Inserted(s, r, k, x)
    BY <1>1, <1>6, <1>7, <1>8 DEF Inserted
  <1>. QED  BY <1>9 DEF r

LEMMA InFrontInserts ==
  ASSUME NEW s \in Seq(Instructions), Len(s) > 0, NEW x \in Instructions
  PROVE  Inserted(s, <<x>> \o s, 1, x)
  BY DEF Inserted

(* A phi_mov is inserted behind what ranks below it, before what ranks     *)
(* above it: the comparison, if there is one, and the jump.                *)
LEMMA WithMovInserts ==
  ASSUME NEW s, Ended(s), Sorted(s), NEW x \in Instructions
  PROVE  \E k \in 1 .. Len(s) :
           /\ Inserted(s, WithMov(s, x), k, x)
           /\ \A i \in 1 .. Len(s) : (i < k => Rank(s[i].type) <= 4) /\ (i >= k => Rank(s[i].type) >= 5)
  <1>. DEFINE n == Len(s)
              tested == n > 1 /\ s[n].type = "BR" /\ s[n - 1].type = "CMP"
              R(i) == Rank(s[i].type)
  <1>1. n \in Nat /\ n > 0 /\ DOMAIN s = 1 .. n /\ s \in Seq(Instructions)
    BY DEF Ended
  <1>2. \A i \in 1 .. n : R(i) \in 1 .. 6 /\ (R(i) = 5 <=> s[i].type = "CMP")
    BY <1>1 DEF Rank, Instructions
  <1>3. \A i, j \in 1 .. n : i < j => R(i) <= R(j) /\ (R(i) = R(j) => R(i) \notin {5, 6})
    <2>1. \A i \in 1 .. n : s[i].type \in {"PHI", "INS", "PHI_MOV"} => R(i) \notin {5, 6}
      BY DEF Rank
    <2>. QED  BY <1>1, <2>1 DEF Sorted
  <1>4. R(n) = 6 /\ \A i \in 1 .. n : R(i) = 5 => s[n].type = "BR"
    BY <1>1, <1>2 DEF Ended
  <1>5. \A i \in 1 .. n : WithMov(s, x) = InsertAt(s, IF tested THEN n - 1 ELSE n, x)
    BY DEF WithMov
  <1>6. tested <=> n > 1 /\ s[n].type = "BR" /\ R(n - 1) = 5
    BY <1>1, <1>2
  <1>. HIDE DEF n, R, tested
  <1>7. CASE tested
    <2>1. n - 1 \in 1 .. n /\ n \in 1 .. n
      BY <1>1, <1>6, <1>7
    <2>2. Inserted(s, WithMov(s, x), n - 1, x)
      BY <1>1, <1>5, <1>7, <2>1, InsertAtInserts DEF n
    <2>3. \A i \in 1 .. n : (i < n - 1 => R(i) <= 4) /\ (i >= n - 1 => R(i) >= 5)
      BY <1>1, <1>2, <1>3, <1>4, <1>6, <1>7, <2>1
    <2>. QED  BY <2>1, <2>2, <2>3 DEF n, R
  <1>8. CASE ~tested
    <2>1. n \in 1 .. n
      BY <1>1
    <2>2. Inserted(s, WithMov(s, x), n, x)
      BY <1>1, <1>5, <1>8, <2>1, InsertAtInserts DEF n
    <2>3. ASSUME NEW i \in 1 .. n, i < n  PROVE R(i) <= 4
      <3>1. R(i) \in 1 .. 5
        BY <1>1, <1>2, <1>3, <1>4, <2>1, <2>3
      <3>2. SUFFICES ASSUME R(i) = 5  PROVE FALSE
        BY <3>1
      <3>3. n > 1 /\ n - 1 \in 1 .. n /\ s[n].type = "BR"
        BY <1>1, <1>4, <2>3, <3>2
      <3>4. R(n - 1) \in 1 .. 4
        BY <1>1, <1>2, <1>3, <1>4, <1>6, <1>8, <2>1, <3>3
      <3>5. i < n - 1
        BY <1>1, <2>3, <3>2, <3>3, <3>4
      <3>. QED  BY <1>3, <3>2, <3>3, <3>4, <3>5
    <2>. QED  BY <1>1, <1>4, <2>1, <2>2, <2>3 DEF n, R
  <1>. QED  BY <1>7, <1>8
LEMMA RankRange == \A t : Rank(t) \in 1 .. 6
  BY DEF Rank

(* What is inserted has no part in the forms of the other types.          *)
LEMMA ValuesFormKept ==
  ASSUME NEW f, NEW s, NEW b, NEW r, NEW k \in DOMAIN r, r[k].type # "INS", Kept(s, r, k), ValuesForm(f, s, b)
  PROVE  ValuesForm(f, r, b)
  <1>1. \A i \in DOMAIN r : r[i].type = "INS" =>
          r[i].value \in Ordinary /\ f.block[r[i].value] = b /\ r[i].operands = f.operands[r[i].value]
    BY DEF Kept, ValuesForm
  <1>2. \A v \in Ordinary : f.block[v] = b => \E i \in DOMAIN r : r[i].type = "INS" /\ r[i].value = v
    BY DEF Kept, ValuesForm
  <1>3. \A i, j \in DOMAIN r : i < j /\ r[i].type = "INS" /\ r[j].type = "INS" =>
          Earlier(f, b, r[i].value, r[j].value)
    BY DEF Kept, ValuesForm
  <1>. QED  BY <1>1, <1>2, <1>3 DEF ValuesForm

LEMMA PhiFormKept ==
  ASSUME NEW s, NEW P, NEW r, NEW k \in DOMAIN r, r[k].type # "PHI", Kept(s, r, k), PhiForm(s, P)
  PROVE  PhiForm(r, P)
  <1>1. \A i \in DOMAIN r : r[i].type = "PHI" => r[i].value \in P /\ r[i].operands = {Mov(r[i].value)}
    BY DEF Kept, PhiForm
  <1>2. \A p \in P : \E i \in DOMAIN r : r[i].type = "PHI" /\ r[i].value = p
    BY DEF Kept, PhiForm
  <1>3. \A i, j \in DOMAIN r : r[i].type = "PHI" /\ r[j].type = "PHI" /\ r[i].value = r[j].value => i = j
    BY DEF Kept, PhiForm
  <1>. QED  BY <1>1, <1>2, <1>3 DEF PhiForm

LEMMA MovFormKept ==
  ASSUME NEW f, NEW s, NEW b, NEW M, NEW r, NEW k \in DOMAIN r, r[k].type # "PHI_MOV", Kept(s, r, k),
         MovForm(f, s, b, M)
  PROVE  MovForm(f, r, b, M)
  <1>1. \A i \in DOMAIN r : r[i].type = "PHI_MOV" =>
          \E q \in M : r[i].value = Mov(q) /\ r[i].operands = {f.phi[q].operands[b]} \ {None}
    BY DEF Kept, MovForm
  <1>2. \A q \in M : \E i \in DOMAIN r : r[i].type = "PHI_MOV" /\ r[i].value = Mov(q)
    BY DEF Kept, MovForm
  <1>3. \A i, j \in DOMAIN r :
          r[i].type = "PHI_MOV" /\ r[j].type = "PHI_MOV" /\ r[i].value = r[j].value => i = j
    BY DEF Kept, MovForm
  <1>. QED  BY <1>1, <1>2, <1>3 DEF MovForm

LEMMA EndFormKept ==
  ASSUME NEW f, NEW s, NEW b, NEW r, NEW k \in DOMAIN r, r[k].type \in {"PHI", "PHI_MOV"}, Kept(s, r, k),
         EndForm(f, s, b)
  PROVE  EndForm(f, r, b)
  <1>1. \A i \in DOMAIN r : r[i].type \in {"STORE", "CMP", "JMP", "BR", "RET"} =>
          r[i].value = None /\ r[i].operands \subseteq f.ends[b]
    BY DEF Kept, EndForm
  <1>2. f.ends[b] # {} => \E i \in DOMAIN r : /\ r[i].type \in {"STORE", "CMP", "JMP", "BR", "RET"}
                                             /\ r[i].operands = f.ends[b]
    BY DEF Kept, EndForm
  <1>. QED  BY <1>1, <1>2 DEF EndForm

LEMMA EndedKept ==
  ASSUME NEW s, NEW r, NEW k, NEW x, Inserted(s, r, k, x), x.type # "CMP", Ended(s)
  PROVE  Ended(r)
  <1>1. s \in Seq(Instructions) /\ r \in Seq(Instructions) /\ Len(r) > 0
    BY DEF Inserted, Ended
  <1>2. r[Len(r)] = s[Len(s)] /\ r[k] = x /\ Kept(s, r, k)
    BY <1>1, Shift
  <1>3. ASSUME NEW i \in DOMAIN r, r[i].type = "CMP"  PROVE \E j \in DOMAIN s : s[j].type = "CMP"
    <2>1. i # k
      BY <1>2, <1>3
    <2>2. \E j \in DOMAIN s : r[i] = s[j]
      BY <1>2, <2>1 DEF Kept
    <2>. QED  BY <1>3, <2>2
  <1>. QED  BY <1>1, <1>2, <1>3 DEF Ended

(* The order is kept where what is inserted fits in.                       *)
LEMMA SortedKept ==
  ASSUME NEW s, NEW r, NEW k \in DOMAIN r, Kept(s, r, k), Sorted(s), DOMAIN r \subseteq Int,
         r[k].type \in {"PHI", "PHI_MOV"},
         \A i \in DOMAIN s : /\ i < k => Rank(s[i].type) <= Rank(r[k].type)
                             /\ k <= i => Rank(r[k].type) <= Rank(s[i].type)
  PROVE  Sorted(r)
  <1>. SUFFICES ASSUME NEW i \in DOMAIN r, NEW j \in DOMAIN r, i < j
                PROVE  /\ Rank(r[i].type) <= Rank(r[j].type)
                       /\ Rank(r[i].type) = Rank(r[j].type) => r[i].type \in {"PHI", "INS", "PHI_MOV"}
    BY DEF Sorted
  <1>0. \A t : (Rank(t) = 1 <=> t = "PHI") /\ (Rank(t) = 4 <=> t = "PHI_MOV")
    BY DEF Rank
  <1>1. CASE i = k
    <2>1. j # k /\ k < j
      BY <1>1
    <2>. QED  BY <1>1, <2>1 DEF Kept
  <1>2. CASE j = k
    <2>1. i # k /\ i < k
      BY <1>2
    <2>2. Rank(r[i].type) <= Rank(r[k].type)
      BY <2>1 DEF Kept
    <2>. QED  BY <1>0, <1>2, <2>2
  <1>3. CASE i # k /\ j # k
    BY <1>3 DEF Kept, Sorted
  <1>. QED  BY <1>1, <1>2, <1>3

LEMMA MovKeepsForm ==
  ASSUME NEW f, NEW s, NEW b, NEW P, NEW M \in SUBSET Phis, BlockForm(f, s, b, P, M),
         NEW p \in Phis, p \notin M, NEW x \in Instructions,
         x = Ins("PHI_MOV", Mov(p), {f.phi[p].operands[b]} \ {None})
  PROVE  BlockForm(f, WithMov(s, x), b, P, M \cup {p})
  <1>. DEFINE r == WithMov(s, x)
  <1>0. x.type = "PHI_MOV" /\ x.value = Mov(p) /\ x.operands = {f.phi[p].operands[b]} \ {None}
    BY DEF Ins
  <1>1. Ended(s) /\ Sorted(s) /\ s \in Seq(Instructions) /\ DOMAIN s = 1 .. Len(s)
    BY DEF BlockForm, Ended
  <1>2. PICK k \in 1 .. Len(s) :
          /\ Inserted(s, r, k, x)
          /\ \A i \in 1 .. Len(s) : (i < k => Rank(s[i].type) <= 4) /\ (i >= k => Rank(s[i].type) >= 5)
    BY <1>1, WithMovInserts
  <1>. HIDE DEF r
  <1>3. k \in DOMAIN r /\ r[k] = x /\ DOMAIN r \subseteq Int /\ Kept(s, r, k)
    BY <1>1, <1>2, Shift
  <1>4. Ended(r)
    BY <1>0, <1>1, <1>2, EndedKept
  <1>5. Sorted(r)
    <2>1. Rank(r[k].type) = 4
      BY <1>0, <1>3 DEF Rank
    <2>2. \A i \in DOMAIN s : /\ i < k => Rank(s[i].type) <= Rank(r[k].type)
                              /\ k <= i => Rank(r[k].type) <= Rank(s[i].type)
      BY <1>1, <1>2, <2>1, RankRange
    <2>. QED  BY <1>0, <1>1, <1>3, <2>2, SortedKept
  <1>6. ValuesForm(f, r, b) /\ PhiForm(r, P) /\ EndForm(f, r, b)
    BY <1>0, <1>3, ValuesFormKept, PhiFormKept, EndFormKept DEF BlockForm
  <1>7. MovForm(f, r, b, M \cup {p})
    <2>0. MovForm(f, s, b, M)
      BY DEF BlockForm
    <2>a. \A i \in DOMAIN r : i # k => \E j \in DOMAIN s : r[i] = s[j]
      BY <1>3 DEF Kept
    <2>b. \A j \in DOMAIN s : \E i \in DOMAIN r : i # k /\ r[i] = s[j]
      BY <1>3 DEF Kept
    <2>c. \A i, h \in DOMAIN r : i # k /\ h # k /\ i # h => \E j, l \in DOMAIN s : j # l /\ r[i] = s[j] /\ r[h] = s[l]
      BY <1>3 DEF Kept
    <2>1. \A i \in DOMAIN r : r[i].type = "PHI_MOV" =>
            \E q \in M \cup {p} : r[i].value = Mov(q) /\ r[i].operands = {f.phi[q].operands[b]} \ {None}
      <3>. SUFFICES ASSUME NEW i \in DOMAIN r, r[i].type = "PHI_MOV"
                    PROVE  \E q \in M \cup {p} : r[i].value = Mov(q) /\ r[i].operands = {f.phi[q].operands[b]} \ {None}
        OBVIOUS
      <3>1. CASE i = k
        BY <1>0, <1>3, <3>1
      <3>2. CASE i # k
        BY <2>a, <2>0, <3>2 DEF MovForm
      <3>. QED  BY <3>1, <3>2
    <2>2. \A q \in M \cup {p} : \E i \in DOMAIN r : r[i].type = "PHI_MOV" /\ r[i].value = Mov(q)
      <3>1. \E i \in DOMAIN r : r[i].type = "PHI_MOV" /\ r[i].value = Mov(p)
        BY <1>0, <1>3
      <3>2. \A q \in M : \E i \in DOMAIN r : r[i].type = "PHI_MOV" /\ r[i].value = Mov(q)
        BY <2>b, <2>0 DEF MovForm
      <3>. QED  BY <3>1, <3>2
    <2>3. \A q \in M : Mov(q) # Mov(p)
      BY ConstantsAssumption DEF Mov
    <2>4. \A i \in DOMAIN r : i # k /\ r[i].type = "PHI_MOV" => r[i].value # Mov(p)
      BY <2>a, <2>0, <2>3 DEF MovForm
    <2>5. \A i, j \in DOMAIN r :
            r[i].type = "PHI_MOV" /\ r[j].type = "PHI_MOV" /\ r[i].value = r[j].value => i = j
      <3>. SUFFICES ASSUME NEW i \in DOMAIN r, NEW j \in DOMAIN r, r[i].type = "PHI_MOV",
                           r[j].type = "PHI_MOV", r[i].value = r[j].value, i # j
                    PROVE  FALSE
        OBVIOUS
      <3>1. i # k /\ j # k
        BY <1>0, <1>3, <2>4
      <3>. QED  BY <2>c, <2>0, <3>1 DEF MovForm
    <2>. QED  BY <2>1, <2>2, <2>5 DEF MovForm
  <1>. QED  BY <1>4, <1>5, <1>6, <1>7 DEF BlockForm, r

LEMMA PhiKeepsForm ==
  ASSUME NEW f, NEW s, NEW b, NEW P, NEW M, BlockForm(f, s, b, P, M),
         NEW p \in Phis, p \notin P, NEW x \in Instructions, x = Ins("PHI", p, {Mov(p)})
  PROVE  BlockForm(f, <<x>> \o s, b, P \cup {p}, M)
  <1>. DEFINE r == <<x>> \o s
              k == 1
  <1>0. x.type = "PHI" /\ x.value = p /\ x.operands = {Mov(p)}
    BY DEF Ins
  <1>1. Ended(s) /\ Sorted(s) /\ s \in Seq(Instructions) /\ Len(s) > 0 /\ DOMAIN s = 1 .. Len(s)
    BY DEF BlockForm, Ended
  <1>2. Inserted(s, r, k, x)
    BY <1>1, InFrontInserts
  <1>. HIDE DEF r
  <1>3. k \in DOMAIN r /\ r[k] = x /\ DOMAIN r \subseteq Int /\ Kept(s, r, k)
    BY <1>1, <1>2, Shift
  <1>4. Ended(r)
    BY <1>0, <1>1, <1>2, EndedKept
  <1>5. Sorted(r)
    <2>1. Rank(r[k].type) = 1
      BY <1>0, <1>3 DEF Rank
    <2>2. \A i \in DOMAIN s : /\ i < k => Rank(s[i].type) <= Rank(r[k].type)
                              /\ k <= i => Rank(r[k].type) <= Rank(s[i].type)
      BY <1>1, <2>1, RankRange
    <2>. QED  BY <1>0, <1>1, <1>3, <2>2, SortedKept
  <1>6. ValuesForm(f, r, b) /\ MovForm(f, r, b, M) /\ EndForm(f, r, b)
    BY <1>0, <1>3, ValuesFormKept, MovFormKept, EndFormKept DEF BlockForm
  <1>7. PhiForm(r, P \cup {p})
    <2>0. PhiForm(s, P)
      BY DEF BlockForm
    <2>. HIDE DEF k
    <2>a. \A i \in DOMAIN r : i # k => \E j \in DOMAIN s : r[i] = s[j]
      BY <1>3 DEF Kept
    <2>b. \A j \in DOMAIN s : \E i \in DOMAIN r : i # k /\ r[i] = s[j]
      BY <1>3 DEF Kept
    <2>c. \A i, h \in DOMAIN r : i # k /\ h # k /\ i # h => \E j, l \in DOMAIN s : j # l /\ r[i] = s[j] /\ r[h] = s[l]
      BY <1>3 DEF Kept
    <2>1. \A i \in DOMAIN r : i # k /\ r[i].type = "PHI" => r[i].value # p
      BY <2>a, <2>0 DEF PhiForm
    <2>2. \A i \in DOMAIN r : r[i].type = "PHI" => r[i].value \in P \cup {p} /\ r[i].operands = {Mov(r[i].value)}
      <3>. SUFFICES ASSUME NEW i \in DOMAIN r, r[i].type = "PHI"
                    PROVE  r[i].value \in P \cup {p} /\ r[i].operands = {Mov(r[i].value)}
        OBVIOUS
      <3>1. CASE i = k
        BY <1>0, <1>3, <3>1
      <3>2. CASE i # k
        BY <2>a, <2>0, <3>2 DEF PhiForm
      <3>. QED  BY <3>1, <3>2
    <2>3. \A q \in P \cup {p} : \E i \in DOMAIN r : r[i].type = "PHI" /\ r[i].value = q
      <3>1. \E i \in DOMAIN r : r[i].type = "PHI" /\ r[i].value = p
        BY <1>0, <1>3
      <3>2. \A q \in P : \E i \in DOMAIN r : r[i].type = "PHI" /\ r[i].value = q
        BY <2>b, <2>0 DEF PhiForm
      <3>. QED  BY <3>1, <3>2
    <2>4. \A i, j \in DOMAIN r : r[i].type = "PHI" /\ r[j].type = "PHI" /\ r[i].value = r[j].value => i = j
      <3>. SUFFICES ASSUME NEW i \in DOMAIN r, NEW j \in DOMAIN r, r[i].type = "PHI",
                           r[j].type = "PHI", r[i].value = r[j].value, i # j
                    PROVE  FALSE
        OBVIOUS
      <3>1. i # k /\ j # k
        BY <1>0, <1>3, <2>1
      <3>. QED  BY <2>c, <2>0, <3>1 DEF PhiForm
    <2>. QED  BY <2>2, <2>3, <2>4 DEF PhiForm
  <1>. QED  BY <1>4, <1>5, <1>6, <1>7 DEF BlockForm, r

-----------------------------------------------------------------------------
(* The code before phi elimination has the form, without phis.             *)
LEMMA EndingForm ==
  ASSUME NEW f, FunctionOK(f), NEW b \in Blocks
  PROVE  LET e == Ending(f, b) IN
           /\ e \in Seq(Instructions) /\ Len(e) \in {1, 2}
           /\ Rank(e[Len(e)].type) = 6
           /\ Len(e) = 2 => Rank(e[1].type) \in {3, 5} /\ (e[1].type = "CMP" => e[2].type = "BR")
           /\ \A i \in 1 .. Len(e) : e[i].type \in {"STORE", "CMP", "JMP", "BR", "RET"}
           /\ EndForm(f, e, b)
  <1>. DEFINE used == f.ends[b]
  <1>1. used \subseteq Int /\ {} \subseteq Int /\ None \in Int
    BY ConstantsAssumption DEF FunctionOK, Variables, None
  <1>2. /\ Ins("RET", None, used) \in Instructions /\ Ins("STORE", None, used) \in Instructions
        /\ Ins("CMP", None, used) \in Instructions /\ Ins("JMP", None, {}) \in Instructions
        /\ Ins("BR", None, {}) \in Instructions
    BY <1>1 DEF Ins, Instructions
  <1>3. \/ Ending(f, b) = <<Ins("RET", None, used)>>
        \/ used = {} /\ Ending(f, b) = <<Ins("JMP", None, {})>>
        \/ used = {} /\ Ending(f, b) = <<Ins("BR", None, {})>>
        \/ Ending(f, b) = <<Ins("STORE", None, used), Ins("JMP", None, {})>>
        \/ Ending(f, b) = <<Ins("CMP", None, used), Ins("BR", None, {})>>
    BY DEF Ending
  <1>. HIDE DEF used
  <1>4. used = f.ends[b]
    BY DEF used
  <1>5. CASE Ending(f, b) = <<Ins("RET", None, used)>>
    BY <1>2, <1>4, <1>5 DEF Ins, Rank, EndForm
  <1>6. CASE used = {} /\ Ending(f, b) = <<Ins("JMP", None, {})>>
    BY <1>2, <1>4, <1>6 DEF Ins, Rank, EndForm
  <1>7. CASE used = {} /\ Ending(f, b) = <<Ins("BR", None, {})>>
    BY <1>2, <1>4, <1>7 DEF Ins, Rank, EndForm
  <1>8. CASE Ending(f, b) = <<Ins("STORE", None, used), Ins("JMP", None, {})>>
    BY <1>2, <1>4, <1>8 DEF Ins, Rank, EndForm
  <1>9. CASE Ending(f, b) = <<Ins("CMP", None, used), Ins("BR", None, {})>>
    BY <1>2, <1>4, <1>9 DEF Ins, Rank, EndForm
  <1>. QED  BY <1>3, <1>5, <1>6, <1>7, <1>8, <1>9

LEMMA CodeOfForm ==
  ASSUME NEW f, FunctionOK(f), LaidOut(f), NEW b \in Blocks
  PROVE  BlockForm(f, CodeOf(f, b), b, {}, {})
  <1>. DEFINE made == f.made[b]
              front == [i \in DOMAIN made |-> Ins("INS", made[i], f.operands[made[i]])]
              e == Ending(f, b)
              s == CodeOf(f, b)
              m == Len(made)
              n == Len(e)
  <1>1. made \in Seq(Ordinary) /\ m \in Nat /\ DOMAIN made = 1 .. m /\ \A i \in 1 .. m : made[i] \in Ordinary
    BY DEF FunctionOK
  <1>2. \A v \in Ordinary : v \in Int /\ f.operands[v] \in SUBSET Int
    BY ConstantsAssumption DEF FunctionOK, Variables
  <1>3. front \in Seq(Instructions) /\ Len(front) = m
    <2>1. \A i \in 1 .. m : Ins("INS", made[i], f.operands[made[i]]) \in Instructions
      BY <1>1, <1>2 DEF Ins, Instructions
    <2>. QED  BY <1>1, <2>1
  <1>4. /\ e \in Seq(Instructions) /\ n \in {1, 2}
        /\ Rank(e[n].type) = 6
        /\ n = 2 => Rank(e[1].type) \in {3, 5} /\ (e[1].type = "CMP" => e[2].type = "BR")
        /\ \A i \in 1 .. n : e[i].type \in {"STORE", "CMP", "JMP", "BR", "RET"}
        /\ EndForm(f, e, b)
    BY EndingForm
  <1>5. s = front \o e
    BY DEF CodeOf
  <1>. HIDE DEF s, e
  <1>6. /\ s \in Seq(Instructions) /\ Len(s) = m + n /\ DOMAIN s = 1 .. m + n
        /\ \A i \in 1 .. m : s[i] = front[i]
        /\ \A i \in 1 .. n : s[m + i] = e[i]
    <2>. HIDE DEF front
    <2>. DEFINE whole == front \o e
    <2>0. /\ whole \in Seq(Instructions) /\ Len(whole) = Len(front) + Len(e)
          /\ \A i \in 1 .. Len(whole) : whole[i] = IF i <= Len(front) THEN front[i] ELSE e[i - Len(front)]
      <3>1. front \in Seq(Instructions) /\ e \in Seq(Instructions)
        BY <1>3, <1>4
      <3>. QED  BY <3>1, Concatenated
    <2>. HIDE DEF whole
    <2>1. /\ s \in Seq(Instructions) /\ Len(s) = Len(front) + Len(e)
          /\ \A i \in 1 .. Len(s) : s[i] = IF i <= Len(front) THEN front[i] ELSE e[i - Len(front)]
      BY <1>5, <2>0 DEF whole
    <2>2. n \in Nat /\ Len(s) = m + n
      BY <1>1, <1>3, <1>4, <2>1
    <2>. HIDE DEF m, n, made, e
    <2>3. ASSUME NEW i \in 1 .. m  PROVE s[i] = front[i]
      <3>1. i \in 1 .. m + n /\ i <= m
        BY <1>1, <2>2
      <3>. QED  BY <1>3, <2>1, <2>2, <3>1
    <2>4. ASSUME NEW i \in 1 .. n  PROVE s[m + i] = e[i]
      <3>1. m + i \in 1 .. Len(s) /\ ~(m + i <= Len(front)) /\ m + i - Len(front) = i
        BY <1>1, <1>3, <2>2
      <3>2. s[m + i] = e[m + i - Len(front)]
        BY <1>1, <2>1, <2>2, <3>1
      <3>. QED  BY <1>1, <2>2, <3>1, <3>2
    <2>5. DOMAIN s = 1 .. m + n
      BY <2>1, <2>2
    <2>. QED  BY <2>1, <2>2, <2>3, <2>4, <2>5
  <1>. HIDE DEF n
  <1>7. \A i \in 1 .. m : s[i].type = "INS" /\ s[i].value = made[i] /\ s[i].operands = f.operands[made[i]]
    <2>1. \A i \in 1 .. m : front[i] = Ins("INS", made[i], f.operands[made[i]])
      BY <1>1
    <2>2. \A i \in 1 .. m : s[i] = Ins("INS", made[i], f.operands[made[i]])
      BY <1>6, <2>1
    <2>. HIDE DEF front, m, made
    <2>. SUFFICES ASSUME NEW i \in 1 .. m
                  PROVE  s[i].type = "INS" /\ s[i].value = made[i] /\ s[i].operands = f.operands[made[i]]
      OBVIOUS
    <2>3. s[i] = Ins("INS", made[i], f.operands[made[i]])
      BY <2>2
    <2>. QED  BY <2>3 DEF Ins
  <1>. HIDE DEF front, m, made
  <1>8. \A i \in 1 .. m + n : i > m =>
          /\ i - m \in 1 .. n /\ s[i] = e[i - m]
          /\ s[i].type \in {"STORE", "CMP", "JMP", "BR", "RET"}
    <2>. SUFFICES ASSUME NEW i \in 1 .. m + n, i > m
                  PROVE  /\ i - m \in 1 .. n /\ s[i] = e[i - m]
                         /\ s[i].type \in {"STORE", "CMP", "JMP", "BR", "RET"}
      OBVIOUS
    <2>1. i - m \in 1 .. n /\ i = m + (i - m)
      BY <1>1, <1>4
    <2>. QED  BY <1>4, <1>6, <2>1
  <1>9. \A i \in 1 .. m + n : s[i].type = "INS" <=> i \in 1 .. m
    BY <1>1, <1>4, <1>7, <1>8
  <1>10. Ended(s)
    <2>1. m + n > 0 /\ s[m + n] = e[n]
      BY <1>1, <1>4, <1>6
    <2>2. ASSUME NEW i \in DOMAIN s, s[i].type = "CMP"  PROVE s[m + n].type = "BR"
      <3>1. i \in 1 .. m + n /\ i > m
        BY <1>1, <1>4, <1>6, <1>9, <2>2
      <3>2. i - m \in 1 .. n /\ e[i - m].type = "CMP"
        BY <1>8, <2>2, <3>1
      <3>3. i - m # n
        BY <1>4, <3>2 DEF Rank
      <3>. QED  BY <1>4, <2>1, <3>2, <3>3
    <2>. QED  BY <1>4, <1>6, <2>1, <2>2 DEF Ended
  <1>11. Sorted(s)
    <2>. SUFFICES ASSUME NEW i \in 1 .. m + n, NEW j \in 1 .. m + n, i < j
                  PROVE  /\ Rank(s[i].type) <= Rank(s[j].type)
                         /\ Rank(s[i].type) = Rank(s[j].type) => s[i].type \in {"PHI", "INS", "PHI_MOV"}
      BY <1>6 DEF Sorted
    <2>1. CASE i \in 1 .. m
      <3>1. s[i].type = "INS" /\ Rank(s[i].type) = 2
        BY <1>7, <2>1 DEF Rank
      <3>2. Rank(s[j].type) \in 2 .. 6
        BY <1>7, <1>8, <1>1, <1>4 DEF Rank
      <3>. QED  BY <3>1, <3>2
    <2>2. CASE i \notin 1 .. m
      <3>1. i - m = 1 /\ j - m = 2 /\ n = 2 /\ s[i] = e[1] /\ s[j] = e[2]
        BY <1>1, <1>4, <1>8, <2>2
      <3>. QED  BY <1>4, <3>1
    <2>. QED  BY <2>1, <2>2
  <1>12. ValuesForm(f, s, b)
    <2>1. \A i \in DOMAIN s : s[i].type = "INS" =>
            s[i].value \in Ordinary /\ f.block[s[i].value] = b /\ s[i].operands = f.operands[s[i].value]
      <3>1. \A i \in 1 .. m : made[i] \in Ordinary /\ f.block[made[i]] = b
        BY <1>1 DEF LaidOut, made
      <3>. QED  BY <1>6, <1>7, <1>9, <3>1
    <2>2. \A v \in Ordinary : f.block[v] = b => \E i \in DOMAIN s : s[i].type = "INS" /\ s[i].value = v
      <3>. SUFFICES ASSUME NEW v \in Ordinary, f.block[v] = b
                    PROVE  \E i \in DOMAIN s : s[i].type = "INS" /\ s[i].value = v
        OBVIOUS
      <3>1. \E i \in DOMAIN made : made[i] = v
        BY DEF LaidOut, made
      <3>2. \A i \in DOMAIN made : i \in 1 .. m + n
        BY <1>1, <1>4
      <3>. QED  BY <1>1, <1>6, <1>7, <3>1, <3>2
    <2>3. \A i, j \in DOMAIN s : i < j /\ s[i].type = "INS" /\ s[j].type = "INS" =>
            Earlier(f, b, s[i].value, s[j].value)
      BY <1>1, <1>6, <1>7, <1>9 DEF Earlier, made
    <2>. QED  BY <2>1, <2>2, <2>3 DEF ValuesForm
  <1>13. PhiForm(s, {}) /\ MovForm(f, s, b, {})
    <2>1. \A i \in DOMAIN s : s[i].type \notin {"PHI", "PHI_MOV"}
      <3>. SUFFICES ASSUME NEW i \in 1 .. m + n  PROVE s[i].type \notin {"PHI", "PHI_MOV"}
        BY <1>6
      <3>1. CASE i \in 1 .. m
        BY <1>7, <3>1
      <3>2. CASE i > m
        BY <1>8, <3>2
      <3>. QED  BY <1>1, <1>4, <3>1, <3>2
    <2>. QED  BY <2>1 DEF PhiForm, MovForm
  <1>14. EndForm(f, s, b)
    <2>1. \A i \in DOMAIN s : s[i].type \in {"STORE", "CMP", "JMP", "BR", "RET"} =>
            s[i].value = None /\ s[i].operands \subseteq f.ends[b]
      <3>. SUFFICES ASSUME NEW i \in DOMAIN s, s[i].type \in {"STORE", "CMP", "JMP", "BR", "RET"}
                    PROVE  s[i].value = None /\ s[i].operands \subseteq f.ends[b]
        OBVIOUS
      <3>1. i \in 1 .. m + n /\ i > m
        BY <1>1, <1>4, <1>6, <1>9
      <3>2. i - m \in DOMAIN e /\ s[i] = e[i - m]
        BY <1>4, <1>8, <3>1 DEF n
      <3>. QED  BY <1>4, <3>2 DEF EndForm
    <2>2. ASSUME f.ends[b] # {}
          PROVE  \E i \in DOMAIN s : /\ s[i].type \in {"STORE", "CMP", "JMP", "BR", "RET"}
                                     /\ s[i].operands = f.ends[b]
      <3>1. PICK i \in DOMAIN e : e[i].type \in {"STORE", "CMP", "JMP", "BR", "RET"} /\ e[i].operands = f.ends[b]
        BY <1>4, <2>2 DEF EndForm
      <3>2. i \in 1 .. n
        BY <1>4, <3>1 DEF n
      <3>3. m + i \in DOMAIN s /\ s[m + i] = e[i]
        BY <1>1, <1>4, <1>6, <3>2
      <3>. QED  BY <3>1, <3>3
    <2>. QED  BY <2>1, <2>2 DEF EndForm
  <1>. QED  BY <1>10, <1>11, <1>12, <1>13, <1>14 DEF BlockForm, s

-----------------------------------------------------------------------------
(* The phis E are eliminated: each stands in its block, its phi_mov in the *)
(* predecessors.                                                           *)
PhisIn(f, E, b) == {p \in E : f.block[p] = b}
MovsIn(f, E, b) == {p \in E : b \in Preds(f, f.block[p])}

InForm(f, c, E) ==
  /\ c = [b \in Blocks |-> c[b]]
  /\ \A b \in Blocks : BlockForm(f, c[b], b, PhisIn(f, E, b), MovsIn(f, E, b))

LEMMA PhiFacts ==
  ASSUME NEW f, FunctionOK(f), LaidOut(f), NEW p \in PhisOf(f)
  PROVE  /\ p \in Phis /\ f.phi[p].block = f.block[p] /\ f.block[p] \in Blocks
         /\ f.phi[p].operands \in [Preds(f, f.block[p]) -> Variables \cup {None}]
  BY DEF FunctionOK, LaidOut, PhisOf, Variables

LEMMA MovedForm ==
  ASSUME NEW f, FunctionOK(f), LaidOut(f), NEW p \in PhisOf(f), NEW E \in SUBSET PhisOf(f), p \notin E,
         NEW b \in Blocks, NEW s, BlockForm(f, s, b, PhisIn(f, E, b), MovsIn(f, E, b)), NEW r,
         b \in Preds(f, f.block[p]) =>
           r = WithMov(s, Ins("PHI_MOV", Mov(p), {f.phi[p].operands[b]} \ {None})),
         b \notin Preds(f, f.block[p]) => r = s
  PROVE  BlockForm(f, r, b, PhisIn(f, E, b), MovsIn(f, E \cup {p}, b))
  <1>. DEFINE mov == Ins("PHI_MOV", Mov(p), {f.phi[p].operands[b]} \ {None})
  <1>1. /\ p \in Phis /\ Mov(p) \in Int /\ p \in Int
        /\ f.phi[p].operands \in [Preds(f, f.block[p]) -> Variables \cup {None}]
    BY PhiFacts, ConstantsAssumption DEF Mov
  <1>2. CASE b \in Preds(f, f.block[p])
    <2>1. {f.phi[p].operands[b]} \ {None} \subseteq Int
      BY <1>1, <1>2, ConstantsAssumption DEF Variables
    <2>2. mov \in Instructions
      BY <1>1, <2>1 DEF Ins, Instructions
    <2>3. /\ MovsIn(f, E, b) \in SUBSET Phis /\ p \notin MovsIn(f, E, b)
          /\ MovsIn(f, E \cup {p}, b) = MovsIn(f, E, b) \cup {p}
      BY <1>2 DEF MovsIn, PhisOf
    <2>4. BlockForm(f, WithMov(s, mov), b, PhisIn(f, E, b), MovsIn(f, E, b) \cup {p})
      BY <1>1, <2>2, <2>3, MovKeepsForm
    <2>. QED  BY <1>2, <2>3, <2>4
  <1>3. CASE b \notin Preds(f, f.block[p])
    <2>1. MovsIn(f, E \cup {p}, b) = MovsIn(f, E, b)
      BY <1>3 DEF MovsIn
    <2>. QED  BY <1>3, <2>1
  <1>. QED  BY <1>2, <1>3

LEMMA FrontForm ==
  ASSUME NEW f, FunctionOK(f), LaidOut(f), NEW p \in PhisOf(f), NEW E \in SUBSET PhisOf(f), p \notin E,
         NEW b \in Blocks, NEW M \in SUBSET Phis, NEW s, BlockForm(f, s, b, PhisIn(f, E, b), M), NEW r,
         b = f.block[p] => r = <<Ins("PHI", p, {Mov(p)})>> \o s,
         b # f.block[p] => r = s
  PROVE  BlockForm(f, r, b, PhisIn(f, E \cup {p}, b), M)
  <1>1. p \in Phis /\ Mov(p) \in Int /\ p \in Int
    BY PhiFacts, ConstantsAssumption DEF Mov
  <1>2. CASE b = f.block[p]
    <2>1. Ins("PHI", p, {Mov(p)}) \in Instructions
      BY <1>1 DEF Ins, Instructions
    <2>2. p \notin PhisIn(f, E, b) /\ PhisIn(f, E \cup {p}, b) = PhisIn(f, E, b) \cup {p}
      BY <1>2 DEF PhisIn
    <2>3. BlockForm(f, <<Ins("PHI", p, {Mov(p)})>> \o s, b, PhisIn(f, E, b) \cup {p}, M)
      BY <1>1, <2>1, <2>2, PhiKeepsForm
    <2>. QED  BY <1>2, <2>2, <2>3
  <1>3. CASE b # f.block[p]
    <2>1. PhisIn(f, E \cup {p}, b) = PhisIn(f, E, b)
      BY <1>3 DEF PhisIn
    <2>. QED  BY <1>3, <2>1
  <1>. QED  BY <1>2, <1>3

(* What EliminatePhi makes of the code c.                                  *)
Moved(f, c, p) ==
  [b \in Blocks |->
     IF b \in DOMAIN f.phi[p].operands
     THEN WithMov(c[b], Ins("PHI_MOV", Mov(p), {f.phi[p].operands[b]} \ {None}))
     ELSE c[b]]
Eliminated(f, c, p) == [Moved(f, c, p) EXCEPT ![f.phi[p].block] = <<Ins("PHI", p, {Mov(p)})>> \o @]

LEMMA EliminateKeepsForm ==
  ASSUME NEW f, FunctionOK(f), LaidOut(f), NEW c, NEW E \in SUBSET PhisOf(f), InForm(f, c, E),
         NEW p \in PhisOf(f), p \notin E
  PROVE  InForm(f, Eliminated(f, c, p), E \cup {p})
  <1>. DEFINE m == Moved(f, c, p)
              d == Eliminated(f, c, p)
  <1>1. /\ f.phi[p].block = f.block[p] /\ f.block[p] \in Blocks
        /\ DOMAIN f.phi[p].operands = Preds(f, f.block[p])
    BY PhiFacts
  <1>2. \A b \in Blocks :
          /\ b \in Preds(f, f.block[p]) =>
               m[b] = WithMov(c[b], Ins("PHI_MOV", Mov(p), {f.phi[p].operands[b]} \ {None}))
          /\ b \notin Preds(f, f.block[p]) => m[b] = c[b]
    BY <1>1 DEF Moved
  <1>3. m = [b \in Blocks |-> m[b]]
    BY DEF Moved
  <1>4. d = [m EXCEPT ![f.block[p]] = <<Ins("PHI", p, {Mov(p)})>> \o m[f.block[p]]]
    BY <1>1 DEF Eliminated
  <1>. HIDE DEF m, d
  <1>5. \A b \in Blocks : /\ b = f.block[p] => d[b] = <<Ins("PHI", p, {Mov(p)})>> \o m[b]
                          /\ b # f.block[p] => d[b] = m[b]
    BY <1>1, <1>3, <1>4
  <1>6. d = [b \in Blocks |-> d[b]]
    BY <1>1, <1>3, <1>4
  <1>7. ASSUME NEW b \in Blocks
        PROVE  BlockForm(f, d[b], b, PhisIn(f, E \cup {p}, b), MovsIn(f, E \cup {p}, b))
    <2>1. BlockForm(f, c[b], b, PhisIn(f, E, b), MovsIn(f, E, b))
      BY DEF InForm
    <2>2. BlockForm(f, m[b], b, PhisIn(f, E, b), MovsIn(f, E \cup {p}, b))
      BY <1>2, <2>1, MovedForm
    <2>3. MovsIn(f, E \cup {p}, b) \in SUBSET Phis
      BY DEF MovsIn, PhisOf
    <2>. QED  BY <1>5, <2>2, <2>3, FrontForm
  <1>8. InForm(f, d, E \cup {p})
    BY <1>6, <1>7 DEF InForm
  <1>. QED  BY <1>8 DEF d

(* The invariant of phi elimination.  What follows it leaves the code.     *)
FormInv ==
  /\ func \in Functions
  /\ pc \in {"eliminate", "mark", "edges", "merge", "done"}
  /\ IF pc = "eliminate"
     THEN todo \subseteq PhisOf(func) /\ InForm(func, code, PhisOf(func) \ todo)
     ELSE InForm(func, code, PhisOf(func))

LEMMA FormInit == Init => FormInv
  <1>. SUFFICES ASSUME Init  PROVE FormInv
    OBVIOUS
  <1>1. FunctionOK(func) /\ LaidOut(func)
    BY FunctionsAssumption DEF Init
  <1>2. \A b \in Blocks : PhisIn(func, {}, b) = {} /\ MovsIn(func, {}, b) = {}
    BY DEF PhisIn, MovsIn
  <1>3. \A b \in Blocks : BlockForm(func, code[b], b, {}, {})
    BY <1>1, CodeOfForm DEF Init
  <1>4. InForm(func, code, {})
    BY <1>2, <1>3 DEF InForm, Init
  <1>. QED  BY <1>4 DEF Init, FormInv

LEMMA FormNext == FormInv /\ [Next]_vars => FormInv'
  <1>. SUFFICES ASSUME FormInv, [Next]_vars  PROVE FormInv'
    OBVIOUS
  <1>1. ASSUME NEW p \in Phis, EliminatePhi(p)  PROVE FormInv'
    <2>1. FunctionOK(func) /\ LaidOut(func)
      BY FunctionsAssumption DEF FormInv
    <2>2. /\ pc = "eliminate" /\ pc' = pc /\ func' = func /\ todo' = todo \ {p}
          /\ p \in PhisOf(func) /\ p \notin PhisOf(func) \ todo
          /\ todo \subseteq PhisOf(func) /\ InForm(func, code, PhisOf(func) \ todo)
      <3>1. pc = "eliminate" /\ pc' = pc /\ func' = func /\ todo' = todo \ {p} /\ p \in todo
        BY <1>1, Zenon DEF EliminatePhi
      <3>. QED  BY <3>1 DEF FormInv
    <2>3. code' = Eliminated(func, code, p)
      BY <1>1, Zenon DEF EliminatePhi, Eliminated, Moved
    <2>4. InForm(func, code', (PhisOf(func) \ todo) \cup {p})
      BY <2>1, <2>2, <2>3, EliminateKeepsForm
    <2>5. (PhisOf(func) \ todo) \cup {p} = PhisOf(func) \ todo'
      BY <2>2
    <2>6. todo' \subseteq PhisOf(func') /\ InForm(func', code', PhisOf(func') \ todo')
      BY <2>2, <2>4, <2>5
    <2>. QED  BY <2>2, <2>6 DEF FormInv
  <1>2. CASE StartMarking
    <2>1. PhisOf(func) \ todo = PhisOf(func)
      BY <1>2 DEF StartMarking
    <2>. QED  BY <1>2, <2>1 DEF StartMarking, FormInv
  <1>3. CASE Visit \/ VisitPhiMov \/ SkipUser \/ MarkInBlock \/ MarkAcrossBlocks
    <2>1. pc = "mark" /\ pc' = pc /\ func' = func /\ code' = code
      BY <1>3 DEF Visit, VisitPhiMov, SkipUser, MarkInBlock, MarkAcrossBlocks
    <2>. QED  BY <2>1 DEF FormInv
  <1>4. CASE EndMarking \/ AddEdges \/ MergeAliveValues
    <2>1. pc # "eliminate" /\ pc' \in {"edges", "merge", "done"} /\ func' = func /\ code' = code
      BY <1>4 DEF EndMarking, AddEdges, MergeAliveValues
    <2>. QED  BY <2>1 DEF FormInv
  <1>5. CASE Done \/ UNCHANGED vars
    BY <1>5 DEF Done, vars, FormInv
  <1>. QED  BY <1>1, <1>2, <1>3, <1>4, <1>5 DEF Next

(* A comparison has only the branch behind it.                             *)
LEMMA ComparisonBeforeBranch ==
  ASSUME NEW s, Ended(s), Sorted(s), NEW i \in DOMAIN s, s[i].type = "CMP"
  PROVE  s[i + 1].type = "BR"
  <1>. DEFINE n == Len(s)
  <1>1. n \in Nat /\ DOMAIN s = 1 .. n /\ Rank(s[n].type) = 6 /\ s[n].type = "BR" /\ n \in DOMAIN s
    BY DEF Ended
  <1>. HIDE DEF n
  <1>2. Rank(s[i].type) = 5 /\ \A t \in {"PHI", "INS", "PHI_MOV"} : Rank(t) \notin {5, 6}
    BY DEF Rank
  <1>3. i \in 1 .. n /\ i # n /\ i + 1 \in 1 .. n
    BY <1>1, <1>2
  <1>4. Rank(s[i + 1].type) = 6
    <2>1. Rank(s[i].type) <= Rank(s[i + 1].type) /\ Rank(s[i].type) # Rank(s[i + 1].type)
      BY <1>1, <1>2, <1>3 DEF Sorted
    <2>. QED  BY <1>2, <2>1, RankRange
  <1>5. i + 1 = n
    <2>1. SUFFICES ASSUME i + 1 < n  PROVE FALSE
      BY <1>1, <1>3
    <2>2. Rank(s[i + 1].type) = Rank(s[n].type) => s[i + 1].type \in {"PHI", "INS", "PHI_MOV"}
      BY <1>1, <1>3, <2>1 DEF Sorted
    <2>. QED  BY <1>1, <1>2, <1>4, <2>2
  <1>. QED  BY <1>1, <1>5

(* The inductive invariant: at every moment of phi elimination, each block  *)
(* holds the phis, values, phi_movs and uses that it should, in order.      *)
THEOREM FormInvariant == Spec => []FormInv
  BY FormInit, FormNext, PTL DEF Spec

(* Phi elimination puts no phi_mov between a comparison and its branch.    *)
THEOREM SpecComparisonKept == Spec => []ComparisonKept
  <1>1. FormInv => ComparisonKept
    <2>. SUFFICES ASSUME FormInv, pc # "eliminate", NEW pl \in Places, At(pl).type = "CMP"
                  PROVE  code[pl[1]][pl[2] + 1].type = "BR"
      BY DEF ComparisonKept
    <2>1. PICK b \in Blocks : \E j \in DOMAIN code[b] : pl = <<b, j>>
      BY DEF Places, PlacesOf
    <2>2. PICK i \in DOMAIN code[b] : pl = <<b, i>>
      BY <2>1
    <2>3. Ended(code[b]) /\ Sorted(code[b])
      BY DEF FormInv, InForm, BlockForm
    <2>. QED  BY <2>2, <2>3, ComparisonBeforeBranch DEF At
  <1>. QED  BY <1>1, FormInvariant, PTL

-----------------------------------------------------------------------------
(* The code when marking starts: what its instructions are.                *)
Final(f, c) == FunctionOK(f) /\ LaidOut(f) /\ SsaForm(f) /\ InForm(f, c, PhisOf(f))

EndTypes == {"STORE", "CMP", "JMP", "BR", "RET"}

LEMMA FinalBlock ==
  ASSUME NEW f, NEW c, Final(f, c), NEW b \in Blocks
  PROVE  /\ c[b] \in Seq(Instructions) /\ Len(c[b]) \in Nat /\ Len(c[b]) > 0 /\ DOMAIN c[b] = 1 .. Len(c[b])
         /\ Rank(c[b][Len(c[b])].type) = 6
         /\ Sorted(c[b]) /\ ValuesForm(f, c[b], b) /\ EndForm(f, c[b], b)
         /\ PhiForm(c[b], PhisIn(f, PhisOf(f), b))
         /\ MovForm(f, c[b], b, MovsIn(f, PhisOf(f), b))
  <1>1. BlockForm(f, c[b], b, PhisIn(f, PhisOf(f), b), MovsIn(f, PhisOf(f), b))
    BY DEF Final, InForm
  <1>2. Ended(c[b]) /\ c[b] \in Seq(Instructions) /\ Len(c[b]) > 0
    BY <1>1 DEF BlockForm, Ended
  <1>. QED  BY <1>1, <1>2 DEF BlockForm, Ended

LEMMA FinalInstruction ==
  ASSUME NEW f, NEW c, Final(f, c), NEW b \in Blocks, NEW i \in DOMAIN c[b]
  PROVE  LET x == c[b][i] IN
         /\ x.type \in {"PHI", "INS", "PHI_MOV"} \cup EndTypes
         /\ x.type = "INS" => x.value \in Ordinary /\ f.block[x.value] = b /\ x.operands = f.operands[x.value]
         /\ x.type = "PHI" => x.value \in PhisOf(f) /\ f.block[x.value] = b /\ x.operands = {Mov(x.value)}
         /\ x.type = "PHI_MOV" => \E p \in PhisOf(f) : /\ b \in Preds(f, f.block[p]) /\ x.value = Mov(p)
                                                       /\ x.operands = {f.phi[p].operands[b]} \ {None}
         /\ x.type \in EndTypes => x.value = None /\ x.operands \subseteq f.ends[b]
  <1>1. c[b] \in Seq(Instructions) /\ i \in 1 .. Len(c[b]) /\ c[b][i] \in Instructions
    BY FinalBlock
  <1>2. c[b][i].type \in {"PHI", "INS", "PHI_MOV"} \cup EndTypes
    BY <1>1 DEF Instructions, EndTypes
  <1>3. c[b][i].type = "INS" =>
          c[b][i].value \in Ordinary /\ f.block[c[b][i].value] = b /\ c[b][i].operands = f.operands[c[b][i].value]
    BY FinalBlock DEF ValuesForm
  <1>4. c[b][i].type = "PHI" =>
          c[b][i].value \in PhisOf(f) /\ f.block[c[b][i].value] = b /\ c[b][i].operands = {Mov(c[b][i].value)}
    BY FinalBlock DEF PhiForm, PhisIn
  <1>5. c[b][i].type = "PHI_MOV" =>
          \E p \in PhisOf(f) : /\ b \in Preds(f, f.block[p]) /\ c[b][i].value = Mov(p)
                               /\ c[b][i].operands = {f.phi[p].operands[b]} \ {None}
    BY FinalBlock DEF MovForm, MovsIn
  <1>6. c[b][i].type \in EndTypes => c[b][i].value = None /\ c[b][i].operands \subseteq f.ends[b]
    BY FinalBlock DEF EndForm, EndTypes
  <1>. QED  BY <1>2, <1>3, <1>4, <1>5, <1>6

(* What its value says of an instruction.                                  *)
LEMMA FinalValue ==
  ASSUME NEW f, NEW c, Final(f, c), NEW b \in Blocks, NEW i \in DOMAIN c[b]
  PROVE  LET x == c[b][i] IN
         /\ x.value \in Int
         /\ x.value \in Ordinary => x.type = "INS" /\ f.block[x.value] = b
         /\ x.value \in Phis => x.type = "PHI" /\ f.block[x.value] = b
         /\ x.value \notin Params
         /\ x.value > 0 => x.value \in Ordinary \cup Phis
         /\ x.value < 0 => x.type = "PHI_MOV"
         /\ x.type \in {"INS", "PHI"} => x.value > 0
         /\ x.type = "PHI_MOV" => x.value < 0
         /\ x.type \in EndTypes => x.value = None
  <1>. DEFINE x == c[b][i]
  <1>0. \A v \in Params \cup Ordinary \cup Phis : v \in Int /\ v > 0
    BY ConstantsAssumption
  <1>1. PhisOf(f) \subseteq Phis
    BY DEF PhisOf
  <1>2. x.type \in {"PHI", "INS", "PHI_MOV"} \cup EndTypes
    BY FinalInstruction
  <1>3. CASE x.type = "INS"
    <2>1. x.value \in Ordinary /\ f.block[x.value] = b
      BY <1>3, FinalInstruction
    <2>. QED  BY <1>0, <1>3, <2>1, ConstantsAssumption DEF EndTypes
  <1>4. CASE x.type = "PHI"
    <2>1. x.value \in Phis /\ f.block[x.value] = b
      BY <1>1, <1>4, FinalInstruction
    <2>. QED  BY <1>0, <1>4, <2>1, ConstantsAssumption DEF EndTypes
  <1>5. CASE x.type = "PHI_MOV"
    <2>1. \E p \in Phis : x.value = Mov(p)
      BY <1>1, <1>5, FinalInstruction
    <2>2. x.value \in Int /\ x.value < 0
      BY <1>0, <2>1 DEF Mov
    <2>3. x.value \notin Params \cup Ordinary \cup Phis
      BY <1>0, <2>2
    <2>. QED  BY <1>5, <2>2, <2>3 DEF EndTypes
  <1>6. CASE x.type \in EndTypes
    <2>1. x.value = None
      BY <1>6, FinalInstruction
    <2>2. x.value = 0 /\ x.value \notin Params \cup Ordinary \cup Phis
      BY <1>0, <2>1 DEF None
    <2>. QED  BY <1>6, <2>1, <2>2 DEF EndTypes
  <1>. QED  BY <1>2, <1>3, <1>4, <1>5, <1>6

-----------------------------------------------------------------------------
(* Where values are made and used in it: parameters in front of the entry. *)
DefAt(c, v, b, i) ==
  \/ v \in Params /\ b = 1 /\ i = 0
  \/ b \in Blocks /\ i \in DOMAIN c[b] /\ c[b][i].value = v /\ v # None

UseAt(c, v, b, j) == b \in Blocks /\ j \in DOMAIN c[b] /\ v \in c[b][j].operands

LEMMA DefRange ==
  ASSUME NEW f, NEW c, Final(f, c), NEW v, NEW b, NEW i, DefAt(c, v, b, i)
  PROVE  /\ b \in Blocks /\ i \in Nat /\ i < Len(c[b])
         /\ v \in Int /\ v # 0
         /\ v > 0 => v \in Variables /\ f.block[v] = b
         /\ v < 0 => \E p \in PhisOf(f) : v = Mov(p) /\ b \in Preds(f, f.block[p])
  <1>1. CASE v \in Params /\ b = 1 /\ i = 0
    <2>1. f.block[v] = 1 /\ 1 \in Blocks /\ v \in Nat /\ v > 0
      BY <1>1, ConstantsAssumption DEF Final, LaidOut
    <2>2. Len(c[1]) \in Nat /\ Len(c[1]) > 0
      BY <2>1, FinalBlock
    <2>. QED  BY <1>1, <2>1, <2>2 DEF Variables
  <1>2. CASE b \in Blocks /\ i \in DOMAIN c[b] /\ c[b][i].value = v /\ v # None
    <2>1. DOMAIN c[b] = 1 .. Len(c[b]) /\ Len(c[b]) \in Nat /\ Len(c[b]) > 0 /\ Rank(c[b][Len(c[b])].type) = 6
      BY <1>2, FinalBlock
    <2>2. /\ v \in Int /\ v # 0
          /\ v \in Ordinary => f.block[v] = b
          /\ v \in Phis => f.block[v] = b
          /\ v > 0 => v \in Ordinary \cup Phis
          /\ v < 0 => c[b][i].type = "PHI_MOV"
          /\ c[b][i].type \notin EndTypes
      BY <1>2, FinalValue DEF None
    <2>3. v < 0 => \E p \in PhisOf(f) : v = Mov(p) /\ b \in Preds(f, f.block[p])
      BY <1>2, <2>2, FinalInstruction
    <2>4. i # Len(c[b])
      <3>1. c[b][i].type \in {"PHI", "INS", "PHI_MOV"}
        BY <1>2, <2>2, FinalInstruction
      <3>. QED  BY <2>1, <3>1 DEF Rank
    <2>5. i \in Nat /\ i < Len(c[b])
      BY <1>2, <2>1, <2>4
    <2>6. v > 0 => v \in Variables /\ f.block[v] = b
      BY <2>2 DEF Variables
    <2>. QED  BY <1>2, <2>2, <2>3, <2>5, <2>6
  <1>. QED  BY <1>1, <1>2 DEF DefAt

(* A value that is not a phi_mov's is made in one place.                   *)
LEMMA MadeOnce ==
  ASSUME NEW f, NEW c, Final(f, c), NEW v \in Variables,
         NEW b, NEW i, DefAt(c, v, b, i), NEW b2, NEW i2, DefAt(c, v, b2, i2)
  PROVE  b = b2 /\ i = i2
  <1>1. v \in Int /\ v > 0
    BY ConstantsAssumption DEF Variables
  <1>2. b = f.block[v] /\ b2 = f.block[v] /\ b \in Blocks
    BY <1>1, DefRange
  <1>3. CASE v \in Params
    <2>1. \A x \in Blocks : \A j \in DOMAIN c[x] : c[x][j].value # v
      BY <1>3, FinalValue
    <2>. QED  BY <2>1 DEF DefAt
  <1>4. CASE v \notin Params
    <2>1. i \in DOMAIN c[b] /\ i2 \in DOMAIN c[b] /\ c[b][i].value = v /\ c[b][i2].value = v
      BY <1>2, <1>4 DEF DefAt
    <2>2. DOMAIN c[b] = 1 .. Len(c[b])
      BY <1>2, FinalBlock
    <2>3. CASE v \in Phis
      <3>1. c[b][i].type = "PHI" /\ c[b][i2].type = "PHI"
        BY <1>2, <2>1, <2>3, FinalValue
      <3>2. PhiForm(c[b], PhisIn(f, PhisOf(f), b))
        BY <1>2, FinalBlock
      <3>3. i = i2
        BY <2>1, <3>1, <3>2 DEF PhiForm
      <3>. QED  BY <1>2, <3>3
    <2>4. CASE v \in Ordinary
      <3>1. c[b][i].type = "INS" /\ c[b][i2].type = "INS"
        BY <1>2, <2>1, <2>4, FinalValue
      <3>2. ~Earlier(f, b, v, v)
        BY <1>2 DEF Earlier, Final, LaidOut, FunctionOK
      <3>3. \A j, k \in DOMAIN c[b] : j < k /\ c[b][j].type = "INS" /\ c[b][k].type = "INS" =>
              Earlier(f, b, c[b][j].value, c[b][k].value)
        BY <1>2, FinalBlock DEF ValuesForm
      <3>4. ~(i < i2) /\ ~(i2 < i)
        BY <2>1, <3>1, <3>2, <3>3
      <3>. QED  BY <1>2, <2>1, <2>2, <3>4
    <2>. QED  BY <1>4, <2>3, <2>4 DEF Variables
  <1>. QED  BY <1>3, <1>4

(* What is used has been made.                                             *)
LEMMA MadeSomewhere ==
  ASSUME NEW f, NEW c, Final(f, c), NEW v \in Variables, f.block[v] # None
  PROVE  \E i : DefAt(c, v, f.block[v], i)
  <1>1. f.block[v] \in Blocks /\ v # None
    BY ConstantsAssumption DEF Final, FunctionOK, Variables, None
  <1>2. CASE v \in Params
    BY <1>2 DEF DefAt, Final, LaidOut
  <1>3. CASE v \in Ordinary
    <2>1. \E i \in DOMAIN c[f.block[v]] : c[f.block[v]][i].value = v
      BY <1>1, <1>3, FinalBlock DEF ValuesForm
    <2>. QED  BY <1>1, <2>1 DEF DefAt
  <1>4. CASE v \in Phis
    <2>1. v \in PhisIn(f, PhisOf(f), f.block[v])
      BY <1>1, <1>4 DEF PhisIn, PhisOf, Final, FunctionOK
    <2>2. \E i \in DOMAIN c[f.block[v]] : c[f.block[v]][i].value = v
      BY <1>1, <2>1, FinalBlock DEF PhiForm
    <2>. QED  BY <1>1, <2>2 DEF DefAt
  <1>. QED  BY <1>2, <1>3, <1>4 DEF Variables

(* Where v is made relative to a use in block b at j.                      *)
Behind(f, b, j, db, di) ==
  /\ db \in Blocks /\ di \in Nat
  /\ IF db = b THEN di < j ELSE Dominates(f, db, b)

LEMMA UseBehind ==
  ASSUME NEW f, NEW c, Final(f, c), NEW v \in Variables, NEW b, NEW j, UseAt(c, v, b, j)
  PROVE  /\ c[b][j].type # "PHI"
         /\ \E db, di : DefAt(c, v, db, di) /\ Behind(f, b, j, db, di)
  <1>. DEFINE x == c[b][j]
  <1>0. v \in Int /\ v > 0 /\ b \in Blocks /\ j \in DOMAIN c[b] /\ v \in x.operands
    BY ConstantsAssumption DEF Variables, UseAt
  <1>1. x.type # "PHI"
    <2>1. SUFFICES ASSUME x.type = "PHI"  PROVE FALSE
      OBVIOUS
    <2>2. \E p \in Phis : v = Mov(p)
      BY <1>0, <2>1, FinalInstruction DEF PhisOf
    <2>. QED  BY <1>0, <2>2, ConstantsAssumption DEF Mov
  <1>2. MadeBefore(f, v, b)
    <2>1. CASE x.type = "INS"
      <3>1. x.value \in Ordinary /\ f.block[x.value] = b /\ v \in f.operands[x.value] /\ b # None
        BY <1>0, <2>1, FinalInstruction, ConstantsAssumption DEF None
      <3>. QED  BY <3>1 DEF Final, SsaForm
    <2>2. CASE x.type = "PHI_MOV"
      <3>1. PICK p \in PhisOf(f) : b \in Preds(f, f.block[p]) /\ v = f.phi[p].operands[b] /\ v # None
        BY <1>0, <2>2, FinalInstruction
      <3>2. f.phi[p].block = f.block[p]
        BY PhiFacts DEF Final
      <3>. QED  BY <3>1, <3>2 DEF Final, SsaForm
    <2>3. CASE x.type \in EndTypes
      <3>1. v \in f.ends[b]
        BY <1>0, <2>3, FinalInstruction
      <3>. QED  BY <1>0, <3>1 DEF Final, SsaForm
    <2>. QED  BY <1>0, <1>1, <2>1, <2>2, <2>3, FinalInstruction
  <1>3. PICK i : DefAt(c, v, f.block[v], i)
    BY <1>2, MadeSomewhere DEF MadeBefore
  <1>4. f.block[v] \in Blocks /\ i \in Nat
    BY <1>3, DefRange
  <1>5. DOMAIN c[b] = 1 .. Len(c[b]) /\ Len(c[b]) \in Nat
    BY <1>0, FinalBlock
  <1>6. ASSUME f.block[v] = b  PROVE i < j
    <2>1. CASE v \in Params
      <3>1. i = 0
        BY <1>3, <2>1, <1>0, FinalValue DEF DefAt
      <3>. QED  BY <1>0, <1>5, <3>1
    <2>2. CASE v \notin Params
      <3>1. i \in DOMAIN c[b] /\ c[b][i].value = v
        BY <1>3, <1>6, <2>2 DEF DefAt
      <3>2. CASE v \in Ordinary /\ x.type = "INS"
        <4>1. x.value \in Ordinary /\ f.block[x.value] = b /\ v \in f.operands[x.value] /\ b # None
          BY <1>0, <3>2, FinalInstruction, ConstantsAssumption DEF None
        <4>2. Earlier(f, b, v, x.value)
          BY <1>6, <3>2, <4>1 DEF Final, SsaForm
        <4>3. c[b][i].type = "INS"
          BY <1>0, <3>1, <3>2, FinalValue
        <4>4. ~Earlier(f, b, v, v) /\ ~Earlier(f, b, x.value, v)
          <5>1. \A m, n \in DOMAIN f.made[b] : f.made[b][m] = f.made[b][n] => m = n
            BY <1>0 DEF Final, LaidOut
          <5>2. DOMAIN f.made[b] \subseteq Int
            BY <1>0 DEF Final, FunctionOK
          <5>. QED  BY <4>2, <5>1, <5>2 DEF Earlier
        <4>5. j < i => Earlier(f, b, x.value, v)
          BY <1>0, <3>1, <3>2, <4>3, FinalBlock DEF ValuesForm
        <4>6. i # j
          BY <3>1, <4>2, <4>4
        <4>. QED  BY <1>0, <1>5, <3>1, <4>4, <4>5, <4>6
      <3>3. CASE ~(v \in Ordinary /\ x.type = "INS")
        <4>1. v \in Ordinary \cup Phis
          BY <2>2 DEF Variables
        <4>2. /\ v \in Ordinary => c[b][i].type = "INS"
              /\ v \in Phis => c[b][i].type = "PHI"
          BY <1>0, <3>1, FinalValue
        <4>3. x.type \in {"INS", "PHI_MOV"} \cup EndTypes
          BY <1>0, <1>1, FinalInstruction
        <4>4. Rank(c[b][i].type) < Rank(x.type)
          BY <3>3, <4>1, <4>2, <4>3 DEF Rank, EndTypes
        <4>5. i # j /\ ~(j < i)
          BY <1>0, <3>1, <4>4, RankRange, FinalBlock DEF Sorted
        <4>. QED  BY <1>0, <1>5, <3>1, <4>5
      <3>. QED  BY <3>2, <3>3
    <2>. QED  BY <2>1, <2>2
  <1>7. Behind(f, b, j, f.block[v], i)
    BY <1>2, <1>4, <1>6 DEF Behind, MadeBefore
  <1>. QED  BY <1>1, <1>3, <1>7

(* Everything made but a parameter has a user.                             *)
LEMMA EveryUsed ==
  ASSUME NEW f, NEW c, Final(f, c), NEW v \in Ordinary \cup Phis, NEW db, NEW di, DefAt(c, v, db, di)
  PROVE  \E b, j : UseAt(c, v, b, j)
  <1>0. v \in Int /\ v > 0 /\ v # None /\ v \in Variables
    BY ConstantsAssumption DEF None, Variables
  <1>1. f.block[v] \in Blocks /\ f.block[v] # None
    <2>1. db \in Blocks /\ f.block[v] = db
      BY <1>0, DefRange
    <2>. QED  BY <2>1, ConstantsAssumption DEF None
  <1>2. Used(f, v)
    BY <1>1 DEF Final, SsaForm
  <1>3. CASE \E b \in Blocks : v \in f.ends[b]
    <2>1. PICK b \in Blocks : v \in f.ends[b]
      BY <1>3
    <2>2. \E j \in DOMAIN c[b] : c[b][j].operands = f.ends[b]
      BY <2>1, FinalBlock DEF EndForm
    <2>. QED  BY <2>1, <2>2 DEF UseAt
  <1>4. CASE \E w \in Ordinary : f.block[w] # None /\ v \in f.operands[w]
    <2>1. PICK w \in Ordinary : f.block[w] # None /\ v \in f.operands[w]
      BY <1>4
    <2>2. f.block[w] \in Blocks
      BY <2>1 DEF Final, FunctionOK, Variables
    <2>3. PICK j \in DOMAIN c[f.block[w]] : c[f.block[w]][j].type = "INS" /\ c[f.block[w]][j].value = w
      <3>1. ValuesForm(f, c[f.block[w]], f.block[w])
        BY <2>2, FinalBlock
      <3>. QED  BY <2>1, <3>1 DEF ValuesForm
    <2>4. c[f.block[w]][j].operands = f.operands[w]
      BY <2>2, <2>3, FinalInstruction
    <2>. QED  BY <2>1, <2>2, <2>4 DEF UseAt
  <1>5. CASE \E p \in PhisOf(f) : \E a \in Preds(f, f.phi[p].block) : v = f.phi[p].operands[a]
    <2>0. PICK p \in PhisOf(f) : \E x \in Preds(f, f.block[p]) : v = f.phi[p].operands[x]
      BY <1>5, PhiFacts DEF Final
    <2>1. PICK a \in Preds(f, f.block[p]) : v = f.phi[p].operands[a]
      BY <2>0
    <2>2. a \in Blocks /\ p \in MovsIn(f, PhisOf(f), a)
      BY DEF Preds, MovsIn
    <2>3. PICK j \in DOMAIN c[a] : c[a][j].type = "PHI_MOV" /\ c[a][j].value = Mov(p)
      BY <2>2, FinalBlock DEF MovForm
    <2>4. PICK q \in PhisOf(f) : c[a][j].value = Mov(q) /\ c[a][j].operands = {f.phi[q].operands[a]} \ {None}
      BY <2>2, <2>3, FinalInstruction
    <2>5. q = p
      BY <2>3, <2>4, ConstantsAssumption DEF Mov, PhisOf
    <2>. QED  BY <1>0, <2>1, <2>2, <2>4, <2>5 DEF UseAt
  <1>. QED  BY <1>2, <1>3, <1>4, <1>5 DEF Used

(* The phi_mov of p: once in each predecessor of the block of p, used by p *)
(* alone, which stands in front of it if both are in one block.            *)
MovsPlaced(f, c, p, k) ==
  LET B == f.block[p] IN
    /\ B \in Blocks /\ k \in DOMAIN c[B] /\ c[B][k].value = p
    /\ \A b, j : UseAt(c, Mov(p), b, j) <=> b = B /\ j = k
    /\ \A b, i : DefAt(c, Mov(p), b, i) => b \in Preds(f, B) /\ (b = B => k < i)
    /\ \A b \in Preds(f, B) : \E i : DefAt(c, Mov(p), b, i)
    /\ \A b, i, i2 : DefAt(c, Mov(p), b, i) /\ DefAt(c, Mov(p), b, i2) => i = i2

LEMMA FinalMovs ==
  ASSUME NEW f, NEW c, Final(f, c), NEW p \in PhisOf(f)
  PROVE  \E k : MovsPlaced(f, c, p, k)
  <1>. DEFINE B == f.block[p]
  <1>0. p \in Phis /\ p \in Int /\ p > 0 /\ Mov(p) \in Int /\ Mov(p) < 0 /\ Mov(p) # None /\ B \in Blocks
    BY PhiFacts, ConstantsAssumption DEF Final, Mov, None
  <1>1. \A q \in Phis : Mov(q) = Mov(p) => q = p
    BY ConstantsAssumption, <1>0 DEF Mov
  <1>2. Mov(p) \notin Params \cup Ordinary \cup Phis
    BY <1>0, ConstantsAssumption
  <1>3. PICK k \in DOMAIN c[B] : c[B][k].type = "PHI" /\ c[B][k].value = p
    <2>1. p \in PhisIn(f, PhisOf(f), B)
      BY DEF PhisIn
    <2>. QED  BY <1>0, <2>1, FinalBlock DEF PhiForm
  <1>4. c[B][k].operands = {Mov(p)}
    BY <1>0, <1>3, FinalInstruction
  <1>5. ASSUME NEW b, NEW j, UseAt(c, Mov(p), b, j)  PROVE b = B /\ j = k
    <2>1. b \in Blocks /\ j \in DOMAIN c[b] /\ Mov(p) \in c[b][j].operands
      BY <1>5 DEF UseAt
    <2>2. c[b][j].type # "INS" /\ c[b][j].type \notin EndTypes
      <3>1. \A w \in Ordinary : Mov(p) \notin f.operands[w]
        BY <1>2 DEF Final, FunctionOK, Variables
      <3>2. Mov(p) \notin f.ends[b]
        BY <1>2, <2>1 DEF Final, FunctionOK, Variables
      <3>. QED  BY <2>1, <3>1, <3>2, FinalInstruction
    <2>3. c[b][j].type # "PHI_MOV"
      <3>1. SUFFICES ASSUME c[b][j].type = "PHI_MOV"  PROVE FALSE
        OBVIOUS
      <3>2. PICK q \in PhisOf(f) : b \in Preds(f, f.block[q]) /\ c[b][j].operands = {f.phi[q].operands[b]} \ {None}
        BY <2>1, <3>1, FinalInstruction
      <3>3. f.phi[q].operands[b] \in Variables \cup {None}
        BY <3>2, PhiFacts DEF Final
      <3>. QED  BY <1>0, <1>2, <2>1, <3>2, <3>3 DEF Variables
    <2>4. c[b][j].type = "PHI"
      BY <2>1, <2>2, <2>3, FinalInstruction
    <2>5. c[b][j].value \in PhisOf(f) /\ f.block[c[b][j].value] = b /\ c[b][j].operands = {Mov(c[b][j].value)}
      BY <2>1, <2>4, FinalInstruction
    <2>6. c[b][j].value = p
      BY <1>1, <2>1, <2>5 DEF PhisOf
    <2>7. b = B
      BY <2>5, <2>6
    <2>. QED  BY <1>0, <1>3, <2>1, <2>4, <2>6, <2>7, FinalBlock DEF PhiForm
  <1>6. UseAt(c, Mov(p), B, k)
    BY <1>0, <1>3, <1>4 DEF UseAt
  <1>7. ASSUME NEW b, NEW i, DefAt(c, Mov(p), b, i)
        PROVE  b \in Blocks /\ i \in DOMAIN c[b] /\ c[b][i].value = Mov(p) /\ c[b][i].type = "PHI_MOV" /\ b \in Preds(f, B)
    <2>1. b \in Blocks /\ i \in DOMAIN c[b] /\ c[b][i].value = Mov(p)
      BY <1>2, <1>7 DEF DefAt
    <2>2. c[b][i].type = "PHI_MOV"
      BY <1>0, <2>1, FinalValue
    <2>3. PICK q \in PhisOf(f) : b \in Preds(f, f.block[q]) /\ c[b][i].value = Mov(q)
      BY <2>1, <2>2, FinalInstruction
    <2>4. q = p
      BY <1>1, <2>1, <2>3 DEF PhisOf
    <2>. QED  BY <2>1, <2>2, <2>3, <2>4
  <1>8. ASSUME NEW i, DefAt(c, Mov(p), B, i)  PROVE k < i
    <2>1. i \in DOMAIN c[B] /\ c[B][i].type = "PHI_MOV"
      BY <1>7, <1>8
    <2>2. Rank("PHI") = 1 /\ Rank("PHI_MOV") = 4
      BY DEF Rank
    <2>3. DOMAIN c[B] = 1 .. Len(c[B]) /\ Sorted(c[B])
      BY <1>0, FinalBlock
    <2>4. i # k /\ ~(i < k)
      BY <1>3, <2>1, <2>2, <2>3 DEF Sorted
    <2>. QED  BY <1>3, <2>1, <2>3, <2>4
  <1>9. ASSUME NEW b \in Preds(f, B)  PROVE \E i : DefAt(c, Mov(p), b, i)
    <2>1. b \in Blocks /\ p \in MovsIn(f, PhisOf(f), b)
      BY DEF Preds, MovsIn
    <2>2. \E i \in DOMAIN c[b] : c[b][i].value = Mov(p)
      BY <2>1, FinalBlock DEF MovForm
    <2>. QED  BY <1>0, <2>1, <2>2 DEF DefAt
  <1>10. ASSUME NEW b, NEW i, NEW i2, DefAt(c, Mov(p), b, i), DefAt(c, Mov(p), b, i2)  PROVE i = i2
    <2>1. b \in Blocks
      BY <1>7, <1>10
    <2>2. MovForm(f, c[b], b, MovsIn(f, PhisOf(f), b))
      BY <2>1, FinalBlock
    <2>. QED  BY <1>7, <1>10, <2>2 DEF MovForm
  <1>11. MovsPlaced(f, c, p, k)
    BY <1>0, <1>3, <1>5, <1>6, <1>7, <1>8, <1>9, <1>10 DEF MovsPlaced
  <1>. QED  BY <1>11
=============================================================================
