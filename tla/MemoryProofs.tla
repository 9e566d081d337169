--------------------------- MODULE MemoryProofs ---------------------------
(***************************************************************************)
(* Proofs about Memory, for every table size, limit and vocabulary.        *)
(***************************************************************************)
EXTENDS Memory, TLAPS, WellFoundedInduction, FiniteSetTheorems

\* The inductive invariant.  TableSound alone is not inductive: that a block
\* can be split, or an entry dropped by a sweep, without tearing the table
\* needs the bins to hold exactly the free entries, and that a sweep keeps
\* what it must needs every allocated cell to lead to allocated things.
IInv == TypeOK /\ TableSound /\ AtomsIndexed /\ NoDangling

-----------------------------------------------------------------------------
(* Least and greatest elements.                                            *)

\* A non-empty set of naturals has a least element, and Min names it.
LEMMA NatMin ==
  ASSUME NEW S \in SUBSET Nat, S # {}
  PROVE  /\ Min(S) \in S
         /\ \A x \in S : Min(S) <= x
<1>1. OpToRel(<, Nat) = {p \in Nat \X Nat : p[1] < p[2]}
  BY DEF OpToRel
<1>2. \E m \in S : \A y \in S : ~ (<<y, m>> \in OpToRel(<, Nat))
  <2> DEFINE R == OpToRel(<, Nat)
  <2>1. IsWellFoundedOn(R, Nat)
    BY NatLessThanWellFounded
  <2> HIDE DEF R
  <2>2. \E m \in S : \A y \in S : ~ (<<y, m>> \in R)
    BY <2>1, WFMin, Zenon
  <2>3. QED BY <2>2 DEF R
<1>3. \E m \in S : \A y \in S : ~ (<<y, m>> \in {p \in Nat \X Nat : p[1] < p[2]})
  BY <1>1, <1>2, Zenon
<1>4. \E m \in S : \A x \in S : m <= x
  <2>1. PICK m \in S : \A y \in S : ~ (<<y, m>> \in {p \in Nat \X Nat : p[1] < p[2]})
    BY <1>3
  <2>2. ASSUME NEW x \in S PROVE m <= x
    <3>1. x \in Nat /\ m \in Nat
      OBVIOUS
    <3>2. <<x, m>> \in Nat \X Nat /\ <<x, m>>[1] = x /\ <<x, m>>[2] = m
      BY <3>1
    <3>3. ~ (x < m)
      BY <2>1, <3>2
    <3>4. QED BY <3>1, <3>3
  <2>3. QED BY <2>2
<1>5. QED BY <1>4 DEF Min

\* A non-empty set of naturals with a bound has a greatest one, which Max names.
LEMMA NatMax ==
  ASSUME NEW N \in Nat, NEW S \in SUBSET (0..N), S # {}
  PROVE  /\ Max(S) \in S
         /\ \A x \in S : Max(S) >= x
<1> DEFINE T == {k \in 0..N : N - k \in S}
<1>1. T \in SUBSET Nat /\ T # {}
  <2>1. PICK x \in S : TRUE
    OBVIOUS
  <2>2. N - x \in T
    OBVIOUS
  <2>3. T \subseteq Nat
    OBVIOUS
  <2>4. QED BY <2>2, <2>3
<1>2. Min(T) \in T /\ \A x \in T : Min(T) <= x
  BY <1>1, NatMin
<1>4. \A x \in S : N - x \in T
  OBVIOUS
<1>5. N - Min(T) \in S /\ \A x \in S : N - Min(T) >= x
  BY <1>2, <1>4
<1>6. QED BY <1>5 DEF Max

-----------------------------------------------------------------------------
(* References.                                                             *)

LEMMA RefTypes ==
  /\ Nil \in Ref /\ EmptyList \in Ref
  /\ \A o \in Nat : Word(o) \in Ref /\ List(o) \in Ref /\ BlobRef(o) \in Ref
  /\ \A r \in Ref : NodeToIndex(r) \in Ref /\ NodeToIndex(r).kind # "blob"
  BY DEF Nil, EmptyList, Word, List, BlobRef, Ref, NodeToIndex

LEMMA ValidLiteral == Valid(Nil) /\ Valid(EmptyList) /\ \A b : Valid(BlobRef(b))
  BY DEF Valid, Nil, EmptyList, BlobRef

\* What an operand of a primitive is worth, once encoded for a cell.
LEMMA OperandValid ==
  ASSUME IInv, NEW r \in Operand
  PROVE  /\ r \in Ref
         /\ Valid(NodeToIndex(r))
         /\ NodeToIndex(r) \in Ref
         /\ NodeToIndex(r).kind # "blob"
<1>1. r \in Ref
  BY RefTypes, LiteralAssumption DEF Operand, IInv, TypeOK
<1>2. Valid(r)
  BY ValidLiteral, LiteralAssumption DEF Operand, IInv, NoDangling, HeldValid
<1>3. Valid(NodeToIndex(r))
  BY <1>2, ValidLiteral DEF NodeToIndex
<1>4. QED BY <1>1, <1>3, RefTypes

LEMMA SizeTypes ==
  /\ \A n \in Name : NameSize[n] \in Nat /\ NameSize[n] >= 2
  /\ PermanentSize \in Nat
  /\ Permanent \subseteq Ref
<1>1. \A n \in Name : NameSize[n] \in Nat /\ NameSize[n] >= 2
  BY MemoryAssumption
<1>2. {Newline, TrueName, FalseName} \subseteq Name
  BY MemoryAssumption
<1>3. QED BY <1>1, <1>2, RefTypes DEF PermanentSize, Permanent

-----------------------------------------------------------------------------
(* The actions that leave the atom table alone.                            *)

\* They keep everything that is said of the table alone.
LEMMA AtomsUntouched ==
  ASSUME IInv, UNCHANGED atomVars,
         nodeCount' \in 0 .. MaxListIndex, ArenasApart',
         cells' \in [1 .. nodeCount' -> [car : Ref, cdr : Ref]],
         freeCells' \subseteq 1 .. nodeCount', held' \subseteq Ref
  PROVE  TypeOK' /\ TableSound' /\ AtomsIndexed'
  BY DEF IInv, TypeOK, TableSound, TableTiled, AtomsIndexed, Indexed, InternedOnce,
         atomVars, LiveAtoms, FreeAtoms

\* The cell alloc_cell hands out is nobody's.
LEMMA AllocFresh ==
  ASSUME IInv, NEW i, AllocCell(i), UNCHANGED atomVars
  PROVE  /\ nodeCount' \in 0 .. MaxListIndex
         /\ i \in 1 .. nodeCount'
         /\ freeCells' \subseteq 1 .. nodeCount'
         /\ ArenasApart'
         /\ i \notin (1 .. nodeCount) \ freeCells
         /\ (1 .. nodeCount') \ freeCells' = ((1 .. nodeCount) \ freeCells) \cup {i}
<1>1. /\ nodeCount \in Nat /\ nodeCount <= MaxListIndex /\ MaxListIndex \in Nat
      /\ MemSize \in Nat /\ atomNext \in Nat /\ freeCells \subseteq 1 .. nodeCount
      /\ atomNext <= MemSize - nodeCount
  BY MemoryAssumption DEF IInv, TypeOK, TableSound, ArenasApart, nodeBottom
<1>2. CASE i \in freeCells /\ freeCells' = freeCells \ {i} /\ nodeCount' = nodeCount
  BY <1>1, <1>2 DEF ArenasApart, nodeBottom, atomVars
<1>3. CASE /\ freeCells = {} /\ i = nodeCount + 1 /\ nodeBottom - 1 >= atomNext
           /\ i <= MaxListIndex /\ nodeCount' = i /\ freeCells' = freeCells
  <2>1. nodeCount' = nodeCount + 1 /\ freeCells' = {} /\ atomNext' = atomNext
    BY <1>3 DEF atomVars
  <2>2. MemSize - (nodeCount + 1) >= atomNext
    BY <1>1, <1>3 DEF nodeBottom
  <2>3. 1 .. nodeCount' = (1 .. nodeCount) \cup {i}
    BY <1>1, <1>3
  <2>4. QED BY <1>1, <1>3, <2>1, <2>2, <2>3 DEF ArenasApart, nodeBottom
<1>4. QED BY <1>2, <1>3 DEF AllocCell

\* A reference stays valid while no atom dies and no cell is freed.
LEMMA ValidStays ==
  ASSUME NEW r, Valid(r), LiveAtoms \subseteq LiveAtoms',
         (1 .. nodeCount) \ freeCells \subseteq (1 .. nodeCount') \ freeCells'
  PROVE  Valid(r)'
  BY DEF Valid

LEMMA ConsInv ==
  ASSUME IInv, NEW car \in Operand, NEW cdr \in Operand, Cons(car, cdr)
  PROVE  IInv'
<1>1. PICK i \in 1 .. nodeCount + 1 :
        /\ AllocCell(i)
        /\ cells' = [j \in 1 .. nodeCount' |->
                       IF j = i THEN [car |-> car, cdr |-> cdr] ELSE cells[j]]
        /\ held' = held \cup {List(i)}
  BY DEF Cons
<1>2. UNCHANGED atomVars /\ NodeToIndex(car) = car /\ NodeToIndex(cdr) = cdr
  BY DEF Cons
<1> DEFINE Used == (1 .. nodeCount) \ freeCells
<1>3. /\ nodeCount' \in 0 .. MaxListIndex /\ i \in 1 .. nodeCount'
      /\ freeCells' \subseteq 1 .. nodeCount' /\ ArenasApart'
      /\ (1 .. nodeCount') \ freeCells' = Used \cup {i}
  BY <1>1, <1>2, AllocFresh
<1>4. /\ car \in Ref /\ Valid(car) /\ car.kind # "blob"
      /\ cdr \in Ref /\ Valid(cdr) /\ cdr.kind # "blob"
  BY <1>2, OperandValid
<1>5. nodeCount' = nodeCount \/ (nodeCount' = nodeCount + 1 /\ i = nodeCount + 1)
  BY <1>1 DEF AllocCell
<1>6. cells' \in [1 .. nodeCount' -> [car : Ref, cdr : Ref]]
  <2>1. nodeCount \in Nat /\ cells \in [1 .. nodeCount -> [car : Ref, cdr : Ref]]
    BY DEF IInv, TypeOK
  <2>2. \A j \in 1 .. nodeCount' : j # i => j \in 1 .. nodeCount
    BY <1>5, <2>1
  <2>3. QED BY <1>1, <1>4, <2>1, <2>2
<1>7. held' \subseteq Ref
  <2>1. i \in Nat
    BY <1>3
  <2>2. QED BY <1>1, <2>1, RefTypes DEF IInv, TypeOK
<1>8. TypeOK' /\ TableSound' /\ AtomsIndexed'
  BY <1>2, <1>3, <1>6, <1>7, AtomsUntouched
<1>9. \A r : Valid(r) => Valid(r)'
  BY <1>2, <1>3, ValidStays DEF atomVars, LiveAtoms
<1>10. HeldValid'
  <2>1. Valid(List(i))'
    BY <1>3 DEF Valid, List
  <2>2. QED BY <1>1, <1>9, <2>1 DEF IInv, NoDangling, HeldValid, Permanent
<1>11. CellsValid'
  <2> SUFFICES ASSUME NEW j \in Used \cup {i}
               PROVE  \A r \in {cells'[j].car, cells'[j].cdr} : Valid(r)' /\ r.kind # "blob"
    BY <1>3 DEF CellsValid
  <2>1. j \in 1 .. nodeCount'
    BY <1>3
  <2>2. CASE j = i
    BY <1>1, <1>4, <1>9, <2>1, <2>2
  <2>3. CASE j # i
    <3>1. j \in Used /\ cells'[j] = cells[j]
      BY <1>1, <2>1, <2>3
    <3>2. QED BY <1>9, <3>1 DEF IInv, NoDangling, CellsValid
  <2>4. QED BY <2>2, <2>3
<1>12. QED BY <1>8, <1>10, <1>11 DEF IInv, NoDangling

LEMMA ListAppendInv ==
  ASSUME IInv, NEW tail \in HeldCells, NEW item \in Operand, ListAppend(tail, item)
  PROVE  IInv'
<1>1. PICK i \in 1 .. nodeCount + 1 :
        /\ AllocCell(i)
        /\ cells' = [j \in 1 .. nodeCount' |->
                       IF j = i THEN [car |-> item, cdr |-> Nil]
                       ELSE IF j = tail THEN [cells[j] EXCEPT !.cdr = List(i)]
                       ELSE cells[j]]
        /\ held' = held \cup {List(i)}
  BY DEF ListAppend
<1>2. UNCHANGED atomVars /\ NodeToIndex(item) = item
  BY DEF ListAppend
<1> DEFINE Used == (1 .. nodeCount) \ freeCells
<1>3. /\ nodeCount' \in 0 .. MaxListIndex /\ i \in 1 .. nodeCount'
      /\ freeCells' \subseteq 1 .. nodeCount' /\ ArenasApart'
      /\ (1 .. nodeCount') \ freeCells' = Used \cup {i}
  BY <1>1, <1>2, AllocFresh
<1>4. item \in Ref /\ Valid(item) /\ item.kind # "blob"
  BY <1>2, OperandValid
<1>5. nodeCount' = nodeCount \/ (nodeCount' = nodeCount + 1 /\ i = nodeCount + 1)
  BY <1>1 DEF AllocCell
<1>6. List(i) \in Ref /\ Nil \in Ref /\ Nil.kind # "blob" /\ Valid(Nil)'
      /\ List(i).kind # "blob" /\ Valid(List(i))'
  <2>1. i \in Nat
    BY <1>3
  <2>2. Valid(List(i))' /\ Valid(Nil)'
    BY <1>3 DEF Valid, List, Nil
  <2>3. QED BY <2>1, <2>2, RefTypes DEF List, Nil
<1>7. cells' \in [1 .. nodeCount' -> [car : Ref, cdr : Ref]]
  <2>1. nodeCount \in Nat /\ cells \in [1 .. nodeCount -> [car : Ref, cdr : Ref]]
    BY DEF IInv, TypeOK
  <2>2. \A j \in 1 .. nodeCount' : j # i => j \in 1 .. nodeCount
    BY <1>5, <2>1
  <2>3. QED BY <1>1, <1>4, <1>6, <2>1, <2>2
<1>8. held' \subseteq Ref
  BY <1>1, <1>6 DEF IInv, TypeOK
<1>9. TypeOK' /\ TableSound' /\ AtomsIndexed'
  BY <1>2, <1>3, <1>7, <1>8, AtomsUntouched
<1>10. \A r : Valid(r) => Valid(r)'
  BY <1>2, <1>3, ValidStays DEF atomVars, LiveAtoms
<1>11. HeldValid'
  BY <1>1, <1>6, <1>10 DEF IInv, NoDangling, HeldValid, Permanent
<1>12. CellsValid'
  <2> SUFFICES ASSUME NEW j \in Used \cup {i}
               PROVE  \A r \in {cells'[j].car, cells'[j].cdr} : Valid(r)' /\ r.kind # "blob"
    BY <1>3 DEF CellsValid
  <2>1. j \in 1 .. nodeCount'
    BY <1>3
  <2>2. CASE j = i
    BY <1>1, <1>4, <1>6, <1>10, <2>1, <2>2
  <2>3. CASE j # i
    <3>1. j \in Used
      BY <2>3
    <3>2. cells[j] \in [car : Ref, cdr : Ref]
      BY <3>1 DEF IInv, TypeOK
    <3>3. \A r \in {cells[j].car, cells[j].cdr} : Valid(r)' /\ r.kind # "blob"
      BY <1>10, <3>1 DEF IInv, NoDangling, CellsValid
    <3>4. cells'[j].car = cells[j].car /\ cells'[j].cdr \in {cells[j].cdr, List(i)}
      BY <1>1, <2>1, <2>3, <3>2
    <3>5. QED BY <1>6, <3>3, <3>4
  <2>4. QED BY <2>2, <2>3
<1>13. QED BY <1>9, <1>11, <1>12 DEF IInv, NoDangling

\* mem_set_car, mem_set_cdr: the cell keeps an encodable, valid reference.
LEMMA SetInv ==
  ASSUME IInv, NEW i \in HeldCells, NEW value \in Operand,
         SetCar(i, value) \/ SetCdr(i, value)
  PROVE  IInv'
<1>1. /\ Valid(NodeToIndex(value)) /\ NodeToIndex(value) \in Ref
      /\ NodeToIndex(value).kind # "blob"
  BY OperandValid
<1>2. /\ UNCHANGED <<atomVars, nodeCount, freeCells, held>>
      /\ \/ cells' = [cells EXCEPT ![i].car = NodeToIndex(value)]
         \/ cells' = [cells EXCEPT ![i].cdr = NodeToIndex(value)]
  BY DEF SetCar, SetCdr
<1>3. /\ cells \in [1 .. nodeCount -> [car : Ref, cdr : Ref]]
      /\ i \in 1 .. nodeCount
  BY DEF IInv, TypeOK, HeldCells
<1>4. cells' \in [1 .. nodeCount' -> [car : Ref, cdr : Ref]]
  BY <1>1, <1>2, <1>3
<1>5. TypeOK' /\ TableSound' /\ AtomsIndexed'
  BY <1>2, <1>4, AtomsUntouched
     DEF IInv, TypeOK, TableSound, ArenasApart, nodeBottom, atomVars
<1>6. \A r : Valid(r) => Valid(r)'
  BY <1>2, ValidStays DEF atomVars, LiveAtoms
<1>7. HeldValid'
  BY <1>2, <1>6 DEF IInv, NoDangling, HeldValid, Permanent
<1>8. CellsValid'
  <2> SUFFICES ASSUME NEW j \in (1 .. nodeCount) \ freeCells
               PROVE  \A r \in {cells'[j].car, cells'[j].cdr} : Valid(r)' /\ r.kind # "blob"
    BY <1>2 DEF CellsValid
  <2>1. \A r \in {cells[j].car, cells[j].cdr} : Valid(r)' /\ r.kind # "blob"
    BY <1>6 DEF IInv, NoDangling, CellsValid
  <2>2. /\ cells'[j].car \in {cells[j].car, NodeToIndex(value)}
        /\ cells'[j].cdr \in {cells[j].cdr, NodeToIndex(value)}
    <3>1. cells[j] \in [car : Ref, cdr : Ref] /\ cells[i] \in [car : Ref, cdr : Ref]
      BY <1>3
    <3>2. cells'[j] \in {cells[j], [cells[j] EXCEPT !.car = NodeToIndex(value)],
                         [cells[j] EXCEPT !.cdr = NodeToIndex(value)]}
      BY <1>2, <1>3
    <3>3. QED BY <3>1, <3>2
  <2>3. QED BY <1>1, <1>6, <2>1, <2>2
<1>9. QED BY <1>5, <1>7, <1>8 DEF IInv, NoDangling

\* Only `held` changes, to references that are typed and valid.
LEMMA HeldInv ==
  ASSUME IInv, UNCHANGED <<atomVars, cellVars>>,
         \A r \in held' : r \in Ref /\ Valid(r)
  PROVE  IInv'
<1>1. TypeOK' /\ TableSound' /\ AtomsIndexed'
  BY AtomsUntouched
     DEF IInv, TypeOK, TableSound, ArenasApart, nodeBottom, atomVars, cellVars
<1>2. \A r : Valid(r) => Valid(r)'
  BY ValidStays DEF atomVars, cellVars, LiveAtoms
<1>3. HeldValid'
  BY <1>2 DEF IInv, NoDangling, HeldValid, Permanent
<1>4. CellsValid'
  BY <1>2 DEF IInv, NoDangling, CellsValid, cellVars
<1>5. QED BY <1>1, <1>3, <1>4 DEF IInv, NoDangling

LEMMA FetchInv ==
  ASSUME IInv, NEW i \in HeldCells, Fetch(i)
  PROVE  IInv'
<1>1. i \in (1 .. nodeCount) \ freeCells
  <2>1. List(i) \in held /\ i \in 1 .. nodeCount
    BY DEF HeldCells
  <2>2. Valid(List(i))
    BY <2>1 DEF IInv, NoDangling, HeldValid
  <2>3. QED BY <2>1, <2>2 DEF Valid, List
<1>2. \A r \in {cells[i].car, cells[i].cdr} : r \in Ref /\ Valid(r)
  BY <1>1 DEF IInv, NoDangling, CellsValid, TypeOK
<1>3. QED BY <1>2, HeldInv DEF Fetch, IInv, TypeOK, NoDangling, HeldValid

LEMMA DropInv ==
  ASSUME IInv, NEW r, Drop(r)
  PROVE  IInv'
  BY HeldInv DEF Drop, IInv, TypeOK, NoDangling, HeldValid

LEMMA HoldBlobInv ==
  ASSUME IInv, NEW b \in Blob, HoldBlob(b)
  PROVE  IInv'
<1>1. BlobRef(b) \in Ref /\ Valid(BlobRef(b))
  BY RefTypes, ValidLiteral, MemoryAssumption
<1>2. QED BY <1>1, HeldInv DEF HoldBlob, IInv, TypeOK, NoDangling, HeldValid

-----------------------------------------------------------------------------
(* The actions that leave the cells alone.                                 *)

\* What is said of the cells and of what is held, when the table gains an
\* entry and loses none.
LEMMA CellsUntouched ==
  ASSUME IInv, UNCHANGED cellVars, LiveAtoms \subseteq LiveAtoms',
         NEW o \in LiveAtoms', held' = held \cup {Word(o)}
  PROVE  NoDangling'
<1>1. \A r : Valid(r) => Valid(r)'
  BY ValidStays DEF cellVars
<1>2. Valid(Word(o))'
  BY DEF Valid, Word
<1>3. HeldValid'
  BY <1>1, <1>2 DEF IInv, NoDangling, HeldValid, Permanent
<1>4. CellsValid'
  BY <1>1 DEF IInv, NoDangling, CellsValid, cellVars
<1>5. QED BY <1>3, <1>4 DEF NoDangling

LEMMA BinType ==
  ASSUME NEW size \in Nat, size >= 1
  PROVE  BinOf(size) \in Bin
  BY MemoryAssumption DEF BinOf, Bin

\* What find_atom's miss means: the word is not interned.
LEMMA NotFound ==
  ASSUME IInv, NEW n \in Name, Found(n) = {}
  PROVE  \A p \in LiveAtoms : atomName[p] # n
<1>1. SUFFICES ASSUME NEW p \in LiveAtoms, atomName[p] = n
               PROVE  FALSE
  OBVIOUS
<1>2. HashOf[n] \in Bucket
  BY MemoryAssumption
<1>3. p \in buckets[HashOf[n]]
  BY <1>1, <1>2 DEF IInv, AtomsIndexed, Indexed
<1>4. QED BY <1>1, <1>3 DEF Found

LEMMA InternFoundInv ==
  ASSUME IInv, NEW n \in Name, InternFound(n)
  PROVE  IInv'
<1>1. PICK o \in Found(n) : held' = held \cup {Word(o)}
  BY DEF InternFound
<1>2. o \in LiveAtoms /\ o \in Nat
  <2>1. o \in LiveAtoms
    BY DEF Found
  <2>2. QED BY <2>1, MemoryAssumption DEF IInv, TypeOK
<1>3. Word(o) \in Ref /\ Valid(Word(o))
  BY <1>2, RefTypes DEF Valid, Word
<1>4. QED BY <1>1, <1>3, HeldInv DEF InternFound, IInv, TypeOK, NoDangling, HeldValid

LEMMA InternExtendInv ==
  ASSUME IInv, NEW n \in Name, InternExtend(n)
  PROVE  IInv'
<1> DEFINE E == DOMAIN entrySize
           need == NameSize[n]
<1>1. /\ entrySize' = [p \in E \cup {atomNext} |->
                         IF p = atomNext THEN need ELSE entrySize[p]]
      /\ atomName' = [p \in LiveAtoms \cup {atomNext} |->
                         IF p = atomNext THEN n ELSE atomName[p]]
      /\ buckets' = [buckets EXCEPT ![HashOf[n]] = @ \cup {atomNext}]
      /\ atomNext' = atomNext + need
      /\ held' = held \cup {Word(atomNext)}
      /\ UNCHANGED cellVars /\ bins' = bins
      /\ atomNext + need <= AtomCeiling
      /\ Found(n) = {}
  BY DEF InternExtend, Enter
<1>2. /\ need \in Nat /\ need >= 2
      /\ atomNext \in Nat /\ AtomLimit \in Nat /\ nodeCount \in Nat /\ MemSize \in Nat
      /\ E \subseteq 0 .. AtomLimit
      /\ entrySize \in [E -> 1 .. AtomLimit]
      /\ LiveAtoms \subseteq E
  BY SizeTypes, MemoryAssumption DEF IInv, TypeOK
<1>3. atomNext + need <= AtomLimit /\ atomNext + need <= nodeBottom
  BY <1>1, <1>2 DEF AtomCeiling, nodeBottom
<1>4. \A o \in E : o + entrySize[o] <= atomNext /\ o < atomNext
  BY <1>2 DEF IInv, TableSound, TableTiled
<1>5. atomNext \notin E
  BY <1>2, <1>4
<1>6. DOMAIN entrySize' = E \cup {atomNext} /\ LiveAtoms' = LiveAtoms \cup {atomNext}
  BY <1>1 DEF LiveAtoms
<1>7. \A o \in E : entrySize'[o] = entrySize[o]
  BY <1>1, <1>5
<1>8. entrySize'[atomNext] = need
  BY <1>1
<1>9. TypeOK'
  <2>1. entrySize' \in [E \cup {atomNext} -> 1 .. AtomLimit]
    BY <1>1, <1>2, <1>3
  <2>2. atomName' \in [LiveAtoms \cup {atomNext} -> Name]
    BY <1>1 DEF IInv, TypeOK
  <2>3. buckets' \in [Bucket -> SUBSET (0 .. AtomLimit)]
    BY <1>1, <1>2, <1>3, MemoryAssumption DEF IInv, TypeOK
  <2>4. held' \subseteq Ref
    BY <1>1, <1>2, RefTypes DEF IInv, TypeOK
  <2>5. atomNext' \in 0 .. AtomLimit /\ E \cup {atomNext} \subseteq 0 .. AtomLimit
    BY <1>1, <1>2, <1>3
  <2>6. LiveAtoms' \subseteq DOMAIN entrySize'
    BY <1>2, <1>6
  <2>7. QED BY <1>1, <1>6, <2>1, <2>2, <2>3, <2>4, <2>5, <2>6
            DEF IInv, TypeOK, cellVars
<1>10. TableTiled'
  <2>1. \A o \in E \cup {atomNext} :
          /\ o + entrySize'[o] <= atomNext'
          /\ o + entrySize'[o] < atomNext' => o + entrySize'[o] \in E \cup {atomNext}
    <3> TAKE o \in E \cup {atomNext}
    <3>1. CASE o = atomNext
      BY <1>1, <1>2, <1>8, <3>1
    <3>2. CASE o \in E
      <4>1. o + entrySize[o] \in E \/ o + entrySize[o] = atomNext
        BY <1>2, <1>4, <3>2 DEF IInv, TableSound, TableTiled
      <4>2. QED BY <1>1, <1>2, <1>4, <1>7, <3>2, <4>1
    <3>3. QED BY <3>1, <3>2
  <2>2. \A o, p \in E \cup {atomNext} : o < p => o + entrySize'[o] <= p
    BY <1>2, <1>4, <1>7 DEF IInv, TableSound, TableTiled
  <2>3. 0 \in E \cup {atomNext}
    BY DEF IInv, TableSound, TableTiled
  <2>4. \A o \in LiveAtoms \cup {atomNext} : entrySize'[o] = NameSize[atomName'[o]]
    BY <1>1, <1>2, <1>5, <1>7, <1>8 DEF IInv, TableSound, TableTiled
  <2>5. QED BY <1>6, <2>1, <2>2, <2>3, <2>4 DEF TableTiled
<1>11. ArenasApart'
  BY <1>1, <1>3 DEF ArenasApart, nodeBottom, cellVars
<1>12. Indexed'
  <2>1. FreeAtoms' = FreeAtoms
    BY <1>2, <1>5, <1>6 DEF FreeAtoms
  <2>2. \A b \in Bin : bins'[b] = {o \in FreeAtoms' : BinOf(entrySize'[o]) = b}
    BY <1>1, <1>7, <2>1 DEF IInv, AtomsIndexed, Indexed, FreeAtoms
  <2>3. ASSUME NEW h \in Bucket
        PROVE  buckets'[h] = {o \in LiveAtoms' : HashOf[atomName'[o]] = h}
    <3>1. buckets[h] = {o \in LiveAtoms : HashOf[atomName[o]] = h}
      BY DEF IInv, AtomsIndexed, Indexed
    <3>2. buckets \in [Bucket -> SUBSET (0 .. AtomLimit)]
      BY DEF IInv, TypeOK
    <3>3. \A o \in LiveAtoms : atomName'[o] = atomName[o]
      BY <1>1, <1>2, <1>5
    <3>4. atomName'[atomNext] = n
      BY <1>1
    <3>5. QED BY <1>1, <1>6, <3>1, <3>2, <3>3, <3>4
  <2>4. QED BY <2>2, <2>3 DEF Indexed
<1>13. InternedOnce'
  <2>1. \A p \in LiveAtoms : atomName[p] # n
    BY <1>1, NotFound
  <2>2. QED BY <1>1, <1>2, <1>5, <1>6, <2>1 DEF IInv, AtomsIndexed, InternedOnce
<1>14. NoDangling'
  BY <1>1, <1>6, CellsUntouched
<1>15. QED BY <1>9, <1>10, <1>11, <1>12, <1>13, <1>14 DEF IInv, TableSound, AtomsIndexed

LEMMA InternReuseInv ==
  ASSUME IInv, NEW n \in Name, InternReuse(n)
  PROVE  IInv'
<1> DEFINE E == DOMAIN entrySize
           need == NameSize[n]
<1>1. PICK bin \in Bin : \E o \in bins[bin] :
        LET size == entrySize[o]
            rest == o + need
            left == [bins EXCEPT ![bin] = @ \ {o}]
        IN /\ Takes(o, bin, need)
           /\ entrySize' = [p \in E \cup (IF size > need THEN {rest} ELSE {}) |->
                              IF p = o THEN need
                              ELSE IF p = rest /\ size > need THEN size - need
                              ELSE entrySize[p]]
           /\ bins' = IF size > need
                        THEN [left EXCEPT ![BinOf(size - need)] = @ \cup {rest}]
                        ELSE left
           /\ Enter(n, o)
  BY DEF InternReuse
<1>2. PICK o \in bins[bin] :
        LET size == entrySize[o]
            rest == o + need
            left == [bins EXCEPT ![bin] = @ \ {o}]
        IN /\ Takes(o, bin, need)
           /\ entrySize' = [p \in E \cup (IF size > need THEN {rest} ELSE {}) |->
                              IF p = o THEN need
                              ELSE IF p = rest /\ size > need THEN size - need
                              ELSE entrySize[p]]
           /\ bins' = IF size > need
                        THEN [left EXCEPT ![BinOf(size - need)] = @ \cup {rest}]
                        ELSE left
           /\ Enter(n, o)
  BY <1>1
<1> DEFINE size == entrySize[o]
           rest == o + need
           left == [bins EXCEPT ![bin] = @ \ {o}]
           more == IF size > need THEN {rest} ELSE {}
<1>3. /\ entrySize' = [p \in E \cup more |->
                         IF p = o THEN need
                         ELSE IF p = rest /\ size > need THEN size - need
                         ELSE entrySize[p]]
      /\ bins' = IF size > need THEN [left EXCEPT ![BinOf(size - need)] = @ \cup {rest}]
                                ELSE left
      /\ atomName' = [p \in LiveAtoms \cup {o} |-> IF p = o THEN n ELSE atomName[p]]
      /\ buckets' = [buckets EXCEPT ![HashOf[n]] = @ \cup {o}]
      /\ held' = held \cup {Word(o)}
      /\ UNCHANGED cellVars /\ atomNext' = atomNext
      /\ Found(n) = {} /\ size >= need
  BY <1>2 DEF InternReuse, Enter, Takes, Fits
<1>4. /\ need \in Nat /\ need >= 2
      /\ atomNext \in Nat /\ AtomLimit \in Nat /\ atomNext <= AtomLimit
      /\ E \subseteq 0 .. AtomLimit
      /\ entrySize \in [E -> 1 .. AtomLimit]
      /\ LiveAtoms \subseteq E
      /\ bins \in [Bin -> SUBSET (0 .. AtomLimit)]
      /\ buckets \in [Bucket -> SUBSET (0 .. AtomLimit)]
      /\ atomName \in [LiveAtoms -> Name]
  BY SizeTypes, MemoryAssumption DEF IInv, TypeOK
<1>5. o \in E /\ o \notin LiveAtoms /\ BinOf(size) = bin
  BY <1>2 DEF IInv, AtomsIndexed, Indexed, FreeAtoms
<1>6. /\ o \in Nat /\ size \in Nat /\ rest \in Nat /\ o + size <= atomNext
      /\ need <= size /\ o < rest
  BY <1>3, <1>4, <1>5 DEF IInv, TableSound, TableTiled
<1>7. size > need => rest \notin E /\ rest < atomNext
  BY <1>4, <1>5, <1>6 DEF IInv, TableSound, TableTiled
<1>8. DOMAIN entrySize' = E \cup more /\ LiveAtoms' = LiveAtoms \cup {o}
  BY <1>3 DEF LiveAtoms
<1>9. /\ entrySize'[o] = need
      /\ size > need => entrySize'[rest] = size - need
      /\ \A p \in E : p # o => entrySize'[p] = entrySize[p]
  BY <1>3, <1>5, <1>6, <1>7
<1> HIDE DEF more
<1>10. \A p \in more : p = rest /\ size > need
  BY DEF more
<1>11. size > need => rest \in more
  BY DEF more
<1>12. TypeOK'
  <2>1. more \subseteq 0 .. AtomLimit
    BY <1>4, <1>6, <1>7, <1>10
  <2>2. entrySize' \in [E \cup more -> 1 .. AtomLimit]
    <3>1. ASSUME NEW p \in E \cup more PROVE entrySize'[p] \in 1 .. AtomLimit
      BY <1>4, <1>6, <1>9, <1>10
    <3>2. QED BY <1>3, <3>1
  <2>3. atomName' \in [LiveAtoms \cup {o} -> Name]
    BY <1>3, <1>4
  <2>4. buckets' \in [Bucket -> SUBSET (0 .. AtomLimit)]
    BY <1>3, <1>4, <1>5
  <2>5. left \in [Bin -> SUBSET (0 .. AtomLimit)]
    BY <1>4
  <2>6. bins' \in [Bin -> SUBSET (0 .. AtomLimit)]
    BY <1>3, <1>4, <1>10, <1>11, <2>1, <2>5
  <2>7. held' \subseteq Ref
    BY <1>3, <1>6, RefTypes DEF IInv, TypeOK
  <2>8. LiveAtoms' \subseteq DOMAIN entrySize'
    BY <1>4, <1>5, <1>8
  <2>9. QED BY <1>3, <1>4, <1>8, <2>1, <2>2, <2>3, <2>4, <2>6, <2>7, <2>8
            DEF IInv, TypeOK, cellVars
<1>13. TableTiled'
  <2>1. ASSUME NEW p \in E \cup more
        PROVE  /\ p + entrySize'[p] <= atomNext'
               /\ p + entrySize'[p] < atomNext' => p + entrySize'[p] \in E \cup more
    <3>1. CASE p \in E /\ p # o
      BY <1>3, <1>4, <1>9, <3>1 DEF IInv, TableSound, TableTiled
    <3>2. CASE p = o
      BY <1>3, <1>4, <1>5, <1>6, <1>9, <1>11, <3>2 DEF IInv, TableSound, TableTiled
    <3>3. CASE p \in more
      <4>1. p + entrySize'[p] = o + size
        BY <1>4, <1>6, <1>9, <1>10, <3>3
      <4>2. QED BY <1>3, <1>5, <1>6, <4>1 DEF IInv, TableSound, TableTiled
    <3>4. QED BY <3>1, <3>2, <3>3
  <2>2. ASSUME NEW p \in E \cup more, NEW q \in E \cup more, p < q
        PROVE  p + entrySize'[p] <= q
    <3>1. CASE p \in E /\ q \in E
      BY <1>4, <1>5, <1>6, <1>9, <2>2, <3>1 DEF IInv, TableSound, TableTiled
    <3>2. CASE p \in E /\ q \in more
      <4>1. q = rest /\ size > need
        BY <1>10, <3>2
      <4>2. CASE p = o
        BY <1>9, <1>6, <4>1, <4>2
      <4>3. CASE p < o
        BY <1>4, <1>5, <1>6, <1>9, <3>2, <4>1, <4>3 DEF IInv, TableSound, TableTiled
      <4>4. CASE p > o
        BY <1>4, <1>5, <1>6, <2>2, <3>2, <4>1, <4>4 DEF IInv, TableSound, TableTiled
      <4>5. QED BY <1>4, <1>6, <3>2, <4>2, <4>3, <4>4
    <3>3. CASE p \in more /\ q \in E
      <4>1. p = rest /\ size > need /\ p + entrySize'[p] = o + size
        BY <1>4, <1>6, <1>9, <1>10, <3>3
      <4>2. o < q
        BY <1>4, <1>6, <2>2, <3>3, <4>1
      <4>3. QED BY <1>5, <3>3, <4>1, <4>2 DEF IInv, TableSound, TableTiled
    <3>4. CASE p \in more /\ q \in more
      BY <1>6, <1>10, <2>2, <3>4
    <3>5. QED BY <3>1, <3>2, <3>3, <3>4
  <2>3. ASSUME NEW p \in LiveAtoms \cup {o}
        PROVE  entrySize'[p] = NameSize[atomName'[p]]
    BY <1>3, <1>4, <1>5, <1>9 DEF IInv, TableSound, TableTiled
  <2>4. 0 \in E \cup more
    BY DEF IInv, TableSound, TableTiled
  <2>5. QED BY <1>8, <2>1, <2>2, <2>3, <2>4 DEF TableTiled
<1>14. ArenasApart'
  BY <1>3 DEF IInv, TableSound, ArenasApart, nodeBottom, cellVars
<1>15. FreeAtoms' = (FreeAtoms \ {o}) \cup more
  BY <1>4, <1>5, <1>6, <1>7, <1>8, <1>10 DEF FreeAtoms
<1>16. \A b \in Bin : bins[b] = {p \in FreeAtoms : BinOf(entrySize[p]) = b}
  BY DEF IInv, AtomsIndexed, Indexed
<1>17. \A b \in Bin : left[b] = {p \in FreeAtoms \ {o} : BinOf(entrySize[p]) = b}
  BY <1>4, <1>5, <1>16
<1>18. Indexed'
  <2>1. ASSUME NEW b \in Bin
        PROVE  bins'[b] = {p \in FreeAtoms' : BinOf(entrySize'[p]) = b}
    <3>1. \A p \in FreeAtoms \ {o} : entrySize'[p] = entrySize[p]
      BY <1>9 DEF FreeAtoms
    <3>2. CASE size > need
      <4>1. more = {rest} /\ rest \notin FreeAtoms
        BY <1>7, <3>2 DEF more, FreeAtoms
      <4>2. BinOf(size - need) \in Bin
        BY <1>4, <1>6, <3>2, BinType
      <4>3. entrySize'[rest] = size - need
        BY <1>9, <3>2
      <4>4. bins'[b] = IF b = BinOf(size - need) THEN left[b] \cup {rest} ELSE left[b]
        BY <1>3, <1>4, <3>2, <4>2
      <4>5. QED BY <1>15, <1>17, <3>1, <4>1, <4>3, <4>4
    <3>3. CASE ~ (size > need)
      <4>1. more = {} /\ bins' = left
        BY <1>3, <3>3 DEF more
      <4>2. QED BY <1>15, <1>17, <3>1, <4>1
    <3>4. QED BY <3>2, <3>3
  <2>2. ASSUME NEW h \in Bucket
        PROVE  buckets'[h] = {p \in LiveAtoms' : HashOf[atomName'[p]] = h}
    <3>1. buckets[h] = {p \in LiveAtoms : HashOf[atomName[p]] = h}
      BY DEF IInv, AtomsIndexed, Indexed
    <3>2. \A p \in LiveAtoms : atomName'[p] = atomName[p]
      BY <1>3, <1>5
    <3>3. atomName'[o] = n
      BY <1>3
    <3>4. QED BY <1>3, <1>4, <1>8, <3>1, <3>2, <3>3
  <2>3. QED BY <2>1, <2>2 DEF Indexed
<1>19. InternedOnce'
  <2>1. \A p \in LiveAtoms : atomName[p] # n
    BY <1>3, NotFound
  <2>2. QED BY <1>3, <1>5, <1>8, <2>1 DEF IInv, AtomsIndexed, InternedOnce
<1>20. NoDangling'
  BY <1>3, <1>8, CellsUntouched
<1>21. QED BY <1>12, <1>13, <1>14, <1>18, <1>19, <1>20 DEF IInv, TableSound, AtomsIndexed

-----------------------------------------------------------------------------
(* The collection.                                                         *)

\* What the mark phase marks is closed under reachability, and everything
\* in it is an allocated cell.
LEMMA MarkedClosed ==
  ASSUME IInv
  PROVE  /\ Marked \subseteq (1 .. nodeCount) \ freeCells
         /\ Closed(Marked)
<1> DEFINE Used == (1 .. nodeCount) \ freeCells
<1>1. Used \in SUBSET (1 .. nodeCount) /\ Closed(Used)
  <2>1. ASSUME NEW i \in 1 .. nodeCount, List(i) \in held
        PROVE  i \in Used
    BY <2>1 DEF IInv, NoDangling, HeldValid, Valid, List
  <2>2. ASSUME NEW i \in Used, NEW j \in Children(i)
        PROVE  j \in Used
    <3>1. List(j) \in {cells[i].car, cells[i].cdr}
      BY DEF Children
    <3>2. Valid(List(j))
      BY <3>1 DEF IInv, NoDangling, CellsValid
    <3>3. QED BY <3>2 DEF Valid, List
  <2>3. QED BY <2>1, <2>2 DEF Closed
<1>2. Marked \subseteq Used
  BY <1>1 DEF Marked
<1>3. ASSUME NEW i \in 1 .. nodeCount, List(i) \in held
      PROVE  i \in Marked
  BY <1>3 DEF Marked, Closed
<1>4. ASSUME NEW i \in Marked, NEW j \in Children(i)
      PROVE  j \in Marked
  <2>1. j \in 1 .. nodeCount
    BY DEF Children
  <2>2. ASSUME NEW S \in SUBSET (1 .. nodeCount), Closed(S)
        PROVE  j \in S
    <3>1. i \in S
      BY <2>2 DEF Marked
    <3>2. QED BY <2>2, <3>1 DEF Closed
  <2>3. QED BY <2>1, <2>2 DEF Marked
<1>5. QED BY <1>2, <1>3, <1>4 DEF Closed

\* Every reference the mark phase looks at, it reaches.
LEMMA MarkedRefsReached ==
  ASSUME IInv, NEW r \in MarkedRefs(Marked)
  PROVE  /\ r.kind = "word" => r.at \in LiveAtoms
         /\ r.kind = "list" => r.at \in Marked
<1>1. CASE r \in held
  <2>1. Valid(r) /\ r \in Ref
    BY <1>1 DEF IInv, TypeOK, NoDangling, HeldValid
  <2>2. r.kind = "list" => r = List(r.at)
    BY <2>1 DEF Ref, List
  <2>3. QED BY <1>1, <2>1, <2>2, MarkedClosed DEF Valid, Closed
<1>2. CASE r \in Permanent
  BY <1>2 DEF IInv, NoDangling, HeldValid, Valid, Permanent, Word
<1>3. ASSUME NEW i \in Marked, r \in {cells[i].car, cells[i].cdr}
      PROVE  /\ r.kind = "word" => r.at \in LiveAtoms
             /\ r.kind = "list" => r.at \in Marked
  <2>1. i \in (1 .. nodeCount) \ freeCells
    BY MarkedClosed
  <2>2. Valid(r) /\ r \in Ref
    BY <1>3, <2>1 DEF IInv, NoDangling, CellsValid, TypeOK
  <2>3. r.kind = "list" => r = List(r.at) /\ r.at \in 1 .. nodeCount
    BY <2>2 DEF Ref, List, Valid
  <2>4. r.kind = "list" => r.at \in Children(i)
    BY <1>3, <2>3 DEF Children
  <2>5. QED BY <2>2, <2>4, MarkedClosed DEF Valid, Closed
<1>4. QED BY <1>1, <1>2, <1>3 DEF MarkedRefs

\* Where a sweep that keeps the entries `live` ends the table.
LEMMA SweptEndFacts ==
  ASSUME IInv, NEW live \in SUBSET LiveAtoms
  PROVE  /\ SweptEnd(live) \in 0 .. atomNext
         /\ \A o \in live : o + entrySize[o] <= SweptEnd(live)
         /\ SweptEnd(live) # 0 => \E o \in live : o + entrySize[o] = SweptEnd(live)
<1> DEFINE Ends == {0} \cup {o + entrySize[o] : o \in live}
<1>1. atomNext \in Nat /\ \A o \in live : o \in DOMAIN entrySize /\ o \in Nat /\ entrySize[o] \in Nat
  BY MemoryAssumption DEF IInv, TypeOK
<1>2. Ends \in SUBSET (0 .. atomNext) /\ Ends # {}
  BY <1>1 DEF IInv, TableSound, TableTiled
<1>3. Max(Ends) \in Ends /\ \A x \in Ends : Max(Ends) >= x
  BY <1>1, <1>2, NatMax
<1>4. SweptEnd(live) = Max(Ends)
  BY DEF SweptEnd
<1> HIDE DEF Ends
<1>5. SweptEnd(live) \in 0 .. atomNext
  BY <1>2, <1>3, <1>4
<1>6. \A o \in live : o + entrySize[o] <= SweptEnd(live)
  <2>1. \A o \in live : o + entrySize[o] \in Ends
    BY DEF Ends
  <2>2. \A x \in Ends : x <= Max(Ends)
    BY <1>2, <1>3
  <2>3. QED BY <1>4, <2>1, <2>2
<1>7. SweptEnd(live) # 0 => \E o \in live : o + entrySize[o] = SweptEnd(live)
  BY <1>3, <1>4 DEF Ends
<1>8. QED BY <1>5, <1>6, <1>7

\* A dead run below the end is followed by a kept entry, the nearest one.
LEMMA RunEndFacts ==
  ASSUME IInv, NEW live \in SUBSET LiveAtoms, NEW o \in RunStarts(live)
  PROVE  /\ RunEnd(live, o) \in live
         /\ RunEnd(live, o) > o
         /\ \A p \in live : p > o => RunEnd(live, o) <= p
<1> DEFINE Above == {p \in live : p > o}
<1>1. o \in DOMAIN entrySize /\ o \notin live /\ o < SweptEnd(live)
  BY DEF RunStarts
<1>2. \A p \in DOMAIN entrySize : p \in Nat /\ entrySize[p] \in Nat
  BY MemoryAssumption DEF IInv, TypeOK
<1>3. live \subseteq DOMAIN entrySize
  BY DEF IInv, TypeOK
<1>4. PICK l \in live : l + entrySize[l] = SweptEnd(live)
  BY <1>1, <1>2, SweptEndFacts
<1>5. l \in Above
  <2>1. l # o
    BY <1>1
  <2>2. l < o => l + entrySize[l] <= o
    BY <1>1, <1>3 DEF IInv, TableSound, TableTiled
  <2>3. QED BY <1>1, <1>2, <1>3, <1>4, <2>1, <2>2
<1>6. Above \in SUBSET Nat /\ Above # {}
  BY <1>2, <1>3, <1>5
<1>7. Min(Above) \in Above /\ \A p \in Above : Min(Above) <= p
  BY <1>6, NatMin
<1>8. QED BY <1>7 DEF RunEnd

LEMMA SweepAtomsInv ==
  ASSUME IInv, NEW live \in SUBSET LiveAtoms, 0 \in live, SweepAtoms(live),
         ArenasApart', UNCHANGED held,
         nodeCount' \in 0 .. MaxListIndex,
         cells' \in [1 .. nodeCount' -> [car : Ref, cdr : Ref]],
         freeCells' \subseteq 1 .. nodeCount'
  PROVE  TypeOK' /\ TableSound' /\ AtomsIndexed'
<1> DEFINE E == DOMAIN entrySize
           runs == RunStarts(live)
           end == SweptEnd(live)
<1>1. /\ entrySize' = [o \in live \cup runs |->
                         IF o \in live THEN entrySize[o] ELSE RunEnd(live, o) - o]
      /\ atomNext' = end
      /\ atomName' = [o \in live |-> atomName[o]]
      /\ buckets' = [h \in Bucket |-> {o \in live : HashOf[atomName[o]] = h}]
  BY DEF SweepAtoms, SweptSize
<1>2. bins' = [b \in Bin |-> {o \in runs : BinOf(entrySize'[o]) = b}]
  BY DEF SweepAtoms
<1>3. /\ atomNext \in Nat /\ AtomLimit \in Nat /\ atomNext <= AtomLimit
      /\ E \subseteq 0 .. AtomLimit
      /\ entrySize \in [E -> 1 .. AtomLimit]
      /\ live \subseteq E
      /\ atomName \in [LiveAtoms -> Name]
  BY MemoryAssumption DEF IInv, TypeOK
<1>4. /\ end \in 0 .. atomNext
      /\ \A o \in live : o + entrySize[o] <= end
  BY SweptEndFacts
<1>5. \A o \in runs : /\ o \in E /\ o \notin live /\ o < end
                      /\ \E p \in live : p + entrySize[p] = o
  BY DEF RunStarts
<1>6. \A o \in runs : /\ RunEnd(live, o) \in live /\ RunEnd(live, o) > o
                      /\ \A p \in live : p > o => RunEnd(live, o) <= p
  BY RunEndFacts
<1>7. DOMAIN entrySize' = live \cup runs /\ LiveAtoms' = live /\ FreeAtoms' = runs
  BY <1>1, <1>5 DEF LiveAtoms, FreeAtoms
<1>8. \A o \in live : entrySize'[o] = entrySize[o] /\ atomName'[o] = atomName[o]
  BY <1>1
<1>9. \A o \in runs : entrySize'[o] = RunEnd(live, o) - o
  BY <1>1, <1>5
<1>10. \A o \in live \cup runs : o \in Nat /\ o < end /\ o + entrySize'[o] <= end
                                 /\ entrySize'[o] \in 1 .. AtomLimit
  <2>1. ASSUME NEW o \in live
        PROVE  o \in Nat /\ o < end /\ o + entrySize'[o] <= end
               /\ entrySize'[o] \in 1 .. AtomLimit
    BY <1>3, <1>4, <1>8
  <2>2. ASSUME NEW o \in runs
        PROVE  o \in Nat /\ o < end /\ o + entrySize'[o] <= end
               /\ entrySize'[o] \in 1 .. AtomLimit
    <3>1. o \in Nat /\ o < end
      BY <1>3, <1>5
    <3>2. RunEnd(live, o) \in live /\ RunEnd(live, o) > o
      BY <1>6
    <3>3. RunEnd(live, o) \in Nat /\ RunEnd(live, o) < end
      BY <2>1, <3>2
    <3>4. QED BY <1>3, <1>4, <1>9, <3>1, <3>2, <3>3
  <2>3. QED BY <2>1, <2>2
<1>11. TypeOK'
  <2>1. entrySize' \in [live \cup runs -> 1 .. AtomLimit]
    BY <1>1, <1>10
  <2>2. live \cup runs \subseteq 0 .. AtomLimit
    BY <1>3, <1>5
  <2>3. atomName' \in [live -> Name]
    BY <1>1, <1>3
  <2>4. buckets' \in [Bucket -> SUBSET (0 .. AtomLimit)]
    BY <1>1, <1>3
  <2>5. bins' \in [Bin -> SUBSET (0 .. AtomLimit)]
    BY <1>2, <2>2
  <2>6. end \in 0 .. AtomLimit
    BY <1>3, <1>4
  <2>7. QED BY <1>1, <1>7, <2>1, <2>2, <2>3, <2>4, <2>5, <2>6 DEF IInv, TypeOK
<1>12. TableTiled'
  <2>1. ASSUME NEW o \in live \cup runs
        PROVE  /\ o + entrySize'[o] <= end
               /\ o + entrySize'[o] < end => o + entrySize'[o] \in live \cup runs
    <3>1. CASE o \in live
      <4>1. o + entrySize[o] < end => o + entrySize[o] \in E
        BY <1>3, <1>4, <3>1 DEF IInv, TableSound, TableTiled
      <4>2. o + entrySize[o] < end /\ o + entrySize[o] \notin live
              => o + entrySize[o] \in runs
        BY <3>1, <4>1 DEF RunStarts
      <4>3. QED BY <1>4, <1>8, <3>1, <4>2
    <3>2. CASE o \in runs
      <4>1. RunEnd(live, o) \in live /\ RunEnd(live, o) \in Nat /\ o \in Nat
        BY <1>6, <1>10, <3>2
      <4>2. o + entrySize'[o] = RunEnd(live, o)
        BY <1>9, <3>2, <4>1
      <4>3. QED BY <1>10, <4>1, <4>2
    <3>3. QED BY <3>1, <3>2
  <2>2. ASSUME NEW o \in live \cup runs, NEW p \in live \cup runs, o < p
        PROVE  o + entrySize'[o] <= p
    <3>1. CASE o \in live
      BY <1>3, <1>5, <1>8, <2>2, <3>1 DEF IInv, TableSound, TableTiled
    <3>2. CASE o \in runs /\ p \in live
      BY <1>6, <1>9, <1>10, <2>2, <3>2
    <3>3. CASE o \in runs /\ p \in runs
      <4>1. PICK l \in live : l + entrySize[l] = p
        BY <1>5, <3>3
      <4>2. l # o /\ o \in E /\ l \in E
        BY <1>3, <1>5, <3>3
      <4>3. l < o => l + entrySize[l] <= o
        BY <4>2 DEF IInv, TableSound, TableTiled
      <4>4. l > o
        BY <1>10, <2>2, <4>1, <4>2, <4>3
      <4>5. RunEnd(live, o) <= l /\ RunEnd(live, o) \in live
        BY <1>6, <3>3, <4>4
      <4>6. l <= p
        BY <1>3, <1>10, <4>1, <4>2
      <4>7. QED BY <1>9, <1>10, <3>3, <4>5, <4>6
    <3>4. QED BY <3>1, <3>2, <3>3
  <2>3. \A o \in live : entrySize'[o] = NameSize[atomName'[o]]
    BY <1>8 DEF IInv, TableSound, TableTiled
  <2>4. QED BY <1>1, <1>7, <2>1, <2>2, <2>3 DEF TableTiled
<1>13. Indexed'
  BY <1>1, <1>2, <1>7, <1>8 DEF Indexed
<1>14. InternedOnce'
  BY <1>7, <1>8 DEF IInv, AtomsIndexed, InternedOnce
<1>15. QED BY <1>11, <1>12, <1>13, <1>14 DEF TableSound, AtomsIndexed

LEMMA RecycleInv ==
  ASSUME IInv, Recycle
  PROVE  IInv'
<1> DEFINE live == MarkedAtoms(Marked)
           top == Max({0} \cup Marked)
<1>1. SweepCells(Marked) /\ SweepAtoms(live) /\ UNCHANGED held
  BY DEF Recycle
<1>2. live \subseteq LiveAtoms
  BY DEF MarkedAtoms
<1>3. 0 \in live
  <2>1. Word(0) \in MarkedRefs(Marked)
    BY DEF MarkedRefs, Permanent
  <2>2. 0 \in LiveAtoms
    BY <2>1, MarkedRefsReached DEF Word
  <2>3. QED BY <2>1, <2>2 DEF MarkedAtoms
<1>4. nodeCount \in Nat /\ nodeCount <= MaxListIndex /\ Marked \subseteq 1 .. nodeCount
  BY MemoryAssumption DEF IInv, TypeOK, Marked
<1>5. top \in {0} \cup Marked /\ \A i \in Marked : i <= top
  <2>1. {0} \cup Marked \in SUBSET (0 .. nodeCount) /\ {0} \cup Marked # {}
    BY <1>4
  <2>2. QED BY <1>4, <2>1, NatMax
<1>6. /\ nodeCount' = top
      /\ freeCells' = (1 .. top) \ Marked
      /\ cells' = [i \in 1 .. top |-> IF i \in Marked THEN cells[i] ELSE FreeCell]
  BY <1>1 DEF SweepCells
<1> HIDE DEF top
<1>7. top \in Nat /\ top <= nodeCount /\ Marked \subseteq 1 .. top
  BY <1>4, <1>5
<1>8. (1 .. nodeCount') \ freeCells' = Marked
  BY <1>6, <1>7
<1>9. cells' \in [1 .. nodeCount' -> [car : Ref, cdr : Ref]]
  <2>1. FreeCell \in [car : Ref, cdr : Ref]
    BY RefTypes DEF FreeCell
  <2>2. cells \in [1 .. nodeCount -> [car : Ref, cdr : Ref]]
    BY DEF IInv, TypeOK
  <2>3. QED BY <1>4, <1>6, <1>7, <2>1, <2>2
<1>10. nodeCount' \in 0 .. MaxListIndex /\ freeCells' \subseteq 1 .. nodeCount'
  BY <1>4, <1>6, <1>7, MemoryAssumption
<1>11. ArenasApart'
  <2>1. atomNext' <= atomNext /\ atomNext' \in Nat
    <3>1. atomNext' = SweptEnd(live)
      BY <1>1 DEF SweepAtoms
    <3>2. atomNext \in Nat
      BY MemoryAssumption DEF IInv, TypeOK
    <3>3. QED BY <1>2, <3>1, <3>2, SweptEndFacts
  <2>2. QED BY <1>4, <1>6, <1>7, <2>1, MemoryAssumption
            DEF IInv, TypeOK, TableSound, ArenasApart, nodeBottom
<1>12. TypeOK' /\ TableSound' /\ AtomsIndexed'
  BY <1>1, <1>2, <1>3, <1>9, <1>10, <1>11, SweepAtomsInv
<1>13. LiveAtoms' = live
  BY <1>1 DEF SweepAtoms, LiveAtoms
<1>14. ASSUME NEW r \in MarkedRefs(Marked), r \in Ref
       PROVE  Valid(r)'
  <2>1. r.kind = "word" => r = Word(r.at)
    BY <1>14 DEF Ref, Word
  <2>2. QED BY <1>8, <1>13, <2>1, MarkedRefsReached DEF Valid, MarkedAtoms
<1>15. HeldValid'
  <2>1. held \subseteq Ref /\ Permanent \subseteq Ref
    BY SizeTypes DEF IInv, TypeOK
  <2>2. held \cup Permanent \subseteq MarkedRefs(Marked)
    BY DEF MarkedRefs
  <2>3. held' = held
    BY <1>1
  <2>4. QED BY <1>14, <2>1, <2>2, <2>3 DEF HeldValid, Permanent
<1>16. CellsValid'
  <2> SUFFICES ASSUME NEW i \in Marked
               PROVE  \A r \in {cells'[i].car, cells'[i].cdr} : Valid(r)' /\ r.kind # "blob"
    BY <1>8 DEF CellsValid
  <2>1. cells'[i] = cells[i]
    BY <1>6, <1>7
  <2>2. \A r \in {cells[i].car, cells[i].cdr} : r \in MarkedRefs(Marked)
    BY DEF MarkedRefs
  <2>3. i \in (1 .. nodeCount) \ freeCells
    BY MarkedClosed
  <2>4. \A r \in {cells[i].car, cells[i].cdr} : r \in Ref /\ r.kind # "blob"
    BY <2>3 DEF IInv, TypeOK, NoDangling, CellsValid
  <2>5. QED BY <1>14, <2>1, <2>2, <2>4
<1>17. QED BY <1>12, <1>15, <1>16 DEF IInv, NoDangling

-----------------------------------------------------------------------------
(* The theorems.                                                           *)

\* logo_mem_init establishes the invariant.
LEMMA InitInv == Init => IInv
<1> SUFFICES ASSUME Init PROVE IInv
  OBVIOUS
<1> DEFINE s1 == NameSize[Newline]
           s2 == NameSize[TrueName]
           s3 == NameSize[FalseName]
           T == {0, s1, s1 + s2}
<1>1. /\ s1 \in Nat /\ s1 >= 2 /\ s2 \in Nat /\ s2 >= 2 /\ s3 \in Nat /\ s3 >= 2
      /\ s1 + s2 + s3 <= AtomLimit /\ AtomLimit \in Nat
      /\ AtomLimit <= MemSize /\ MemSize \in Nat /\ MaxListIndex \in Nat
      /\ Newline \in Name /\ TrueName \in Name /\ FalseName \in Name
      /\ Newline # TrueName /\ Newline # FalseName /\ TrueName # FalseName
  BY MemoryAssumption, SizeTypes DEF PermanentSize
<1>2. /\ entrySize = [o \in T |-> IF o = 0 THEN s1 ELSE IF o = s1 THEN s2 ELSE s3]
      /\ atomName = [o \in T |-> IF o = 0 THEN Newline ELSE IF o = s1 THEN TrueName
                                 ELSE FalseName]
      /\ atomNext = s1 + s2 + s3
      /\ buckets = [h \in Bucket |-> {o \in T : HashOf[atomName[o]] = h}]
      /\ bins = [b \in Bin |-> {}]
      /\ cells = [i \in 1 .. 0 |-> FreeCell]
      /\ nodeCount = 0 /\ freeCells = {} /\ held = {}
  BY DEF Init, PermanentSize
<1>3. DOMAIN entrySize = T /\ LiveAtoms = T /\ FreeAtoms = {}
  BY <1>2 DEF LiveAtoms, FreeAtoms
<1>4. /\ entrySize[0] = s1 /\ entrySize[s1] = s2 /\ entrySize[s1 + s2] = s3
      /\ atomName[0] = Newline /\ atomName[s1] = TrueName /\ atomName[s1 + s2] = FalseName
  BY <1>1, <1>2
<1>5. TypeOK
  <2>1. entrySize \in [T -> 1 .. AtomLimit] /\ T \subseteq 0 .. AtomLimit
    BY <1>1, <1>2
  <2>2. atomName \in [T -> Name]
    BY <1>1, <1>2
  <2>3. buckets \in [Bucket -> SUBSET (0 .. AtomLimit)] /\ bins \in [Bin -> SUBSET (0 .. AtomLimit)]
    BY <1>2, <2>1
  <2>4. cells \in [1 .. nodeCount -> [car : Ref, cdr : Ref]]
    BY <1>2
  <2>5. QED BY <1>1, <1>2, <1>3, <2>1, <2>2, <2>3, <2>4 DEF TypeOK
<1>6. TableSound
  BY <1>1, <1>2, <1>3, <1>4 DEF TableSound, TableTiled, ArenasApart, nodeBottom
<1>7. AtomsIndexed
  BY <1>1, <1>2, <1>3, <1>4 DEF AtomsIndexed, Indexed, InternedOnce
<1>8. NoDangling
  BY <1>2, <1>3 DEF NoDangling, HeldValid, CellsValid, Valid, Permanent, Word
<1>9. QED BY <1>5, <1>6, <1>7, <1>8 DEF IInv

\* Every operation and every collection preserves the invariant.
LEMMA StepInv == IInv /\ [Next]_vars => IInv'
<1> SUFFICES ASSUME IInv, [Next]_vars PROVE IInv'
  OBVIOUS
<1>1. ASSUME NEW n \in Spoken, Intern(n) PROVE IInv'
  <2>1. n \in Name
    BY MemoryAssumption
  <2>2. QED BY <1>1, <2>1, InternFoundInv, InternReuseInv, InternExtendInv DEF Intern
<1>2. ASSUME NEW car \in Operand, NEW cdr \in Operand, Cons(car, cdr) PROVE IInv'
  BY <1>2, ConsInv
<1>3. ASSUME NEW i \in HeldCells, NEW item \in Operand, ListAppend(i, item) PROVE IInv'
  BY <1>3, ListAppendInv
<1>4. ASSUME NEW i \in HeldCells, NEW v \in Operand, SetCar(i, v) \/ SetCdr(i, v) PROVE IInv'
  BY <1>4, SetInv
<1>5. ASSUME NEW i \in HeldCells, Fetch(i) PROVE IInv'
  BY <1>5, FetchInv
<1>6. ASSUME NEW b \in Blob, HoldBlob(b) PROVE IInv'
  BY <1>6, HoldBlobInv
<1>7. ASSUME NEW r \in held, Drop(r) PROVE IInv'
  BY <1>7, DropInv
<1>8. CASE Recycle
  BY <1>8, RecycleInv
<1>9. CASE UNCHANGED vars
  BY <1>9 DEF vars, atomVars, cellVars, IInv, TypeOK, TableSound, TableTiled, ArenasApart,
              nodeBottom, AtomsIndexed, Indexed, InternedOnce, LiveAtoms, FreeAtoms,
              NoDangling, HeldValid, CellsValid, Valid, Permanent
<1>10. QED BY <1>1, <1>2, <1>3, <1>4, <1>5, <1>6, <1>7, <1>8, <1>9 DEF Next

THEOREM Invariance == Spec => []IInv
  BY InitInv, StepInv, PTL DEF Spec

\* The state of the store always has its types.
THEOREM TypeCorrect == Spec => []TypeOK
<1>1. IInv => TypeOK
  BY DEF IInv
<1>2. QED BY <1>1, Invariance, PTL

\* The atom table always tiles its arena and never meets the cells.
THEOREM TableAlwaysSound == Spec => []TableSound
<1>1. IInv => TableSound
  BY DEF IInv
<1>2. QED BY <1>1, Invariance, PTL

\* The chains and the bins always hold exactly the entries they should, and
\* a word is interned at most once.
THEOREM AtomsAlwaysIndexed == Spec => []AtomsIndexed
<1>1. IInv => AtomsIndexed
  BY DEF IInv
<1>2. QED BY <1>1, Invariance, PTL

\* No collection ever frees what a held reference or an allocated cell
\* leads to.
THEOREM NothingDangles == Spec => []NoDangling
<1>1. IInv => NoDangling
  BY DEF IInv
<1>2. QED BY <1>1, Invariance, PTL

\* While the pool is under its cap, `nodes` is positive exactly when the next
\* cell can be allocated.
THEOREM FreeNodesAlwaysHonest == Spec => []FreeNodesHonest
<1>1. IInv => FreeNodesHonest
  <2> SUFFICES ASSUME IInv, nodeCount < MaxListIndex
               PROVE  FreeNodes > 0 <=> CanAllocCell
    BY DEF FreeNodesHonest
  <2>1. /\ nodeCount \in Nat /\ MaxListIndex \in Nat /\ MemSize \in Nat
        /\ atomNext \in Nat /\ freeCells \subseteq 1 .. nodeCount
    BY MemoryAssumption DEF IInv, TypeOK
  <2>2. /\ Cardinality(freeCells) \in Nat
        /\ Cardinality(freeCells) = 0 <=> freeCells = {}
    <3>1. IsFiniteSet(freeCells)
      <4>1. IsFiniteSet(1 .. nodeCount)
        BY <2>1, FS_Interval
      <4>2. QED BY <2>1, <4>1, FS_Subset
    <3>2. QED BY <3>1, FS_CardinalityType, FS_EmptySet
  <2>3. atomNext >= 1
    <3>1. 0 \in DOMAIN entrySize /\ 0 + entrySize[0] <= atomNext
      BY DEF IInv, TableSound, TableTiled
    <3>2. entrySize[0] \in 1 .. AtomLimit /\ AtomLimit \in Nat
      BY <3>1, MemoryAssumption DEF IInv, TypeOK
    <3>3. QED BY <2>1, <3>1, <3>2
  <2> DEFINE listed == Cardinality(freeCells)
             gap == MemSize - nodeCount - atomNext
  <2>4. /\ nodeBottom - atomNext = gap /\ nodeBottom \in Int /\ gap \in Int
        /\ gap > 0 => nodeCount < MemSize - 1 /\ gap <= MemSize - 1 - nodeCount
    BY <2>1, <2>3 DEF nodeBottom
  <2>5. FreeNodes = IF gap > 0 THEN listed + gap ELSE listed
    <3>1. nodeBottom > atomNext <=> gap > 0
      BY <2>1, <2>4
    <3>2. CASE gap > 0
      BY <2>1, <2>2, <2>4, <3>1, <3>2 DEF FreeNodes
    <3>3. CASE ~ (gap > 0)
      BY <3>1, <3>3 DEF FreeNodes
    <3>4. QED BY <3>2, <3>3
  <2>6. CanAllocCell <=> freeCells # {} \/ gap > 0
    BY <2>1, <2>4 DEF CanAllocCell
  <2>7. QED BY <2>2, <2>4, <2>5, <2>6
<1>2. QED BY <1>1, Invariance, PTL

-----------------------------------------------------------------------------
(* The figure kept of the free bytes.  A sum over a set is defined by      *)
(* recursion on the set; the facts the table needs of it follow from its   *)
(* equation, by the least size of a set for which they would fail.         *)

First(s) == CHOOSE x \in s : TRUE
SumOver(f, D, it) ==
  it = [s \in D |-> IF s = {} THEN 0 ELSE f[First(s)] + it[s \ {First(s)}]]
Within(S, n) == {s \in SUBSET S : Cardinality(s) <= n}

LEMMA SumIs ==
  ASSUME NEW f, NEW S
  PROVE  SumFunctionOnSet(f, S) = (CHOOSE it : SumOver(f, SUBSET S, it))[S]
  BY Zenon DEF SumFunctionOnSet, FoldFunctionOnSet, MapThenFoldSet, SumOver, First

LEMMA FirstIn ==
  ASSUME NEW s, s # {}
  PROVE  First(s) \in s
  BY DEF First

\* There is a function that satisfies the equation: extended from the sets of
\* up to n members to those of up to n + 1.
LEMMA SumExists ==
  ASSUME NEW f, NEW S, IsFiniteSet(S)
  PROVE  \E it : SumOver(f, SUBSET S, it)
<1> DEFINE Good == {n \in Nat : \E it : SumOver(f, Within(S, n), it)}
           Bad == Nat \ Good
<1>1. 0 \in Good
  <2> DEFINE it == [s \in Within(S, 0) |-> 0]
  <2>1. \A s \in Within(S, 0) : s = {}
    BY FS_EmptySet, FS_Subset, FS_CardinalityType DEF Within
  <2>2. SumOver(f, Within(S, 0), it)
    BY <2>1, Zenon DEF SumOver
  <2> QED BY <2>2
<1>2. ASSUME NEW n \in Nat, n \in Good PROVE n + 1 \in Good
  <2>1. PICK it : SumOver(f, Within(S, n), it)
    BY <1>2
  <2> DEFINE more == [s \in Within(S, n + 1) |->
                        IF s = {} THEN 0 ELSE f[First(s)] + it[s \ {First(s)}]]
  <2>2. ASSUME NEW s \in Within(S, n + 1), s # {}
        PROVE  s \ {First(s)} \in Within(S, n)
    <3>1. First(s) \in s /\ s \in SUBSET S /\ IsFiniteSet(s)
      BY <2>2, FirstIn, FS_Subset DEF Within
    <3>2. Cardinality(s \ {First(s)}) = Cardinality(s) - 1 /\ Cardinality(s) \in Nat
      BY <3>1, FS_RemoveElement, FS_CardinalityType
    <3> QED BY <3>1, <3>2 DEF Within
  <2>3. ASSUME NEW u \in Within(S, n) PROVE more[u] = it[u]
    <3>1. Cardinality(u) \in Nat
      BY FS_Subset, FS_CardinalityType DEF Within
    <3>2. u \in Within(S, n + 1)
      BY <3>1 DEF Within
    <3>3. it[u] = IF u = {} THEN 0 ELSE f[First(u)] + it[u \ {First(u)}]
      BY <2>1, Zenon DEF SumOver
    <3> QED BY <3>2, <3>3, Zenon
  <2>4. \A s \in Within(S, n + 1) :
          (IF s = {} THEN 0 ELSE f[First(s)] + it[s \ {First(s)}])
            = (IF s = {} THEN 0 ELSE f[First(s)] + more[s \ {First(s)}])
    <3> HIDE DEF more
    <3> QED BY <2>2, <2>3
  <2>5. SumOver(f, Within(S, n + 1), more)
    BY <2>4, Zenon DEF SumOver
  <2> QED BY <2>5
<1>3. \A n \in Nat : n \in Good
  <2> HIDE DEF Good
  <2> SUFFICES ASSUME Bad # {} PROVE FALSE
    OBVIOUS
  <2>1. Min(Bad) \in Bad /\ \A y \in Bad : Min(Bad) <= y
    BY NatMin
  <2>2. PICK m \in Bad : \A y \in Bad : m <= y
    BY <2>1
  <2>3. m # 0 /\ m - 1 \in Nat /\ ~ (m <= m - 1)
    BY <1>1, <2>2
  <2>4. m - 1 \in Good
    BY <2>2, <2>3
  <2>5. m - 1 + 1 = m
    BY <2>2
  <2> QED BY <1>2, <2>2, <2>3, <2>4, <2>5
<1>4. Cardinality(S) \in Nat /\ Within(S, Cardinality(S)) = SUBSET S
  BY FS_CardinalityType, FS_Subset DEF Within
<1> QED BY <1>3, <1>4

\* The equation, for SumFunctionOnSet itself.
LEMMA SumUnfold ==
  ASSUME NEW f, NEW S, IsFiniteSet(S)
  PROVE  SumFunctionOnSet(f, S) = IF S = {} THEN 0
           ELSE f[First(S)] + SumFunctionOnSet(f, S \ {First(S)})
<1> DEFINE Sums(T) == CHOOSE it : SumOver(f, SUBSET T, it)
<1>1. \A T : T \subseteq S => SumOver(f, SUBSET T, Sums(T))
  BY SumExists, FS_Subset
<1> HIDE DEF Sums
<1>2. ASSUME NEW T \in SUBSET S, NEW U \in SUBSET T
      PROVE  Sums(T)[U] = Sums(U)[U]
  <2> DEFINE Bad == {n \in Nat : \E V \in SUBSET U : Cardinality(V) = n
                                     /\ Sums(T)[V] # Sums(U)[V]}
  <2>1. Bad = {}
    <3> SUFFICES ASSUME Bad # {} PROVE FALSE
      OBVIOUS
    <3>1. PICK m \in Bad : \A y \in Bad : m <= y
      <4>1. Bad \in SUBSET Nat
        OBVIOUS
      <4> HIDE DEF Bad
      <4>2. Min(Bad) \in Bad /\ \A y \in Bad : Min(Bad) <= y
        BY <4>1, NatMin
      <4> QED BY <4>2
    <3>2. PICK V \in SUBSET U : Cardinality(V) = m /\ Sums(T)[V] # Sums(U)[V]
      BY <3>1
    <3>3. /\ Sums(T)[V] = IF V = {} THEN 0 ELSE f[First(V)] + Sums(T)[V \ {First(V)}]
          /\ Sums(U)[V] = IF V = {} THEN 0 ELSE f[First(V)] + Sums(U)[V \ {First(V)}]
      <4>1. V \in SUBSET T /\ V \in SUBSET U /\ SumOver(f, SUBSET T, Sums(T))
            /\ SumOver(f, SUBSET U, Sums(U))
        BY <1>1
      <4> QED BY <4>1, Zenon DEF SumOver
    <3>4. V # {}
      BY <3>2, <3>3
    <3> DEFINE W == V \ {First(V)}
    <3>5. W \in SUBSET U /\ Sums(T)[W] # Sums(U)[W]
      BY <3>2, <3>3, <3>4
    <3>6. Cardinality(W) = m - 1 /\ Cardinality(W) \in Nat
      <4>1. IsFiniteSet(V) /\ First(V) \in V
        BY <3>4, FirstIn, FS_Subset
      <4> QED BY <4>1, <3>2, FS_RemoveElement, FS_CardinalityType
    <3> HIDE DEF W
    <3>7. Cardinality(W) \in Bad
      BY <3>5, <3>6
    <3> QED BY <3>1, <3>6, <3>7
  <2>2. Cardinality(U) \in Nat
    BY FS_Subset, FS_CardinalityType
  <2> QED BY <2>1, <2>2
<1>3. \A T \in SUBSET S : SumFunctionOnSet(f, T) = Sums(S)[T]
  <2> TAKE T \in SUBSET S
  <2>1. SumFunctionOnSet(f, T) = Sums(T)[T]
    BY SumIs DEF Sums
  <2> QED BY <2>1, <1>2
<1>4. Sums(S)[S] = IF S = {} THEN 0 ELSE f[First(S)] + Sums(S)[S \ {First(S)}]
  <2>1. SumOver(f, SUBSET S, Sums(S))
    BY <1>1
  <2>2. S \in SUBSET S
    OBVIOUS
  <2> QED BY <2>1, <2>2, Zenon DEF SumOver
<1> QED BY <1>3, <1>4

\* A sum depends on the members of its set only, is a number, and any member
\* may be taken out of it first.
SumGood(f, g, S) ==
  /\ SumFunctionOnSet(f, S) \in Int
  /\ SumFunctionOnSet(g, S) = SumFunctionOnSet(f, S)
  /\ \A x \in S : SumFunctionOnSet(f, S) = f[x] + SumFunctionOnSet(f, S \ {x})

LEMMA SumFacts ==
  ASSUME NEW f, NEW g, NEW S, IsFiniteSet(S),
         \A x \in S : f[x] \in Int /\ g[x] = f[x]
  PROVE  SumGood(f, g, S)
<1> DEFINE Bad == {n \in Nat : \E T \in SUBSET S : Cardinality(T) = n /\ ~SumGood(f, g, T)}
<1>1. Bad = {}
  <2> SUFFICES ASSUME Bad # {} PROVE FALSE
    OBVIOUS
  <2>1. PICK m \in Bad : \A y \in Bad : m <= y
    <3>1. Bad \in SUBSET Nat
      OBVIOUS
    <3> HIDE DEF Bad
    <3>2. Min(Bad) \in Bad /\ \A y \in Bad : Min(Bad) <= y
      BY <3>1, NatMin
    <3> QED BY <3>2
  <2>2. PICK T \in SUBSET S : Cardinality(T) = m /\ ~SumGood(f, g, T)
    BY <2>1
  <2>3. IsFiniteSet(T)
    BY FS_Subset
  <2>4. \A U \in SUBSET T : U # T => SumGood(f, g, U)
    <3> SUFFICES ASSUME NEW U \in SUBSET T, U # T PROVE SumGood(f, g, U)
      OBVIOUS
    <3>1. IsFiniteSet(U) /\ Cardinality(U) \in Nat /\ Cardinality(U) # m /\ Cardinality(U) <= m
      BY <2>2, <2>3, FS_Subset, FS_CardinalityType
    <3>2. ~(m <= Cardinality(U))
      BY <3>1, <2>1
    <3> QED BY <3>1, <3>2, <2>1
  <2> HIDE DEF Bad
  <2>5. /\ SumFunctionOnSet(f, T) = IF T = {} THEN 0
             ELSE f[First(T)] + SumFunctionOnSet(f, T \ {First(T)})
        /\ SumFunctionOnSet(g, T) = IF T = {} THEN 0
             ELSE g[First(T)] + SumFunctionOnSet(g, T \ {First(T)})
    BY <2>3, SumUnfold
  <2>6. T # {}
    BY <2>2, <2>5 DEF SumGood
  <2> DEFINE a == First(T)
             V == T \ {a}
  <2>7. a \in T /\ V \in SUBSET T /\ V # T
    BY <2>6, FirstIn
  <2> HIDE DEF a
  <2>8. SumGood(f, g, V) /\ f[a] \in Int /\ g[a] = f[a]
    BY <2>4, <2>7
  <2>9. SumFunctionOnSet(f, T) = f[a] + SumFunctionOnSet(f, V)
        /\ SumFunctionOnSet(g, T) = g[a] + SumFunctionOnSet(g, V)
    BY <2>5, <2>6 DEF a
  <2>10. SumFunctionOnSet(f, T) \in Int /\ SumFunctionOnSet(g, T) = SumFunctionOnSet(f, T)
    BY <2>8, <2>9 DEF SumGood
  <2>11. ASSUME NEW x \in T
         PROVE  SumFunctionOnSet(f, T) = f[x] + SumFunctionOnSet(f, T \ {x})
    <3>1. CASE x = a
      BY <3>1, <2>9
    <3>2. CASE x # a
      <4> DEFINE W == T \ {x}
      <4>1. x \in V /\ a \in W /\ W \in SUBSET T /\ W # T /\ W \ {a} = V \ {x}
        BY <2>7, <3>2
      <4>2. SumGood(f, g, W) /\ SumGood(f, g, V \ {x})
        BY <4>1, <2>4, <2>7
      <4>3. SumFunctionOnSet(f, V) = f[x] + SumFunctionOnSet(f, V \ {x})
        BY <4>1, <2>8 DEF SumGood
      <4>4. SumFunctionOnSet(f, W) = f[a] + SumFunctionOnSet(f, V \ {x})
        BY <4>1, <4>2 DEF SumGood
      <4>5. f[x] \in Int /\ f[a] \in Int /\ SumFunctionOnSet(f, V \ {x}) \in Int
        BY <2>7, <4>2 DEF SumGood
      <4> QED BY <2>9, <4>3, <4>4, <4>5
    <3> QED BY <3>1, <3>2
  <2> QED BY <2>2, <2>10, <2>11 DEF SumGood
<1>2. Cardinality(S) \in Nat
  BY FS_CardinalityType
<1> QED BY <1>1, <1>2

LEMMA FreeFinite ==
  ASSUME IInv
  PROVE  /\ IsFiniteSet(FreeAtoms)
         /\ \A o \in FreeAtoms : o \in DOMAIN entrySize /\ entrySize[o] \in Int
<1>1. FreeAtoms \subseteq DOMAIN entrySize /\ DOMAIN entrySize \subseteq 0 .. AtomLimit
      /\ AtomLimit \in Nat /\ entrySize \in [DOMAIN entrySize -> 1 .. AtomLimit]
  BY MemoryAssumption DEF IInv, TypeOK, FreeAtoms
<1>2. IsFiniteSet(0 .. AtomLimit)
  <2>1. 0 \in Int /\ AtomLimit \in Int
    BY <1>1
  <2> QED BY <2>1, FS_Interval, Zenon
<1>3. FreeAtoms \in SUBSET (0 .. AtomLimit)
  BY <1>1
<1>4. IsFiniteSet(FreeAtoms)
  BY <1>2, <1>3, FS_Subset
<1> QED BY <1>1, <1>4

\* A block leaves its bin, and what is not needed of it comes back.
LEMMA ReuseCounts ==
  ASSUME IInv, FreeBytesAgree, NEW n \in Name, InternReuse(n)
  PROVE  FreeBytesAgree'
<1> DEFINE E == DOMAIN entrySize
           need == NameSize[n]
<1>1. PICK bin \in Bin : \E o \in bins[bin] :
        LET size == entrySize[o]
            rest == o + need
        IN /\ Takes(o, bin, need)
           /\ entrySize' = [p \in E \cup (IF size > need THEN {rest} ELSE {}) |->
                              IF p = o THEN need
                              ELSE IF p = rest /\ size > need THEN size - need
                              ELSE entrySize[p]]
           /\ atomFree' = FreeAfterTake(size, need)
           /\ Enter(n, o)
  BY DEF InternReuse
<1>2. PICK o \in bins[bin] :
        LET size == entrySize[o]
            rest == o + need
        IN /\ Takes(o, bin, need)
           /\ entrySize' = [p \in E \cup (IF size > need THEN {rest} ELSE {}) |->
                              IF p = o THEN need
                              ELSE IF p = rest /\ size > need THEN size - need
                              ELSE entrySize[p]]
           /\ atomFree' = FreeAfterTake(size, need)
           /\ Enter(n, o)
  BY <1>1
<1> DEFINE size == entrySize[o]
           rest == o + need
           more == IF size > need THEN {rest} ELSE {}
           kept == FreeAtoms \ {o}
<1>3. /\ entrySize' = [p \in E \cup more |->
                         IF p = o THEN need
                         ELSE IF p = rest /\ size > need THEN size - need
                         ELSE entrySize[p]]
      /\ atomFree' = (atomFree - size) + (IF size > need THEN size - need ELSE 0)
      /\ LiveAtoms' = LiveAtoms \cup {o}
  BY <1>2, Zenon DEF Enter, FreeAfterTake, LiveAtoms
<1>4. o \in FreeAtoms /\ size >= need /\ need \in Nat /\ need >= 2
  <2>1. o \in FreeAtoms
    BY DEF IInv, AtomsIndexed, Indexed
  <2>2. o \in Fits(bin, need)
    BY <1>2 DEF Takes
  <2> QED BY <2>1, <2>2, SizeTypes DEF Fits
<1>5. /\ o \in E /\ o \in Nat /\ size \in Nat /\ E \subseteq Nat
      /\ LiveAtoms \subseteq E
      /\ \A p \in E : o < p => o + size <= p
  <2>1. E \subseteq 0 .. AtomLimit /\ entrySize \in [E -> 1 .. AtomLimit]
        /\ LiveAtoms \subseteq E /\ AtomLimit \in Nat
    BY MemoryAssumption DEF IInv, TypeOK
  <2>2. o \in E /\ o \in Nat /\ size \in Nat
    BY <1>4, <2>1 DEF FreeAtoms
  <2>3. \A p \in E : o < p => o + size <= p
    BY <2>2 DEF IInv, TableSound, TableTiled
  <2> QED BY <2>1, <2>2, <2>3
<1>6. size > need => rest \notin E /\ rest # o
  BY <1>4, <1>5
<1>7. FreeAtoms' = kept \cup more /\ kept \cap more = {}
  BY <1>3, <1>4, <1>5, <1>6 DEF FreeAtoms, LiveAtoms
<1>8. \A p \in kept : p \in E /\ entrySize'[p] = entrySize[p] /\ entrySize[p] \in Int
  BY <1>3, <1>6, FreeFinite
<1>9. IsFiniteSet(FreeAtoms) /\ IsFiniteSet(kept) /\ IsFiniteSet(kept \cup more)
  <2>1. IsFiniteSet(FreeAtoms)
    BY FreeFinite
  <2> QED BY <2>1, FS_RemoveElement, FS_AddElement
<1>10. SumGood(entrySize, entrySize, FreeAtoms) /\ SumGood(entrySize, entrySize', kept)
  BY <1>8, <1>9, SumFacts, FreeFinite
<1>11. atomFree = size + SumFunctionOnSet(entrySize', kept)
       /\ SumFunctionOnSet(entrySize', kept) \in Int
  BY <1>4, <1>10 DEF SumGood, FreeBytesAgree
<1>12. CASE size > need
  <2>1. entrySize'[rest] = size - need /\ rest \in FreeAtoms' /\ FreeAtoms' \ {rest} = kept
    BY <1>3, <1>6, <1>7, <1>12
  <2>2. \A p \in FreeAtoms' : entrySize'[p] \in Int
    BY <1>4, <1>5, <1>7, <1>8, <2>1, <1>12
  <2>3. SumGood(entrySize', entrySize', FreeAtoms')
    BY <2>2, <1>7, <1>9, SumFacts
  <2>4. SumFunctionOnSet(entrySize', FreeAtoms') = (size - need) + SumFunctionOnSet(entrySize', kept)
    BY <2>1, <2>3 DEF SumGood
  <2> QED BY <1>3, <1>4, <1>5, <1>11, <1>12, <2>4 DEF FreeBytesAgree
<1>13. CASE size = need
  <2>1. FreeAtoms' = kept /\ atomFree' = atomFree - size + 0
    BY <1>3, <1>4, <1>5, <1>7, <1>13
  <2> QED BY <1>5, <1>11, <2>1 DEF FreeBytesAgree
<1> QED BY <1>4, <1>5, <1>12, <1>13

\* The entry a growing table gains is live.
LEMMA ExtendCounts ==
  ASSUME IInv, FreeBytesAgree, NEW n \in Name, InternExtend(n)
  PROVE  FreeBytesAgree'
<1>1. /\ entrySize' = [p \in DOMAIN entrySize \cup {atomNext} |->
                         IF p = atomNext THEN NameSize[n] ELSE entrySize[p]]
      /\ LiveAtoms' = LiveAtoms \cup {atomNext} /\ atomFree' = atomFree
  BY DEF InternExtend, Enter, LiveAtoms
<1>2. atomNext \notin DOMAIN entrySize
  BY MemoryAssumption DEF IInv, TypeOK, TableSound, TableTiled
<1>3. FreeAtoms' = FreeAtoms
  BY <1>1, <1>2 DEF FreeAtoms, LiveAtoms, IInv, TypeOK
<1>4. \A o \in FreeAtoms : entrySize[o] \in Int /\ entrySize'[o] = entrySize[o]
  BY <1>1, <1>2, FreeFinite
<1>5. SumGood(entrySize, entrySize', FreeAtoms)
  BY <1>4, FreeFinite, SumFacts
<1> QED BY <1>1, <1>3, <1>5 DEF SumGood, FreeBytesAgree

\* What the program asks of `atoms` is answered from a figure kept in passing:
\* it always is the sum a walk of the table would find.
THEOREM FreeBytesAlwaysAgree == Spec => []FreeBytesAgree
<1>1. Init => FreeBytesAgree
  <2> SUFFICES ASSUME Init PROVE FreeBytesAgree
    OBVIOUS
  <2>1. FreeAtoms = {} /\ atomFree = 0
    BY DEF Init, FreeAtoms, LiveAtoms
  <2>2. SumFunctionOnSet(entrySize, {}) = 0
    BY FS_EmptySet, SumUnfold
  <2> QED BY <2>1, <2>2 DEF FreeBytesAgree
<1>2. IInv /\ FreeBytesAgree /\ [Next]_vars => FreeBytesAgree'
  <2> SUFFICES ASSUME IInv, FreeBytesAgree, [Next]_vars PROVE FreeBytesAgree'
    OBVIOUS
  <2>1. ASSUME UNCHANGED atomVars PROVE FreeBytesAgree'
    BY <2>1 DEF FreeBytesAgree, atomVars, FreeAtoms, LiveAtoms
  <2>2. ASSUME NEW n \in Spoken, Intern(n) PROVE FreeBytesAgree'
    <3>1. n \in Name
      BY MemoryAssumption
    <3>2. CASE InternFound(n)
      BY <3>2, <2>1 DEF InternFound
    <3> QED BY <2>2, <3>1, <3>2, ReuseCounts, ExtendCounts DEF Intern
  <2>3. ASSUME Recycle PROVE FreeBytesAgree'
    <3> DEFINE live == MarkedAtoms(Marked)
    <3>1. SweepAtoms(live)
      BY <2>3 DEF Recycle
    <3>2. /\ entrySize' = SweptSize(live) /\ atomFree' = SumFunctionOnSet(SweptSize(live), RunStarts(live))
          /\ DOMAIN SweptSize(live) = live \cup RunStarts(live) /\ LiveAtoms' = live
      BY <3>1 DEF SweepAtoms, SweptSize, LiveAtoms
    <3>3. live \cap RunStarts(live) = {}
      BY DEF RunStarts
    <3> HIDE DEF live
    <3>4. FreeAtoms' = RunStarts(live)
      BY <3>2, <3>3 DEF FreeAtoms
    <3> QED BY <3>2, <3>4 DEF FreeBytesAgree
  <2> QED BY <2>1, <2>2, <2>3 DEF Next, Cons, ListAppend, SetCar, SetCdr, Fetch, HoldBlob, Drop,
                                  vars
<1> QED BY <1>1, <1>2, Invariance, PTL DEF Spec

-----------------------------------------------------------------------------
(* Reachability, as a function of the cells and of what is held.           *)

Roots(n, h, S) == \A i \in 1 .. n : List(i) \in h => i \in S
Follows(n, c, S) == \A i \in S : \A k \in 1 .. n : List(k) \in {c[i].car, c[i].cdr} => k \in S
Least(n, c, h) ==
  {i \in 1 .. n : \A S \in SUBSET (1 .. n) : Roots(n, h, S) /\ Follows(n, c, S) => i \in S}

LEMMA MarkedIsLeast ==
  /\ Marked = Least(nodeCount, cells, held)
  /\ Marked' = Least(nodeCount', cells', held')
  /\ \A S \in SUBSET (1 .. nodeCount) :
        Closed(S) <=> Roots(nodeCount, held, S) /\ Follows(nodeCount, cells, S)
<1>1. \A S \in SUBSET (1 .. nodeCount) :
        Closed(S) <=> Roots(nodeCount, held, S) /\ Follows(nodeCount, cells, S)
  BY DEF Closed, Children, Roots, Follows
<1>2. \A S \in SUBSET (1 .. nodeCount') :
        Closed(S)' <=> Roots(nodeCount', held', S) /\ Follows(nodeCount', cells', S)
  BY DEF Closed, Children, Roots, Follows
<1>3. Marked = Least(nodeCount, cells, held)
  BY <1>1 DEF Marked, Least
<1>4. Marked' = {i \in 1 .. nodeCount' : \A S \in SUBSET (1 .. nodeCount') : Closed(S)' => i \in S}
  BY DEF Marked, Closed, Children
<1>5. Marked' = Least(nodeCount', cells', held')
  BY <1>2, <1>4 DEF Least
<1>6. QED BY <1>1, <1>3, <1>5

\* The pairs a store reaches from what it holds are the cells marked, whatever
\* closed set of cells the pairs are taken from.
LEMMA ReachIs ==
  ASSUME NEW n \in Nat, NEW c, NEW h, NEW D \in SUBSET (1 .. n),
         Roots(n, h, D), Follows(n, c, D),
         NEW p, NEW g, DOMAIN p = D,
         \A j, k \in D : Heap!Pair(k) \in {p[j].car, p[j].cdr}
                            <=> List(k) \in {c[j].car, c[j].cdr},
         \A k \in D : Heap!Pair(k) \in g <=> List(k) \in h
  PROVE  Heap!ReachableFrom(g, p) = Least(n, c, h) /\ Least(n, c, h) \subseteq D
<1> DEFINE Shut(S) == /\ \A j \in D : Heap!Pair(j) \in g => j \in S
                      /\ \A j \in S : \A k \in D : Heap!Pair(k) \in {p[j].car, p[j].cdr} => k \in S
<1>1. Heap!ReachableFrom(g, p) = {i \in D : \A S \in SUBSET D : Shut(S) => i \in S}
  BY DEF Heap!ReachableFrom
<1>2. ASSUME NEW S \in SUBSET (1 .. n), Roots(n, h, S), Follows(n, c, S)
      PROVE  Shut(S \cap D)
  BY <1>2 DEF Roots, Follows
<1>3. ASSUME NEW S \in SUBSET D, Shut(S)
      PROVE  Roots(n, h, S) /\ Follows(n, c, S)
  BY <1>3 DEF Roots, Follows
<1> HIDE DEF Shut
<1>4. Least(n, c, h) \subseteq D
  BY DEF Least
<1>5. ASSUME NEW i \in D, \A S \in SUBSET D : Shut(S) => i \in S
      PROVE  i \in Least(n, c, h)
  <2>1. ASSUME NEW S \in SUBSET (1 .. n), Roots(n, h, S), Follows(n, c, S) PROVE i \in S
    <3>1. S \cap D \in SUBSET D /\ Shut(S \cap D)
      BY <1>2, <2>1
    <3>2. QED BY <1>5, <3>1
  <2>2. QED BY <2>1 DEF Least
<1>6. ASSUME NEW i \in Least(n, c, h), NEW S \in SUBSET D, Shut(S)
      PROVE  i \in S
  <2>1. S \in SUBSET (1 .. n) /\ Roots(n, h, S) /\ Follows(n, c, S)
    BY <1>3, <1>6
  <2>2. QED BY <2>1 DEF Least
<1>7. QED BY <1>1, <1>4, <1>5, <1>6

\* Two stores of different sizes that agree on what the first marks mark alike.
LEMMA LeastAgrees ==
  ASSUME NEW n \in Nat, NEW m \in Nat, NEW c, NEW d, NEW h,
         NEW D \in SUBSET (1 .. n), D \subseteq 1 .. m,
         Roots(n, h, D), Follows(n, c, D), Roots(m, h, D), Follows(m, d, D),
         \A i \in D : d[i].car = c[i].car /\ d[i].cdr = c[i].cdr
  PROVE  Least(n, c, h) = Least(m, d, h)
<1> DEFINE p == [i \in D |-> [car |-> c[i].car, cdr |-> c[i].cdr]]
<1>1. \A k : Heap!Pair(k) = List(k)
  BY DEF Heap!Pair, List
<1>2. \A j \in D : p[j].car = c[j].car /\ p[j].cdr = c[j].cdr
  OBVIOUS
<1>3. DOMAIN p = D
  OBVIOUS
<1> HIDE DEF p
<1>4. Heap!ReachableFrom(h, p) = Least(n, c, h)
  BY <1>1, <1>2, <1>3, ReachIs
<1>5. Heap!ReachableFrom(h, p) = Least(m, d, h)
  BY <1>1, <1>2, <1>3, ReachIs
<1>6. QED BY <1>4, <1>5

\* A collection frees nothing that is marked and moves nothing, so a second
\* mark finds the same cells.
LEMMA RecycleMarks ==
  ASSUME IInv, Recycle
  PROVE  /\ Marked' = Marked
         /\ \A i \in Marked : cells'[i] = cells[i]
         /\ (1 .. nodeCount') \ freeCells' = Marked
         /\ nodeCount' \in {0} \cup Marked
<1> DEFINE top == Max({0} \cup Marked)
<1>1. SweepCells(Marked) /\ UNCHANGED held
  BY DEF Recycle
<1>2. /\ nodeCount \in Nat /\ Marked \subseteq 1 .. nodeCount
      /\ Roots(nodeCount, held, Marked) /\ Follows(nodeCount, cells, Marked)
  BY MarkedClosed, MarkedIsLeast DEF IInv, TypeOK
<1>3. top \in {0} \cup Marked /\ \A i \in Marked : i <= top
  <2>1. {0} \cup Marked \in SUBSET (0 .. nodeCount) /\ {0} \cup Marked # {}
    BY <1>2
  <2>2. QED BY <1>2, <2>1, NatMax
<1>4. /\ nodeCount' = top
      /\ freeCells' = (1 .. top) \ Marked
      /\ cells' = [i \in 1 .. top |-> IF i \in Marked THEN cells[i] ELSE FreeCell]
  BY <1>1 DEF SweepCells
<1> HIDE DEF top
<1>5. top \in Nat /\ top <= nodeCount /\ Marked \subseteq 1 .. top
  BY <1>2, <1>3
<1>6. \A i \in Marked : cells'[i] = cells[i]
  BY <1>4, <1>5
<1>7. Roots(top, held, Marked) /\ Follows(top, cells', Marked)
  BY <1>2, <1>5, <1>6 DEF Roots, Follows
<1>8. Least(nodeCount, cells, held) = Least(top, cells', held)
  BY <1>2, <1>5, <1>6, <1>7, LeastAgrees
<1>9. Marked' = Marked
  BY <1>1, <1>4, <1>8, MarkedIsLeast
<1>10. QED BY <1>3, <1>4, <1>5, <1>6, <1>9

\* What a collection leaves: no unreachable cell or word, no two free entries
\* side by side, and no free block at the edge of either arena.
LEMMA RecycleCompacts ==
  ASSUME IInv, Recycle
  PROVE  Compact'
<1> DEFINE live == MarkedAtoms(Marked)
<1>1. /\ Marked' = Marked /\ \A i \in Marked : cells'[i] = cells[i]
      /\ (1 .. nodeCount') \ freeCells' = Marked /\ nodeCount' \in {0} \cup Marked
  BY RecycleMarks
<1>2. SweepAtoms(live) /\ SweepCells(Marked) /\ held' = held /\ live \subseteq LiveAtoms
  BY DEF Recycle, MarkedAtoms
<1>3. LiveAtoms' = live /\ DOMAIN entrySize' = live \cup RunStarts(live)
      /\ entrySize' = SweptSize(live)
  BY <1>2 DEF SweepAtoms, LiveAtoms, SweptSize
<1>4. \A o \in RunStarts(live) : o \notin live
  BY DEF RunStarts
<1>5. \A o \in FreeAtoms' : o + entrySize'[o] \in LiveAtoms'
  <2> SUFFICES ASSUME NEW o \in RunStarts(live)
               PROVE  o + entrySize'[o] \in live
    BY <1>3, <1>4 DEF FreeAtoms
  <2>1. entrySize'[o] = RunEnd(live, o) - o
    BY <1>3, <1>4 DEF SweptSize
  <2>2. RunEnd(live, o) \in live
    BY <1>2, RunEndFacts
  <2>3. \A q \in DOMAIN entrySize : q \in Nat
    BY MemoryAssumption DEF IInv, TypeOK
  <2>4. RunEnd(live, o) \in Nat /\ o \in Nat
    BY <1>2, <2>2, <2>3 DEF IInv, TypeOK, RunStarts
  <2>5. QED BY <2>1, <2>2, <2>4
<1>6. nodeCount' \notin freeCells'
  <2>1. freeCells' = (1 .. nodeCount') \ Marked
    BY <1>2 DEF SweepCells
  <2>2. QED BY <1>1, <2>1
<1>7. LiveAtoms' = MarkedAtoms(Marked)'
  <2>1. MarkedRefs(Marked)' = MarkedRefs(Marked)
    BY <1>1, <1>2 DEF MarkedRefs, Permanent
  <2>2. MarkedAtoms(Marked)' = {o \in LiveAtoms' : Word(o) \in MarkedRefs(Marked)'}
    BY DEF MarkedAtoms, Word
  <2>3. \A o \in live : Word(o) \in MarkedRefs(Marked)
    BY DEF MarkedAtoms
  <2>4. QED BY <1>3, <2>1, <2>2, <2>3
<1>8. QED BY <1>1, <1>5, <1>6, <1>7 DEF Compact

\* Every collection, from any state the program can reach, collects everything
\* it may and leaves both arenas as tight as they can be.
THEOREM RecycleAlwaysComplete == Spec => RecycleComplete
<1>1. IInv /\ [Next]_vars => [Recycle => Compact']_vars
  BY RecycleCompacts
<1>2. QED BY <1>1, Invariance, PTL DEF Spec, RecycleComplete

-----------------------------------------------------------------------------
(* The abstract store.                                                     *)

\* Every blob word is one mem_blob handed out.
BlobsKnown == \A r \in held : r.kind = "blob" => r \in {BlobRef(b) : b \in Blob}

\* Meaning, and the image of a store, as functions of the names and the cells.
Means(a, r) == IF r.kind = "word" THEN [kind |-> "word", at |-> a[r.at]] ELSE r
PairsOf(a, c, D) == [i \in D |-> [car |-> Means(a, c[i].car), cdr |-> Means(a, c[i].cdr)]]
HoldOf(a, h) == {Means(a, r) : r \in h}

pairsNow == PairsOf(atomName, cells, Marked)
holdNow  == HoldOf(atomName, held)

LEMMA MeansFacts ==
  /\ \A a, r, k : Means(a, r) = List(k) <=> r = List(k)
  /\ \A a, k : Means(a, List(k)) = List(k) /\ Means(a, BlobRef(k)) = BlobRef(k)
  /\ \A a : Means(a, Nil) = Nil /\ Means(a, EmptyList) = EmptyList
  /\ \A a, r : r.kind # "word" => Means(a, r) = r
  /\ \A a, r, b : Means(a, r) = BlobRef(b) => r = BlobRef(b)
  /\ \A k : Heap!Pair(k) = List(k)
  /\ Heap!Nil = Nil /\ Heap!None = EmptyList
  BY DEF Means, List, BlobRef, Nil, EmptyList, Heap!Pair, Heap!Nil, Heap!None

LEMMA HeldBecomes ==
  \A a, g, h : HoldOf(a, g \cup h) = HoldOf(a, g) \cup HoldOf(a, h)
  BY DEF HoldOf

LEMMA PairsAt ==
  ASSUME NEW a, NEW c, NEW D
  PROVE  /\ DOMAIN PairsOf(a, c, D) = D
         /\ \A i \in D : PairsOf(a, c, D)[i] = [car |-> Means(a, c[i].car),
                                                cdr |-> Means(a, c[i].cdr)]
  BY DEF PairsOf

\* The state a step leads to is what the abstract store becomes, with every
\* pair in any closed set of cells.
LEMMA BecomeIs ==
  ASSUME nodeCount' \in Nat, NEW D \in SUBSET (1 .. nodeCount'),
         Roots(nodeCount', held', D), Follows(nodeCount', cells', D),
         NEW p, p = PairsOf(atomName', cells', D),
         NEW h, h = HoldOf(atomName', held')
  PROVE  Heap!Become(p, h)
<1>1. DOMAIN p = D /\ \A i \in D : p[i] = [car |-> Means(atomName', cells'[i].car),
                                          cdr |-> Means(atomName', cells'[i].cdr)]
  BY PairsAt
<1>2. \A j, k \in D : Heap!Pair(k) \in {p[j].car, p[j].cdr}
                         <=> List(k) \in {cells'[j].car, cells'[j].cdr}
  BY <1>1, MeansFacts
<1>3. \A k \in D : Heap!Pair(k) \in h <=> List(k) \in held'
  BY MeansFacts DEF HoldOf
<1>4. /\ Heap!ReachableFrom(h, p) = Least(nodeCount', cells', held')
      /\ Least(nodeCount', cells', held') \subseteq D
  BY <1>1, <1>2, <1>3, ReachIs
<1>5. Heap!ReachableFrom(h, p) = Marked' /\ Marked' \subseteq D
  BY <1>4, MarkedIsLeast
<1>6. [i \in Marked' |-> [car |-> Meaning(cells[i].car)', cdr |-> Meaning(cells[i].cdr)']]
        = [i \in Heap!ReachableFrom(h, p) |-> p[i]]
  BY <1>1, <1>5 DEF Meaning, Means
<1>7. {Meaning(r)' : r \in held'} = h
  BY DEF HoldOf, Meaning, Means
<1>8. QED BY <1>6, <1>7 DEF Heap!Become

\* The abstract store before the step.
LEMMA HeapNow ==
  /\ pairsNow = [i \in Marked |-> [car |-> Meaning(cells[i].car),
                                   cdr |-> Meaning(cells[i].cdr)]]
  /\ holdNow = {Meaning(r) : r \in held}
  BY DEF pairsNow, holdNow, PairsOf, HoldOf, Means, Meaning

-----------------------------------------------------------------------------
(* Each operation, as the abstract store sees it.                          *)

RInv == IInv /\ BlobsKnown

\* Marked, in the form the lemmas above take it.
LEMMA MarkedNow ==
  ASSUME IInv
  PROVE  /\ nodeCount \in Nat /\ Marked \in SUBSET (1 .. nodeCount)
         /\ Roots(nodeCount, held, Marked) /\ Follows(nodeCount, cells, Marked)
         /\ Marked \cap freeCells = {}
         /\ \A k : List(k) \in held => k \in Marked
<1>1. nodeCount \in Nat
  BY DEF IInv, TypeOK
<1>2. Marked \in SUBSET (1 .. nodeCount) /\ Marked \cap freeCells = {} /\ Closed(Marked)
  BY MarkedClosed
<1>3. Roots(nodeCount, held, Marked) /\ Follows(nodeCount, cells, Marked)
  BY <1>1, <1>2, MarkedIsLeast
<1>4. ASSUME NEW k, List(k) \in held PROVE k \in Marked
  <2>1. Valid(List(k)) /\ List(k).kind = "list" /\ List(k).at = k
    BY <1>4 DEF IInv, NoDangling, HeldValid, List
  <2>2. k \in 1 .. nodeCount
    BY <2>1 DEF Valid
  <2>3. QED BY <1>3, <1>4, <2>2 DEF Roots
<1>5. QED BY <1>1, <1>2, <1>3, <1>4

\* What a marked cell stores: valid references, and no blob word.
LEMMA MarkedStores ==
  ASSUME IInv, NEW i \in Marked
  PROVE  /\ Valid(cells[i].car) /\ Valid(cells[i].cdr)
         /\ cells[i].car \in Ref /\ cells[i].cdr \in Ref
         /\ cells[i].car.kind # "blob" /\ cells[i].cdr.kind # "blob"
         /\ cells[i] = [car |-> cells[i].car, cdr |-> cells[i].cdr]
<1>1. i \in (1 .. nodeCount) \ freeCells
  BY MarkedNow
<1>2. cells[i] \in [car : Ref, cdr : Ref]
  BY <1>1 DEF IInv, TypeOK
<1>3. QED BY <1>1, <1>2 DEF IInv, NoDangling, CellsValid

\* The image is unchanged where no word dies and no marked cell is written.
LEMMA SamePairs ==
  ASSUME IInv, NEW live, live \subseteq LiveAtoms,
         \A o \in live : atomName'[o] = atomName[o],
         \A i \in Marked : cells'[i] = cells[i],
         \A i \in Marked : \A r \in {cells[i].car, cells[i].cdr} :
             r.kind = "word" => r.at \in live
  PROVE  PairsOf(atomName', cells', Marked) = pairsNow
<1>1. ASSUME NEW i \in Marked
      PROVE  /\ Means(atomName', cells'[i].car) = Means(atomName, cells[i].car)
             /\ Means(atomName', cells'[i].cdr) = Means(atomName, cells[i].cdr)
  BY DEF Means
<1>2. QED BY <1>1 DEF pairsNow, PairsOf

\* Words that live are spelled as before, in whatever holds them.
LEMMA SameHold ==
  ASSUME NEW live, \A o \in live : atomName'[o] = atomName[o],
         NEW g, \A r \in g : r.kind = "word" => r.at \in live
  PROVE  HoldOf(atomName', g) = HoldOf(atomName, g)
<1>1. \A r \in g : Means(atomName', r) = Means(atomName, r)
  BY DEF Means
<1>2. QED BY <1>1 DEF HoldOf

\* A word is interned: whichever of the three ways, the program holds its
\* spelling, and nothing else changes.
LEMMA WordImplements ==
  ASSUME RInv, NEW n \in Name, NEW o, LiveAtoms \subseteq LiveAtoms',
         \A p \in LiveAtoms : atomName'[p] = atomName[p],
         atomName'[o] = n, held' = held \cup {Word(o)}, UNCHANGED cellVars
  PROVE  Heap!NewWord(n)
<1>1. nodeCount' = nodeCount /\ cells' = cells
  BY DEF cellVars
<1>2. \A k : List(k) \in held' => k \in Marked
  BY MarkedNow DEF RInv, List, Word
<1>3. Roots(nodeCount', held', Marked) /\ Follows(nodeCount', cells', Marked)
  BY <1>1, <1>2, MarkedNow DEF RInv, Roots
<1>4. PairsOf(atomName', cells', Marked) = pairsNow
  <2>1. IInv /\ \A i \in Marked : cells'[i] = cells[i]
    BY <1>1 DEF RInv
  <2>2. \A i \in Marked : \A r \in {cells[i].car, cells[i].cdr} :
           r.kind = "word" => r.at \in LiveAtoms
    BY <2>1, MarkedStores DEF Valid
  <2>3. QED BY <2>1, <2>2, SamePairs
<1>5. HoldOf(atomName', held') = holdNow \cup {Heap!Spelled(n)}
  <2>1. HoldOf(atomName', held) = holdNow
    BY SameHold DEF RInv, IInv, NoDangling, HeldValid, Valid, holdNow
  <2>2. HoldOf(atomName', {Word(o)}) = {Heap!Spelled(n)}
    BY DEF HoldOf, Means, Word, Heap!Spelled
  <2>3. QED BY <2>1, <2>2, HeldBecomes
<1>6. Heap!Become(pairsNow, holdNow \cup {Heap!Spelled(n)})
  BY <1>1, <1>3, <1>4, <1>5, MarkedNow, BecomeIs DEF RInv
<1>7. QED BY <1>6, HeapNow DEF Heap!NewWord

LEMMA InternImplements ==
  ASSUME RInv, NEW n \in Name, Intern(n)
  PROVE  Heap!NewWord(n)
<1>1. CASE InternFound(n)
  <2>1. PICK o \in Found(n) : held' = held \cup {Word(o)}
    BY <1>1 DEF InternFound
  <2>2. atomName' = atomName /\ UNCHANGED cellVars /\ atomName[o] = n /\ LiveAtoms' = LiveAtoms
    BY <1>1, <2>1 DEF InternFound, atomVars, Found, LiveAtoms
  <2>3. QED BY <2>1, <2>2, WordImplements
<1>2. ASSUME NEW o, o \notin LiveAtoms, Enter(n, o)
      PROVE  Heap!NewWord(n)
  <2>1. /\ atomName' = [p \in LiveAtoms \cup {o} |-> IF p = o THEN n ELSE atomName[p]]
        /\ held' = held \cup {Word(o)} /\ UNCHANGED cellVars
    BY <1>2 DEF Enter
  <2>2. LiveAtoms' = LiveAtoms \cup {o} /\ atomName'[o] = n
        /\ \A p \in LiveAtoms : atomName'[p] = atomName[p]
    BY <1>2, <2>1 DEF LiveAtoms
  <2>3. QED BY <2>1, <2>2, WordImplements
<1>3. CASE InternReuse(n)
  <2>1. PICK bin \in Bin : \E o \in bins[bin] : Enter(n, o)
    BY <1>3 DEF InternReuse
  <2>2. PICK o \in bins[bin] : Enter(n, o)
    BY <2>1
  <2>3. o \notin LiveAtoms
    BY DEF RInv, IInv, AtomsIndexed, Indexed, FreeAtoms
  <2>4. QED BY <1>2, <2>2, <2>3
<1>4. CASE InternExtend(n)
  <2>1. Enter(n, atomNext)
    BY <1>4 DEF InternExtend
  <2>2. atomNext \notin LiveAtoms
    <3>1. SUFFICES ASSUME atomNext \in LiveAtoms PROVE FALSE
      OBVIOUS
    <3>2. atomNext \in DOMAIN entrySize /\ entrySize[atomNext] \in 1 .. AtomLimit
          /\ atomNext + entrySize[atomNext] <= atomNext /\ atomNext \in Nat
      BY <3>1 DEF RInv, IInv, TypeOK, TableSound, TableTiled
    <3>3. QED BY <3>2
  <2>3. QED BY <1>2, <2>1, <2>2
<1>5. QED BY <1>1, <1>3, <1>4 DEF Intern

\* Where words and cells stay put, what is held may change freely: the cells
\* marked so far are still closed if every new reference leads into them.
LEMMA HeldImplements ==
  ASSUME RInv, UNCHANGED <<atomVars, cellVars>>,
         \A k : List(k) \in held' => k \in Marked
  PROVE  Heap!Become(pairsNow, HoldOf(atomName, held'))
<1>1. nodeCount' = nodeCount /\ cells' = cells /\ atomName' = atomName
  BY DEF cellVars, atomVars
<1>2. Roots(nodeCount', held', Marked) /\ Follows(nodeCount', cells', Marked)
  BY <1>1, MarkedNow DEF RInv, Roots
<1>3. QED BY <1>1, <1>2, MarkedNow, BecomeIs DEF RInv, pairsNow

\* What a marked cell leads to is marked.
LEMMA MarkedFollows ==
  ASSUME IInv, NEW i \in Marked, NEW k, List(k) \in {cells[i].car, cells[i].cdr}
  PROVE  k \in Marked
<1>1. Valid(List(k)) /\ List(k).kind = "list" /\ List(k).at = k
  BY MarkedStores DEF List
<1>2. k \in 1 .. nodeCount
  BY <1>1 DEF Valid
<1>3. QED BY <1>2, MarkedNow DEF Follows

\* mem_car and mem_cdr hand over what the pair holds.
LEMMA FetchImplements ==
  ASSUME RInv, NEW i \in HeldCells, Fetch(i)
  PROVE  i \in DOMAIN pairsNow /\ Heap!Pair(i) \in holdNow /\ Heap!Take(i)
<1>1. /\ held' = held \cup {cells[i].car, cells[i].cdr}
      /\ UNCHANGED <<atomVars, cellVars>>
  BY DEF Fetch
<1>2. i \in Marked /\ List(i) \in held
  BY MarkedNow DEF HeldCells, RInv
<1>3. \A k : List(k) \in held' => k \in Marked
  BY <1>1, <1>2, MarkedNow, MarkedFollows DEF RInv
<1>4. Heap!Become(pairsNow, HoldOf(atomName, held'))
  BY <1>1, <1>3, HeldImplements
<1>5. pairsNow[i] = [car |-> Means(atomName, cells[i].car), cdr |-> Means(atomName, cells[i].cdr)]
      /\ i \in DOMAIN pairsNow
  BY <1>2, PairsAt DEF pairsNow
<1>6. HoldOf(atomName, held') = holdNow \cup {pairsNow[i].car, pairsNow[i].cdr}
  <2>1. HoldOf(atomName, {cells[i].car, cells[i].cdr}) = {pairsNow[i].car, pairsNow[i].cdr}
    BY <1>5 DEF HoldOf
  <2>2. QED BY <1>1, <2>1, HeldBecomes DEF holdNow
<1>7. Heap!Pair(i) \in holdNow
  BY <1>2, MeansFacts DEF holdNow, HoldOf
<1>8. QED BY <1>4, <1>5, <1>6, <1>7, HeapNow DEF Heap!Take

\* mem_blob hands over a word no cell can hold.
LEMMA HoldBlobImplements ==
  ASSUME RInv, NEW b \in Blob, HoldBlob(b)
  PROVE  Heap!Give(BlobRef(b))
<1>1. held' = held \cup {BlobRef(b)} /\ UNCHANGED <<atomVars, cellVars>>
  BY DEF HoldBlob
<1>2. \A k : List(k) \in held' => k \in Marked
  BY <1>1, MarkedNow DEF RInv, List, BlobRef
<1>3. Heap!Become(pairsNow, HoldOf(atomName, held'))
  BY <1>1, <1>2, HeldImplements
<1>4. HoldOf(atomName, held') = holdNow \cup {BlobRef(b)}
  <2>1. HoldOf(atomName, {BlobRef(b)}) = {BlobRef(b)}
    BY MeansFacts DEF HoldOf
  <2>2. QED BY <1>1, <2>1, HeldBecomes DEF holdNow
<1>5. QED BY <1>3, <1>4, HeapNow DEF Heap!Give

\* Two references the program holds mean the same only if they are the same:
\* no word is interned twice.
LEMMA MeaningTells ==
  ASSUME RInv, NEW q \in held, NEW r \in held, Means(atomName, q) = Means(atomName, r)
  PROVE  q = r
<1>1. q \in Ref /\ r \in Ref /\ Valid(q) /\ Valid(r)
  BY DEF RInv, IInv, TypeOK, NoDangling, HeldValid
<1>2. CASE q.kind = "word" /\ r.kind = "word"
  <2>1. atomName[q.at] = atomName[r.at] /\ q.at \in LiveAtoms /\ r.at \in LiveAtoms
    BY <1>1, <1>2 DEF Means, Valid
  <2>2. q.at = r.at
    BY <2>1 DEF RInv, IInv, AtomsIndexed, InternedOnce
  <2>3. QED BY <1>1, <1>2, <2>2 DEF Ref
<1>3. CASE q.kind # "word" /\ r.kind # "word"
  BY <1>3 DEF Means
<1>4. CASE q.kind = "word" /\ r.kind # "word"
  <2>1. Means(atomName, q).kind = "word" /\ Means(atomName, r) = r
    BY <1>4 DEF Means
  <2>2. QED BY <1>4, <2>1
<1>5. CASE q.kind # "word" /\ r.kind = "word"
  <2>1. Means(atomName, r).kind = "word" /\ Means(atomName, q) = q
    BY <1>5 DEF Means
  <2>2. QED BY <1>5, <2>1
<1>6. QED BY <1>2, <1>3, <1>4, <1>5

\* A reference the program gives up is one value it no longer holds.
LEMMA DropImplements ==
  ASSUME RInv, NEW r \in held, Drop(r)
  PROVE  Means(atomName, r) \in holdNow /\ Heap!Release(Means(atomName, r))
<1>1. held' = held \ {r} /\ UNCHANGED <<atomVars, cellVars>>
  BY DEF Drop
<1>2. \A k : List(k) \in held' => k \in Marked
  BY <1>1, MarkedNow DEF RInv
<1>3. Heap!Become(pairsNow, HoldOf(atomName, held'))
  BY <1>1, <1>2, HeldImplements
<1>4. HoldOf(atomName, held') = holdNow \ {Means(atomName, r)}
  BY <1>1, MeaningTells DEF holdNow, HoldOf
<1>5. Means(atomName, r) \in holdNow
  BY DEF holdNow, HoldOf
<1>6. QED BY <1>3, <1>4, <1>5, HeapNow DEF Heap!Release

\* A collection is no step of the abstract store: what is held means what it
\* did, and every pair that can be reached holds what it held.
LEMMA RecycleStutters ==
  ASSUME RInv, Recycle
  PROVE  UNCHANGED Heap!vars
<1> DEFINE live == MarkedAtoms(Marked)
<1>1. /\ Marked' = Marked /\ held' = held
      /\ \A i \in Marked : cells'[i] = cells[i]
  BY RecycleMarks DEF RInv, Recycle
<1>2. live \subseteq LiveAtoms /\ \A o \in live : atomName'[o] = atomName[o]
  BY DEF Recycle, SweepAtoms, MarkedAtoms
<1>3. \A r \in MarkedRefs(Marked) : r.kind = "word" => r.at \in live
  <2> SUFFICES ASSUME NEW r \in MarkedRefs(Marked), r.kind = "word" PROVE r.at \in live
    OBVIOUS
  <2>1. r.at \in LiveAtoms
    BY MarkedRefsReached DEF RInv
  <2>2. r \in Ref
    BY MarkedStores, SizeTypes DEF MarkedRefs, RInv, IInv, TypeOK
  <2>3. r = Word(r.at)
    BY <2>2 DEF Ref, Word
  <2>4. QED BY <2>1, <2>3 DEF MarkedAtoms
<1>4. \A i \in Marked : \A r \in {cells[i].car, cells[i].cdr} : r.kind = "word" => r.at \in live
  BY <1>3 DEF MarkedRefs
<1>5. PairsOf(atomName', cells', Marked) = pairsNow
  BY <1>1, <1>2, <1>4, SamePairs DEF RInv
<1>6. HoldOf(atomName', held) = holdNow
  BY <1>2, <1>3, SameHold DEF MarkedRefs, holdNow
<1>7. [i \in Marked' |-> [car |-> Meaning(cells[i].car)', cdr |-> Meaning(cells[i].cdr)']]
        = PairsOf(atomName', cells', Marked)
  BY <1>1 DEF PairsOf, Meaning, Means
<1>8. {Meaning(r)' : r \in held'} = HoldOf(atomName', held)
  BY <1>1 DEF HoldOf, Meaning, Means
<1>9. QED BY <1>5, <1>6, <1>7, <1>8, HeapNow DEF Heap!vars

\* A value the program can pass, to the abstract store: what it means is one
\* the abstract store can pass, and storing one stores the other.
LEMMA OperandMeans ==
  ASSUME RInv, NEW r \in Operand
  PROVE  /\ Means(atomName, r) \in holdNow \cup {Heap!Nil, Heap!None}
         /\ NodeToIndex(r) = r => Means(atomName, r) \notin {BlobRef(b) : b \in Blob}
         /\ Means(atomName, NodeToIndex(r))
              = IF Means(atomName, r) \in {BlobRef(b) : b \in Blob} THEN Heap!Nil
                ELSE Means(atomName, r)
         /\ \A k : List(k) = r => k \in Marked
         /\ NodeToIndex(r).kind = "word" => NodeToIndex(r).at \in LiveAtoms
         /\ \A k : List(k) = NodeToIndex(r) => k \in Marked
<1>1. r \in held \/ r \in {Nil, EmptyList}
  BY LiteralAssumption DEF Operand
<1>2. Means(atomName, r) \in holdNow \cup {Heap!Nil, Heap!None}
  BY <1>1, MeansFacts DEF holdNow, HoldOf
<1>3. r.kind = "blob" => r \in {BlobRef(b) : b \in Blob}
  BY <1>1 DEF RInv, BlobsKnown, Nil, EmptyList
<1>4. Means(atomName, r) \in {BlobRef(b) : b \in Blob} <=> r.kind = "blob"
  <2>1. CASE r.kind = "blob"
    BY <1>3, <2>1 DEF Means
  <2>2. CASE r.kind # "blob"
    <3>1. \A b : BlobRef(b).kind = "blob"
      BY DEF BlobRef
    <3>2. QED BY <2>2, <3>1, MeansFacts
  <2>3. QED BY <2>1, <2>2
<1>5. NodeToIndex(r) = r => r.kind # "blob"
  BY DEF NodeToIndex, Nil
<1>6. Means(atomName, NodeToIndex(r))
        = IF r.kind = "blob" THEN Heap!Nil ELSE Means(atomName, r)
  BY MeansFacts DEF NodeToIndex
<1>7. \A k : List(k) = r => k \in Marked
  BY <1>1, MarkedNow DEF RInv, List, Nil, EmptyList
<1>8. NodeToIndex(r).kind = "word" => NodeToIndex(r).at \in LiveAtoms
  BY OperandValid DEF RInv, Valid
<1>9. \A k : List(k) = NodeToIndex(r) => k \in Marked
  BY <1>7 DEF NodeToIndex, List, Nil
<1>10. QED BY <1>2, <1>4, <1>5, <1>6, <1>7, <1>8, <1>9

\* alloc_cell hands out a cell no reachable pair occupies; every cell marked
\* keeps its place.
LEMMA AllocMarks ==
  ASSUME RInv, NEW i, AllocCell(i), UNCHANGED atomVars
  PROVE  /\ nodeCount' \in Nat /\ i \in 1 .. nodeCount' /\ i \in 1 .. MaxListIndex
         /\ i \notin Marked
         /\ Marked \cup {i} \in SUBSET (1 .. nodeCount')
<1>1. /\ nodeCount' \in 0 .. MaxListIndex /\ i \in 1 .. nodeCount'
      /\ i \notin (1 .. nodeCount) \ freeCells
      /\ (1 .. nodeCount') \ freeCells' = ((1 .. nodeCount) \ freeCells) \cup {i}
  BY AllocFresh DEF RInv
<1>2. Marked \subseteq (1 .. nodeCount) \ freeCells
  BY MarkedNow DEF RInv
<1>3. MaxListIndex \in Nat
  BY MemoryAssumption
<1>4. QED BY <1>1, <1>2, <1>3

\* mem_cons makes one new pair.
LEMMA ConsImplements ==
  ASSUME RInv, NEW car \in Operand, NEW cdr \in Operand, Cons(car, cdr)
  PROVE  Heap!NewPair(Means(atomName, car), Means(atomName, cdr), {})
<1>1. PICK i \in 1 .. nodeCount + 1 :
        /\ AllocCell(i)
        /\ cells' = [j \in 1 .. nodeCount' |->
                       IF j = i THEN [car |-> car, cdr |-> cdr] ELSE cells[j]]
        /\ held' = held \cup {List(i)}
  BY DEF Cons
<1>2. UNCHANGED atomVars /\ atomName' = atomName
  BY DEF Cons, atomVars
<1>3. /\ nodeCount' \in Nat /\ i \in 1 .. nodeCount' /\ i \in 1 .. MaxListIndex
      /\ i \notin Marked /\ Marked \cup {i} \in SUBSET (1 .. nodeCount')
  BY <1>1, <1>2, AllocMarks
<1>4. cells'[i] = [car |-> car, cdr |-> cdr] /\ \A j \in Marked : cells'[j] = cells[j]
  BY <1>1, <1>3
<1>5. Roots(nodeCount', held', Marked \cup {i})
  <2>1. \A k : List(k) = List(i) => k = i
    BY DEF List
  <2>2. QED BY <1>1, <2>1, MarkedNow DEF Roots, RInv
<1>6. Follows(nodeCount', cells', Marked \cup {i})
  <2>1. ASSUME NEW j \in Marked \cup {i}, NEW k, List(k) \in {cells'[j].car, cells'[j].cdr}
        PROVE  k \in Marked
    BY <1>4, <2>1, OperandMeans, MarkedFollows DEF RInv
  <2>2. QED BY <2>1 DEF Follows
<1> DEFINE p == [j \in Marked \cup {i} |->
                   IF j = i THEN [car |-> Means(atomName, car), cdr |-> Means(atomName, cdr)]
                   ELSE IF j \in {} THEN [pairsNow[j] EXCEPT !.cdr = Heap!Pair(i)]
                   ELSE pairsNow[j]]
<1>7. p = PairsOf(atomName', cells', Marked \cup {i})
  <2>1. \A j \in Marked : pairsNow[j] = [car |-> Means(atomName, cells[j].car),
                                         cdr |-> Means(atomName, cells[j].cdr)]
    BY PairsAt DEF pairsNow
  <2>2. QED BY <1>2, <1>3, <1>4, <2>1 DEF PairsOf
<1> HIDE DEF p
<1>8. HoldOf(atomName', held') = holdNow \cup {Heap!Pair(i)}
  <2>1. HoldOf(atomName, {List(i)}) = {Heap!Pair(i)}
    BY MeansFacts DEF HoldOf
  <2>2. QED BY <1>1, <1>2, <2>1, HeldBecomes DEF holdNow
<1>9. Heap!Become(p, holdNow \cup {Heap!Pair(i)})
  BY <1>3, <1>5, <1>6, <1>7, <1>8, BecomeIs
<1>10. DOMAIN pairsNow = Marked
  BY PairsAt DEF pairsNow
<1>11. i \in (1 .. MaxListIndex) \ DOMAIN pairsNow
  BY <1>3, <1>10
<1>12. QED BY <1>9, <1>11, <1>10, Zenon DEF Heap!NewPair, p, pairsNow, holdNow, PairsOf, HoldOf,
                                        Means, Meaning

\* mem_list_append makes one new pair and links it after the tail.
LEMMA ListAppendImplements ==
  ASSUME RInv, NEW tail \in HeldCells, NEW item \in Operand, ListAppend(tail, item)
  PROVE  Heap!NewPair(Means(atomName, item), Heap!Nil, {tail})
<1>1. PICK i \in 1 .. nodeCount + 1 :
        /\ AllocCell(i)
        /\ cells' = [j \in 1 .. nodeCount' |->
                       IF j = i THEN [car |-> item, cdr |-> Nil]
                       ELSE IF j = tail THEN [cells[j] EXCEPT !.cdr = List(i)]
                       ELSE cells[j]]
        /\ held' = held \cup {List(i)}
  BY DEF ListAppend
<1>2. UNCHANGED atomVars /\ atomName' = atomName
  BY DEF ListAppend, atomVars
<1>3. /\ nodeCount' \in Nat /\ i \in 1 .. nodeCount' /\ i \in 1 .. MaxListIndex
      /\ i \notin Marked /\ Marked \cup {i} \in SUBSET (1 .. nodeCount')
  BY <1>1, <1>2, AllocMarks
<1>4. tail \in Marked
  BY MarkedNow DEF HeldCells, RInv
<1>5. /\ cells'[i] = [car |-> item, cdr |-> Nil]
      /\ cells'[tail] = [car |-> cells[tail].car, cdr |-> List(i)]
      /\ \A j \in Marked : j # tail => cells'[j] = cells[j]
  <2>1. cells[tail] = [car |-> cells[tail].car, cdr |-> cells[tail].cdr]
    BY <1>4, MarkedStores DEF RInv
  <2>2. [cells[tail] EXCEPT !.cdr = List(i)] = [car |-> cells[tail].car, cdr |-> List(i)]
    BY <2>1
  <2>3. QED BY <1>1, <1>3, <1>4, <2>2
<1>6. Roots(nodeCount', held', Marked \cup {i})
  <2>1. \A k : List(k) = List(i) => k = i
    BY DEF List
  <2>2. QED BY <1>1, <2>1, MarkedNow DEF Roots, RInv
<1>7. Follows(nodeCount', cells', Marked \cup {i})
  <2>1. ASSUME NEW j \in Marked \cup {i}, NEW k, List(k) \in {cells'[j].car, cells'[j].cdr}
        PROVE  k \in Marked \cup {i}
    <3>1. CASE j = i
      BY <1>5, <2>1, <3>1, OperandMeans DEF List, Nil
    <3>2. CASE j = tail
      <4>1. List(k) = cells[tail].car \/ List(k) = List(i)
        BY <1>5, <2>1, <3>2
      <4>2. List(k) = List(i) => k = i
        BY DEF List
      <4>3. QED BY <1>4, <4>1, <4>2, MarkedFollows DEF RInv
    <3>3. CASE j # i /\ j # tail
      BY <1>5, <2>1, <3>3, MarkedFollows DEF RInv
    <3>4. QED BY <3>1, <3>2, <3>3
  <2>2. QED BY <2>1 DEF Follows
<1> DEFINE p == [j \in Marked \cup {i} |->
                   IF j = i THEN [car |-> Means(atomName, item), cdr |-> Heap!Nil]
                   ELSE IF j \in {tail} THEN [pairsNow[j] EXCEPT !.cdr = Heap!Pair(i)]
                   ELSE pairsNow[j]]
<1>8. p = PairsOf(atomName', cells', Marked \cup {i})
  <2>1. \A j \in Marked : pairsNow[j] = [car |-> Means(atomName, cells[j].car),
                                         cdr |-> Means(atomName, cells[j].cdr)]
    BY PairsAt DEF pairsNow
  <2>2. [pairsNow[tail] EXCEPT !.cdr = Heap!Pair(i)]
          = [car |-> Means(atomName, cells'[tail].car), cdr |-> Means(atomName, cells'[tail].cdr)]
    <3>1. pairsNow[tail] = [car |-> Means(atomName, cells[tail].car),
                            cdr |-> Means(atomName, cells[tail].cdr)]
      BY <1>4, <2>1
    <3>2. [pairsNow[tail] EXCEPT !.cdr = Heap!Pair(i)]
            = [car |-> Means(atomName, cells[tail].car), cdr |-> Heap!Pair(i)]
      BY <3>1
    <3>3. cells'[tail].car = cells[tail].car /\ Means(atomName, cells'[tail].cdr) = Heap!Pair(i)
      BY <1>5, MeansFacts
    <3>4. QED BY <3>2, <3>3, Zenon
  <2>3. \A j \in Marked \cup {i} : p[j] = [car |-> Means(atomName, cells'[j].car),
                                           cdr |-> Means(atomName, cells'[j].cdr)]
    BY <1>3, <1>4, <1>5, <2>1, <2>2, MeansFacts
  <2>4. QED BY <1>2, <2>3 DEF PairsOf
<1> HIDE DEF p
<1>9. HoldOf(atomName', held') = holdNow \cup {Heap!Pair(i)}
  <2>1. HoldOf(atomName, {List(i)}) = {Heap!Pair(i)}
    BY MeansFacts DEF HoldOf
  <2>2. QED BY <1>1, <1>2, <2>1, HeldBecomes DEF holdNow
<1>10. Heap!Become(p, holdNow \cup {Heap!Pair(i)})
  BY <1>3, <1>6, <1>7, <1>8, <1>9, BecomeIs
<1>11. DOMAIN pairsNow = Marked
  BY PairsAt DEF pairsNow
<1>12. i \in (1 .. MaxListIndex) \ DOMAIN pairsNow
  BY <1>3, <1>11
<1>13. QED BY <1>10, <1>12, <1>11, Zenon DEF Heap!NewPair, p, pairsNow, holdNow, PairsOf, HoldOf,
                                        Means, Meaning

\* mem_set_car and mem_set_cdr write one half of one pair, a blob word as NIL.
LEMMA SetImplements ==
  ASSUME RInv, NEW i \in HeldCells, NEW value \in Operand
  PROVE  /\ i \in DOMAIN pairsNow /\ Heap!Pair(i) \in holdNow
         /\ SetCar(i, value) => Heap!SetFirst(i, Means(atomName, value))
         /\ SetCdr(i, value) => Heap!SetRest(i, Means(atomName, value))
<1>1. i \in Marked /\ List(i) \in held /\ i \in 1 .. nodeCount
  BY MarkedNow DEF HeldCells, RInv
<1>2. DOMAIN pairsNow = Marked /\ \A j \in Marked :
         pairsNow[j] = [car |-> Means(atomName, cells[j].car), cdr |-> Means(atomName, cells[j].cdr)]
  BY PairsAt DEF pairsNow
<1>3. Heap!Pair(i) \in holdNow
  BY <1>1, MeansFacts DEF holdNow, HoldOf
<1>4. Heap!Stored(Means(atomName, value)) = Means(atomName, NodeToIndex(value))
  BY OperandMeans DEF Heap!Stored
<1>5. cells[i] = [car |-> cells[i].car, cdr |-> cells[i].cdr] /\ DOMAIN cells = 1 .. nodeCount
  BY <1>1, MarkedStores DEF RInv, IInv, TypeOK
<1>6. ASSUME SetCar(i, value) PROVE Heap!SetFirst(i, Means(atomName, value))
  <2>1. /\ cells' = [cells EXCEPT ![i].car = NodeToIndex(value)]
        /\ nodeCount' = nodeCount /\ held' = held /\ atomName' = atomName
    BY <1>6 DEF SetCar, atomVars
  <2>2. /\ cells'[i] = [car |-> NodeToIndex(value), cdr |-> cells[i].cdr]
        /\ \A j \in Marked : j # i => cells'[j] = cells[j]
    BY <1>1, <1>5, <2>1, MarkedNow DEF RInv
  <2>3. Roots(nodeCount', held', Marked)
    BY <2>1, MarkedNow DEF RInv
  <2>4. Follows(nodeCount', cells', Marked)
    <3>1. ASSUME NEW j \in Marked, NEW k, List(k) \in {cells'[j].car, cells'[j].cdr}
          PROVE  k \in Marked
      BY <2>2, <3>1, OperandMeans, MarkedFollows DEF RInv
    <3>2. QED BY <3>1 DEF Follows
  <2>5. [pairsNow EXCEPT ![i].car = Heap!Stored(Means(atomName, value))]
          = PairsOf(atomName', cells', Marked)
    <3> DEFINE g == PairsOf(atomName', cells', Marked)
    <3>1. g = [j \in Marked |-> g[j]] /\ \A j \in Marked :
            g[j] = [car |-> Means(atomName', cells'[j].car), cdr |-> Means(atomName', cells'[j].cdr)]
      BY PairsAt DEF PairsOf
    <3>2. pairsNow = [j \in Marked |-> pairsNow[j]]
      BY DEF pairsNow, PairsOf
    <3> HIDE DEF g
    <3>3. \A j \in Marked : j # i => g[j] = pairsNow[j]
      BY <1>2, <2>1, <2>2, <3>1
    <3>4. /\ pairsNow[i] = [car |-> Means(atomName, cells[i].car), cdr |-> Means(atomName, cells[i].cdr)]
          /\ g[i] = [car |-> Heap!Stored(Means(atomName, value)), cdr |-> Means(atomName, cells[i].cdr)]
      BY <1>1, <1>2, <1>4, <2>1, <2>2, <3>1
    <3>5. [pairsNow EXCEPT ![i].car = Heap!Stored(Means(atomName, value))] = g
      <4>1. [pairsNow[i] EXCEPT !.car = Heap!Stored(Means(atomName, value))] = g[i]
        <5>1. [pairsNow[i] EXCEPT !.car = Heap!Stored(Means(atomName, value))]
                = [car |-> Heap!Stored(Means(atomName, value)), cdr |-> Means(atomName, cells[i].cdr)]
          BY <3>4
        <5>2. QED BY <3>4, <5>1, Zenon
      <4>2. [pairsNow EXCEPT ![i].car = Heap!Stored(Means(atomName, value))]
              = [pairsNow EXCEPT ![i] = [pairsNow[i] EXCEPT !.car = Heap!Stored(Means(atomName, value))]]
        OBVIOUS
      <4>3. [pairsNow EXCEPT ![i] = g[i]] = g
        BY <1>1, <3>1, <3>2, <3>3
      <4>4. QED BY <4>1, <4>2, <4>3, Zenon
    <3>6. QED BY <3>5 DEF g
  <2>6. HoldOf(atomName', held') = holdNow
    BY <2>1 DEF holdNow
  <2>7. Heap!Become([pairsNow EXCEPT ![i].car = Heap!Stored(Means(atomName, value))], holdNow)
    BY <2>1, <2>3, <2>4, <2>5, <2>6, MarkedNow, BecomeIs DEF RInv
  <2>8. QED BY <2>7, HeapNow DEF Heap!SetFirst
<1>7. ASSUME SetCdr(i, value) PROVE Heap!SetRest(i, Means(atomName, value))
  <2>1. /\ cells' = [cells EXCEPT ![i].cdr = NodeToIndex(value)]
        /\ nodeCount' = nodeCount /\ held' = held /\ atomName' = atomName
    BY <1>7 DEF SetCdr, atomVars
  <2>2. /\ cells'[i] = [car |-> cells[i].car, cdr |-> NodeToIndex(value)]
        /\ \A j \in Marked : j # i => cells'[j] = cells[j]
    BY <1>1, <1>5, <2>1, MarkedNow DEF RInv
  <2>3. Roots(nodeCount', held', Marked)
    BY <2>1, MarkedNow DEF RInv
  <2>4. Follows(nodeCount', cells', Marked)
    <3>1. ASSUME NEW j \in Marked, NEW k, List(k) \in {cells'[j].car, cells'[j].cdr}
          PROVE  k \in Marked
      BY <2>2, <3>1, OperandMeans, MarkedFollows DEF RInv
    <3>2. QED BY <3>1 DEF Follows
  <2>5. [pairsNow EXCEPT ![i].cdr = Heap!Stored(Means(atomName, value))]
          = PairsOf(atomName', cells', Marked)
    <3> DEFINE g == PairsOf(atomName', cells', Marked)
    <3>1. g = [j \in Marked |-> g[j]] /\ \A j \in Marked :
            g[j] = [car |-> Means(atomName', cells'[j].car), cdr |-> Means(atomName', cells'[j].cdr)]
      BY PairsAt DEF PairsOf
    <3>2. pairsNow = [j \in Marked |-> pairsNow[j]]
      BY DEF pairsNow, PairsOf
    <3> HIDE DEF g
    <3>3. \A j \in Marked : j # i => g[j] = pairsNow[j]
      BY <1>2, <2>1, <2>2, <3>1
    <3>4. /\ pairsNow[i] = [car |-> Means(atomName, cells[i].car), cdr |-> Means(atomName, cells[i].cdr)]
          /\ g[i] = [car |-> Means(atomName, cells[i].car), cdr |-> Heap!Stored(Means(atomName, value))]
      BY <1>1, <1>2, <1>4, <2>1, <2>2, <3>1
    <3>5. [pairsNow EXCEPT ![i].cdr = Heap!Stored(Means(atomName, value))] = g
      <4>1. [pairsNow[i] EXCEPT !.cdr = Heap!Stored(Means(atomName, value))] = g[i]
        <5>1. [pairsNow[i] EXCEPT !.cdr = Heap!Stored(Means(atomName, value))]
                = [car |-> Means(atomName, cells[i].car), cdr |-> Heap!Stored(Means(atomName, value))]
          BY <3>4
        <5>2. QED BY <3>4, <5>1, Zenon
      <4>2. [pairsNow EXCEPT ![i].cdr = Heap!Stored(Means(atomName, value))]
              = [pairsNow EXCEPT ![i] = [pairsNow[i] EXCEPT !.cdr = Heap!Stored(Means(atomName, value))]]
        OBVIOUS
      <4>3. [pairsNow EXCEPT ![i] = g[i]] = g
        BY <1>1, <3>1, <3>2, <3>3
      <4>4. QED BY <4>1, <4>2, <4>3, Zenon
    <3>6. QED BY <3>5 DEF g
  <2>6. HoldOf(atomName', held') = holdNow
    BY <2>1 DEF holdNow
  <2>7. Heap!Become([pairsNow EXCEPT ![i].cdr = Heap!Stored(Means(atomName, value))], holdNow)
    BY <2>1, <2>3, <2>4, <2>5, <2>6, MarkedNow, BecomeIs DEF RInv
  <2>8. QED BY <2>7, HeapNow DEF Heap!SetRest
<1>8. QED BY <1>1, <1>2, <1>3, <1>6, <1>7

-----------------------------------------------------------------------------
(* The refinement.                                                         *)

LEMMA BlobsStayKnown == RInv /\ [Next]_vars => BlobsKnown'
<1> SUFFICES ASSUME RInv, [Next]_vars PROVE BlobsKnown'
  OBVIOUS
<1>1. ASSUME \A r \in held' : r \in held \/ r.kind # "blob" PROVE BlobsKnown'
  BY <1>1 DEF RInv, BlobsKnown
<1>2. \A o, i : Word(o).kind # "blob" /\ List(i).kind # "blob"
  BY DEF Word, List
<1>3. ASSUME NEW n \in Spoken, Intern(n) PROVE BlobsKnown'
  <2>1. \E o : held' = held \cup {Word(o)}
    BY <1>3 DEF Intern, InternFound, InternReuse, InternExtend, Enter
  <2>2. QED BY <1>1, <1>2, <2>1
<1>4. ASSUME NEW car \in Operand, NEW cdr \in Operand, Cons(car, cdr) PROVE BlobsKnown'
  <2>1. \E i : held' = held \cup {List(i)}
    BY <1>4 DEF Cons
  <2>2. QED BY <1>1, <1>2, <2>1
<1>5. ASSUME NEW i \in HeldCells, NEW item \in Operand, ListAppend(i, item) PROVE BlobsKnown'
  <2>1. \E j : held' = held \cup {List(j)}
    BY <1>5 DEF ListAppend
  <2>2. QED BY <1>1, <1>2, <2>1
<1>6. ASSUME NEW i \in HeldCells, NEW value \in Operand, SetCar(i, value) \/ SetCdr(i, value)
      PROVE  BlobsKnown'
  BY <1>1, <1>6 DEF SetCar, SetCdr
<1>7. ASSUME NEW i \in HeldCells, Fetch(i) PROVE BlobsKnown'
  <2>1. cells[i].car.kind # "blob" /\ cells[i].cdr.kind # "blob"
    BY MarkedNow, MarkedStores DEF HeldCells, RInv
  <2>2. QED BY <1>1, <1>7, <2>1 DEF Fetch
<1>8. ASSUME NEW b \in Blob, HoldBlob(b) PROVE BlobsKnown'
  BY <1>8 DEF RInv, BlobsKnown, HoldBlob
<1>9. ASSUME NEW r \in held, Drop(r) PROVE BlobsKnown'
  BY <1>1, <1>9 DEF Drop
<1>10. CASE Recycle
  BY <1>1, <1>10 DEF Recycle
<1>11. CASE UNCHANGED vars
  BY <1>1, <1>11 DEF vars
<1>12. QED
  BY <1>3, <1>4, <1>5, <1>6, <1>7, <1>8, <1>9, <1>10, <1>11 DEF Next

\* Every step of the store is a step of the abstract one, or none of it.
LEMMA StepImplements == RInv /\ [Next]_vars => [Heap!Next]_(Heap!vars)
<1> SUFFICES ASSUME RInv, [Next]_vars PROVE Heap!Next \/ UNCHANGED Heap!vars
  OBVIOUS
<1> DEFINE hp == [i \in Marked |-> [car |-> Meaning(cells[i].car), cdr |-> Meaning(cells[i].cdr)]]
           hh == {Meaning(r) : r \in held}
<1>1. pairsNow = hp /\ holdNow = hh
  BY HeapNow
<1> HIDE DEF hp, hh
<1> DEFINE Unstored == {BlobRef(b) : b \in Blob}
           Value == hh \cup {Heap!Nil, Heap!None}
<1>2. Heap!Next <=>
        \/ \E n \in Name : Heap!NewWord(n)
        \/ \E car, cdr \in Value \ Unstored : Heap!NewPair(car, cdr, {})
        \/ \E i \in DOMAIN hp, v \in Value \ Unstored :
             Heap!Pair(i) \in hh /\ Heap!NewPair(v, Heap!Nil, {i})
        \/ \E i \in DOMAIN hp, v \in Value : Heap!Pair(i) \in hh /\ Heap!SetFirst(i, v)
        \/ \E i \in DOMAIN hp, v \in Value : Heap!Pair(i) \in hh /\ Heap!SetRest(i, v)
        \/ \E i \in DOMAIN hp : Heap!Pair(i) \in hh /\ Heap!Take(i)
        \/ \E v \in Unstored : Heap!Give(v)
        \/ \E v \in hh : Heap!Release(v)
  BY Zenon DEF Heap!Next, Heap!Value, hp, hh
<1> HIDE DEF Unstored, Value
<1>3. \A v \in Operand :
        /\ Means(atomName, v) \in Value
        /\ NodeToIndex(v) = v => Means(atomName, v) \in Value \ Unstored
  BY <1>1, OperandMeans DEF Unstored, Value
<1>4. \A i \in HeldCells : i \in DOMAIN hp /\ Heap!Pair(i) \in hh
  <2> SUFFICES ASSUME NEW i \in HeldCells PROVE i \in DOMAIN hp /\ Heap!Pair(i) \in hh
    OBVIOUS
  <2>1. i \in Marked /\ List(i) \in held
    BY MarkedNow DEF HeldCells, RInv
  <2>2. DOMAIN pairsNow = Marked /\ Heap!Pair(i) \in holdNow
    BY <2>1, PairsAt, MeansFacts DEF pairsNow, holdNow, HoldOf
  <2>3. QED BY <1>1, <2>1, <2>2
<1>5. ASSUME NEW n \in Spoken, Intern(n) PROVE Heap!Next
  <2>1. n \in Name
    BY MemoryAssumption
  <2>2. QED BY <1>2, <1>5, <2>1, InternImplements
<1>6. ASSUME NEW car \in Operand, NEW cdr \in Operand, Cons(car, cdr) PROVE Heap!Next
  <2>1. Means(atomName, car) \in Value \ Unstored /\ Means(atomName, cdr) \in Value \ Unstored
    BY <1>3, <1>6 DEF Cons
  <2>2. QED BY <1>2, <1>6, <2>1, ConsImplements
<1>7. ASSUME NEW i \in HeldCells, NEW item \in Operand, ListAppend(i, item) PROVE Heap!Next
  <2>1. Means(atomName, item) \in Value \ Unstored
    BY <1>3, <1>7 DEF ListAppend
  <2>2. QED BY <1>2, <1>4, <1>7, <2>1, ListAppendImplements
<1>8. ASSUME NEW i \in HeldCells, NEW value \in Operand, SetCar(i, value) PROVE Heap!Next
  BY <1>2, <1>3, <1>4, <1>8, SetImplements
<1>9. ASSUME NEW i \in HeldCells, NEW value \in Operand, SetCdr(i, value) PROVE Heap!Next
  BY <1>2, <1>3, <1>4, <1>9, SetImplements
<1>10. ASSUME NEW i \in HeldCells, Fetch(i) PROVE Heap!Next
  BY <1>2, <1>4, <1>10, FetchImplements
<1>11. ASSUME NEW b \in Blob, HoldBlob(b) PROVE Heap!Next
  BY <1>2, <1>11, HoldBlobImplements DEF Unstored
<1>12. ASSUME NEW r \in held, Drop(r) PROVE Heap!Next
  BY <1>1, <1>2, <1>12, DropImplements
<1>13. CASE Recycle
  BY <1>13, RecycleStutters
<1>14. CASE UNCHANGED vars
  <2>1. atomName' = atomName /\ cells' = cells /\ held' = held /\ nodeCount' = nodeCount
    BY <1>14 DEF vars, atomVars, cellVars
  <2>2. Marked' = Marked
    BY <2>1, MarkedIsLeast
  <2>3. QED BY <2>1, <2>2 DEF Heap!vars, Meaning
<1>15. QED
  BY <1>5, <1>6, <1>7, <1>8, <1>9, <1>10, <1>11, <1>12, <1>13, <1>14 DEF Next

\* For any memory, limits, vocabulary and program, the tables, the free lists,
\* the bins and the collector implement a store in which words are their
\* spelling, pairs keep their identity and contents, and a collection is no
\* step at all.
THEOREM StoreImplementsHeap == Spec => ImplementsHeapStore
<1>1. Init => Heap!Init
  <2> SUFFICES ASSUME Init PROVE Heap!Init
    OBVIOUS
  <2>1. IInv
    BY InitInv
  <2>2. held = {} /\ nodeCount = 0
    BY DEF Init
  <2>3. Marked = {}
    BY <2>1, <2>2, MarkedNow
  <2>4. QED BY <2>2, <2>3 DEF Heap!Init
<1>2. Init => RInv
  BY InitInv DEF RInv, BlobsKnown, Init
<1>3. RInv /\ [Next]_vars => RInv'
  BY StepInv, BlobsStayKnown DEF RInv
<1>4. RInv /\ [Next]_vars => [Heap!Next]_(Heap!vars)
  BY StepImplements
<1>5. QED BY <1>1, <1>2, <1>3, <1>4, PTL DEF Spec, ImplementsHeapStore, Heap!Spec
=============================================================================
