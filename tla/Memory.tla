------------------------------- MODULE Memory -------------------------------
(***************************************************************************)
(* The unified store of the interpreter (core/memory.c): one block shared  *)
(* by the atom table, which grows up from 0, and the cons cells, which     *)
(* grow down from the top, with the mark-and-sweep collector that only the *)
(* primitive `recycle` runs.                                               *)
(*                                                                         *)
(* The unit of every offset and size is one word of four bytes, the size   *)
(* of a cell and the alignment of an atom entry.  The order in which a     *)
(* LIFO free list is used is left open: any suitable member may be taken.  *)
(***************************************************************************)
EXTENDS Integers, FiniteSetsExt, Functions

CONSTANTS
  Name,           \* the words that can be interned
  Newline, TrueName, FalseName,   \* the three interned by logo_mem_init
  NameSize,       \* ALIGN4(2 + 1 + len + 1 + 2) of each name, in words
  Bucket,         \* the buckets of the atom hash table
  HashOf,         \* atom_hash
  BinCount,       \* LOGO_ATOM_FREE_LIST_COUNT
  MemSize,        \* LOGO_MEMORY_SIZE
  AtomLimit,      \* LOGO_ATOM_LIMIT
  MaxListIndex,   \* MAX_LIST_INDEX
  Blob,           \* handles of the blob heap
  Spoken,         \* bound of the model: the words the program interns
  Literal,        \* bound of the model: the operands no one has to hold
  MaxHeld         \* bound of the model: references the program holds at once

PermanentSize == NameSize[Newline] + NameSize[TrueName] + NameSize[FalseName]

ASSUME MemoryAssumption ==
  /\ {Newline, TrueName, FalseName} \subseteq Name
  /\ Newline # TrueName /\ Newline # FalseName /\ TrueName # FalseName
  /\ NameSize \in [Name -> Nat]
  /\ \A n \in Name : NameSize[n] >= 2
  /\ HashOf \in [Name -> Bucket]
  /\ BinCount \in Nat /\ BinCount >= 1
  /\ MemSize \in Nat /\ AtomLimit \in Nat /\ MaxListIndex \in Nat
  /\ PermanentSize <= AtomLimit /\ AtomLimit <= MemSize
  /\ MaxListIndex <= MemSize
  /\ Blob \subseteq Nat
  /\ Spoken \subseteq Name

VARIABLES
  entrySize,   \* start of every atom entry, live or free -> its size
  atomName,    \* start of every live entry -> the word it spells
  atomNext,    \* atom_next: the end of the atom table
  buckets,     \* atom_buckets: each chain as the set of its entries
  bins,        \* atom_free_lists: each list as the set of its entries
  atomFree,    \* atom_free_bytes, in words
  cells,       \* index -> [car, cdr], free cells included
  nodeCount,   \* node_count
  freeCells,   \* the members of free_list
  held         \* the references the markers of `recycle` reach

atomVars == <<entrySize, atomName, atomNext, buckets, bins, atomFree>>
cellVars == <<cells, nodeCount, freeCells>>
vars == <<atomVars, cellVars, held>>

-----------------------------------------------------------------------------
(* References: a Node, and the 16-bit form of it a cell stores.            *)

Nil        == [kind |-> "nil",   at |-> 0]
EmptyList  == [kind |-> "empty", at |-> 0]
Word(o)    == [kind |-> "word",  at |-> o]
List(i)    == [kind |-> "list",  at |-> i]
BlobRef(b) == [kind |-> "blob",  at |-> b]

Ref == [kind : {"nil", "empty", "word", "list", "blob"}, at : Nat]

\* node_to_index: the 16-bit form of a reference; a blob word has none and
\* becomes 0, which reads back as NIL.
NodeToIndex(r) == IF r.kind = "blob" THEN Nil ELSE r

ASSUME LiteralAssumption == Literal \subseteq {Nil, EmptyList}

FreeCell == [car |-> Nil, cdr |-> Nil]

nodeBottom == MemSize - nodeCount

\* The words every collection marks before it sweeps.
Permanent == {Word(0), Word(NameSize[Newline]),
              Word(NameSize[Newline] + NameSize[TrueName])}

-----------------------------------------------------------------------------
(* The atom table.                                                         *)

LiveAtoms == DOMAIN atomName
FreeAtoms == DOMAIN entrySize \ LiveAtoms

\* atom_free_bin
BinOf(size) == IF size >= BinCount THEN BinCount - 1 ELSE size - 1
Bin == 0 .. BinCount - 1

\* The limit both mem_atom and mem_free_atoms put on the atom table.
AtomCeiling == IF nodeBottom < AtomLimit THEN nodeBottom ELSE AtomLimit

\* find_atom walks one chain only.
Found(n) == {o \in buckets[HashOf[n]] : o \in LiveAtoms /\ atomName[o] = n}

\* Free blocks of one bin that are large enough.
Fits(bin, size) == {o \in bins[bin] : entrySize[o] >= size}
NoneFits(size) == \A bin \in BinOf(size) .. BinCount - 1 : Fits(bin, size) = {}

\* atom_free_take up to the choice of the block: the first bin that has one.
Takes(o, bin, size) ==
  /\ bin >= BinOf(size)
  /\ \A lower \in BinOf(size) .. bin - 1 : Fits(lower, size) = {}
  /\ o \in Fits(bin, size)

\* atom_free_bytes after a block of `size` was taken for `need`.
\* Mutant: the remainder put back is not counted.
FreeLessBlock(size, need) == atomFree - size
FreeAfterTake(size, need) ==
  (atomFree - size) + (IF size > need THEN size - need ELSE 0)

\* Mutant: the new entry becomes the chain, and the old chain is lost.
EnterAlone(n, o) ==
  /\ atomName' = [p \in LiveAtoms \cup {o} |-> IF p = o THEN n ELSE atomName[p]]
  /\ buckets' = [buckets EXCEPT ![HashOf[n]] = {o}]
  /\ held' = held \cup {Word(o)}
  /\ UNCHANGED cellVars

\* The rest of mem_atom once the entry has a place: write it, chain it.
Enter(n, o) ==
  /\ atomName' = [p \in LiveAtoms \cup {o} |-> IF p = o THEN n ELSE atomName[p]]
  /\ buckets' = [buckets EXCEPT ![HashOf[n]] = @ \cup {o}]
  /\ held' = held \cup {Word(o)}
  /\ UNCHANGED cellVars

InternFound(n) ==
  /\ \E o \in Found(n) : held' = held \cup {Word(o)}
  /\ UNCHANGED <<atomVars, cellVars>>

\* A block off a free list; what it does not need goes back as a block.
InternReuse(n) ==
  /\ Found(n) = {}
  /\ \E bin \in Bin : \E o \in bins[bin] :
       LET need == NameSize[n]
           size == entrySize[o]
           rest == o + need
           left == [bins EXCEPT ![bin] = @ \ {o}]
       IN /\ Takes(o, bin, need)
          /\ entrySize' = [p \in DOMAIN entrySize \cup (IF size > need THEN {rest} ELSE {}) |->
                             IF p = o THEN need
                             ELSE IF p = rest /\ size > need THEN size - need
                             ELSE entrySize[p]]
          /\ bins' = IF size > need
                       THEN [left EXCEPT ![BinOf(size - need)] = @ \cup {rest}]
                       ELSE left
          /\ atomFree' = FreeAfterTake(size, need)
          /\ Enter(n, o)
  /\ UNCHANGED atomNext

\* No block fits: the table grows, if neither limit is in the way.
InternExtend(n) ==
  /\ Found(n) = {}
  /\ NoneFits(NameSize[n])
  /\ atomNext + NameSize[n] <= AtomCeiling
  /\ entrySize' = [p \in DOMAIN entrySize \cup {atomNext} |->
                     IF p = atomNext THEN NameSize[n] ELSE entrySize[p]]
  /\ atomNext' = atomNext + NameSize[n]
  /\ Enter(n, atomNext)
  /\ UNCHANGED <<bins, atomFree>>

\* mem_atom.  Where none of the three applies it returns NIL and changes
\* nothing.
Intern(n) == InternFound(n) \/ InternReuse(n) \/ InternExtend(n)

-----------------------------------------------------------------------------
(* Cons cells.                                                             *)

\* Mutant: the pool may grow over the last word of the table.
AllocOverAtoms(i) ==
  \/ /\ i \in freeCells
     /\ freeCells' = freeCells \ {i}
     /\ nodeCount' = nodeCount
  \/ /\ freeCells = {}
     /\ i = nodeCount + 1
     /\ nodeBottom >= atomNext
     /\ i <= MaxListIndex
     /\ nodeCount' = i
     /\ freeCells' = freeCells

\* Mutant: no cap on the index of a cell.
AllocPastCap(i) ==
  \/ /\ i \in freeCells
     /\ freeCells' = freeCells \ {i}
     /\ nodeCount' = nodeCount
  \/ /\ freeCells = {}
     /\ i = nodeCount + 1
     /\ nodeBottom - 1 >= atomNext
     /\ nodeCount' = i
     /\ freeCells' = freeCells

\* alloc_cell: a cell of the free list, else one more below the pool.
AllocCell(i) ==
  \/ /\ i \in freeCells
     /\ freeCells' = freeCells \ {i}
     /\ nodeCount' = nodeCount
  \/ /\ freeCells = {}
     /\ i = nodeCount + 1
     /\ nodeBottom - 1 >= atomNext
     /\ i <= MaxListIndex
     /\ nodeCount' = i
     /\ freeCells' = freeCells

CanAllocCell ==
  \/ freeCells # {}
  \/ nodeBottom - 1 >= atomNext /\ nodeCount + 1 <= MaxListIndex

\* The operands a primitive can pass: what it holds, and NIL and [].
Operand == held \cup Literal

\* mem_cons
Cons(car, cdr) ==
  /\ NodeToIndex(car) = car /\ NodeToIndex(cdr) = cdr
  /\ \E i \in 1 .. nodeCount + 1 :
       /\ AllocCell(i)
       /\ cells' = [j \in 1 .. nodeCount' |->
                      IF j = i THEN [car |-> car, cdr |-> cdr] ELSE cells[j]]
       /\ held' = held \cup {List(i)}
  /\ UNCHANGED atomVars

\* mem_list_append on a list under construction whose last cell is `tail`:
\* the new cell is linked with the same store mem_set_cdr makes, and the
\* caller's tail moves on to it.
ListAppend(tail, item) ==
  /\ NodeToIndex(item) = item
  /\ \E i \in 1 .. nodeCount + 1 :
       /\ AllocCell(i)
       /\ cells' = [j \in 1 .. nodeCount' |->
                      IF j = i THEN [car |-> item, cdr |-> Nil]
                      ELSE IF j = tail THEN [cells[j] EXCEPT !.cdr = List(i)]
                      ELSE cells[j]]
       /\ held' = held \cup {List(i)}
  /\ UNCHANGED atomVars

\* mem_set_car and mem_set_cdr: both answer true whatever they store.
SetCar(i, value) ==
  /\ cells' = [cells EXCEPT ![i].car = NodeToIndex(value)]
  /\ UNCHANGED <<atomVars, nodeCount, freeCells, held>>

SetCdr(i, value) ==
  /\ cells' = [cells EXCEPT ![i].cdr = NodeToIndex(value)]
  /\ UNCHANGED <<atomVars, nodeCount, freeCells, held>>

\* mem_car and mem_cdr hand a reference to their caller.
Fetch(i) ==
  /\ held' = held \cup {cells[i].car, cells[i].cdr}
  /\ UNCHANGED <<atomVars, cellVars>>

-----------------------------------------------------------------------------
(* The collector.                                                          *)

\* Mutant: the cdr chain is not followed.
ChildrenByCar(i) == {j \in 1 .. nodeCount : List(j) = cells[i].car}

\* The cells one cell leads to.
Children(i) == {j \in 1 .. nodeCount : List(j) \in {cells[i].car, cells[i].cdr}}

\* gc_mark_index marks the least set of cells that holds the roots and,
\* with a cell, the cells it leads to.
Closed(S) == /\ \A i \in 1 .. nodeCount : List(i) \in held => i \in S
             /\ \A i \in S : Children(i) \subseteq S

Marked == {i \in 1 .. nodeCount : \A S \in SUBSET (1 .. nodeCount) : Closed(S) => i \in S}

\* Mutant: a word in a cdr is not marked.
MarkedRefsOfCars(marked) == held \cup Permanent \cup {cells[i].car : i \in marked}

\* Every reference the mark phase looks at, and the atoms among them.
MarkedRefs(marked) == held \cup Permanent \cup {cells[i].car : i \in marked}
                                          \cup {cells[i].cdr : i \in marked}

MarkedAtoms(marked) ==
  LET refs == MarkedRefs(marked) IN {o \in LiveAtoms : Word(o) \in refs}

\* What a sweep leaves of the atom table when the entries `live` were marked:
\* it ends after the last of them, and between two of them one block stands
\* for the whole dead run.
SweptEnd(live) == Max({0} \cup {o + entrySize[o] : o \in live})
RunStarts(live) == {o \in DOMAIN entrySize \ live :
                      /\ o < SweptEnd(live)
                      /\ \/ o = 0
                         \/ \E p \in live : p + entrySize[p] = o}
RunEnd(live, o) == Min({p \in live : p > o})
SweptSize(live) == [o \in live \cup RunStarts(live) |->
                      IF o \in live THEN entrySize[o] ELSE RunEnd(live, o) - o]

SweepAtoms(live) ==
  LET runs == RunStarts(live)
      size == SweptSize(live)
  IN /\ atomNext' = SweptEnd(live)
     /\ entrySize' = size
     /\ atomName' = [o \in live |-> atomName[o]]
     /\ buckets' = [h \in Bucket |-> {o \in live : HashOf[atomName[o]] = h}]
     /\ bins' = [b \in Bin |-> {o \in runs : BinOf(size[o]) = b}]
     /\ atomFree' = SumFunctionOnSet(size, runs)

\* Mutant: the pool never shrinks.
SweepInPlace(marked) ==
  /\ nodeCount' = nodeCount
  /\ freeCells' = (1 .. nodeCount) \ marked
  /\ cells' = [i \in 1 .. nodeCount |-> IF i \in marked THEN cells[i] ELSE FreeCell]

\* A cell above the highest marked one leaves the pool.
SweepCells(marked) ==
  LET top == Max({0} \cup marked)
  IN /\ nodeCount' = top
     /\ freeCells' = (1 .. top) \ marked
     /\ cells' = [i \in 1 .. top |-> IF i \in marked THEN cells[i] ELSE FreeCell]

\* The marking of every root and mem_gc_sweep.
Recycle == LET marked == Marked
               live == MarkedAtoms(marked)
           IN /\ SweepCells(marked)
              /\ SweepAtoms(live)
              /\ UNCHANGED held

-----------------------------------------------------------------------------
(* The program around the store.  It gives up references, and is handed    *)
(* blob words by mem_blob.                                                 *)

Drop(r) ==
  /\ held' = held \ {r}
  /\ UNCHANGED <<atomVars, cellVars>>

HoldBlob(b) ==
  /\ held' = held \cup {BlobRef(b)}
  /\ UNCHANGED <<atomVars, cellVars>>

HeldCells == {i \in 1 .. nodeCount : List(i) \in held}

\* logo_mem_init: the three permanent words are interned into an empty block.
Init ==
  LET o1 == NameSize[Newline]
      o2 == o1 + NameSize[TrueName]
  IN /\ entrySize = [o \in {0, o1, o2} |-> IF o = 0 THEN NameSize[Newline]
                                           ELSE IF o = o1 THEN NameSize[TrueName]
                                           ELSE NameSize[FalseName]]
     /\ atomName = [o \in {0, o1, o2} |-> IF o = 0 THEN Newline
                                          ELSE IF o = o1 THEN TrueName ELSE FalseName]
     /\ atomNext = PermanentSize
     /\ buckets = [h \in Bucket |-> {o \in {0, o1, o2} : HashOf[atomName[o]] = h}]
     /\ bins = [b \in Bin |-> {}]
     /\ atomFree = 0
     /\ cells = [i \in 1 .. 0 |-> FreeCell]
     /\ nodeCount = 0
     /\ freeCells = {}
     /\ held = {}

\* MaxHeld bounds the references held at once; the actions that add one run
\* below it.
Room == Cardinality(held) < MaxHeld

Next ==
  \/ \E n \in Spoken : Room /\ Intern(n)
  \/ \E car, cdr \in Operand : Room /\ Cons(car, cdr)
  \/ \E i \in HeldCells, item \in Operand : Room /\ ListAppend(i, item)
  \/ \E i \in HeldCells, value \in Operand : SetCar(i, value)
  \/ \E i \in HeldCells, value \in Operand : SetCdr(i, value)
  \/ \E i \in HeldCells : Room /\ Fetch(i)
  \/ \E b \in Blob : Room /\ HoldBlob(b)
  \/ \E r \in held : Drop(r)
  \/ Recycle

Spec == Init /\ [][Next]_vars

-----------------------------------------------------------------------------
(* Properties.                                                             *)

\* The types of the state.
TypeOK ==
  /\ atomNext \in 0 .. AtomLimit
  /\ DOMAIN entrySize \subseteq 0 .. AtomLimit
  /\ entrySize \in [DOMAIN entrySize -> 1 .. AtomLimit]
  /\ LiveAtoms \subseteq DOMAIN entrySize
  /\ atomName \in [LiveAtoms -> Name]
  /\ buckets \in [Bucket -> SUBSET (0 .. AtomLimit)]
  /\ bins \in [Bin -> SUBSET (0 .. AtomLimit)]
  /\ nodeCount \in 0 .. MaxListIndex
  /\ cells \in [1 .. nodeCount -> [car : Ref, cdr : Ref]]
  /\ freeCells \subseteq 1 .. nodeCount
  /\ held \subseteq Ref

\* The table can be walked from 0 to atom_next by adding each entry's size,
\* which is how every scan of memory.c finds entries: no gap, no overlap,
\* and a live entry has exactly the room its word needs.  The table never
\* runs into the cells, whichever of the two grew last.
TableTiled ==
  /\ \A o \in DOMAIN entrySize :
       /\ o + entrySize[o] <= atomNext
       /\ o + entrySize[o] < atomNext => o + entrySize[o] \in DOMAIN entrySize
       /\ \A p \in DOMAIN entrySize : o < p => o + entrySize[o] <= p
  /\ 0 \in DOMAIN entrySize
  /\ \A o \in LiveAtoms : entrySize[o] = NameSize[atomName[o]]

ArenasApart == atomNext <= nodeBottom

TableSound == TableTiled /\ ArenasApart

\* A live entry is in the chain its hash selects and in no other, a free
\* entry in the bin its size selects and in no other, and no word is interned
\* twice: equality of words compares offsets first (mem_words_equal).
Indexed ==
  /\ \A h \in Bucket : buckets[h] = {o \in LiveAtoms : HashOf[atomName[o]] = h}
  /\ \A b \in Bin : bins[b] = {o \in FreeAtoms : BinOf(entrySize[o]) = b}

InternedOnce == \A o, p \in LiveAtoms : atomName[o] = atomName[p] => o = p

AtomsIndexed == Indexed /\ InternedOnce

\* A reference that leads to something that is still there.
Valid(r) == /\ r.kind = "word" => r.at \in LiveAtoms
            /\ r.kind = "list" => r.at \in (1 .. nodeCount) \ freeCells

\* Nothing the program holds and nothing an allocated cell stores dangles,
\* whatever was collected, trimmed or reused since; and no cell stores a
\* blob word, which the marking of cells could not follow.
HeldValid == \A r \in held \cup Permanent : Valid(r)
CellsValid ==
  \A i \in (1 .. nodeCount) \ freeCells :
    \A r \in {cells[i].car, cells[i].cdr} : Valid(r) /\ r.kind # "blob"

NoDangling == HeldValid /\ CellsValid

\* The figure `atoms` answers in constant time is the one a walk of the table
\* would count (the assertion that closes mem_gc_sweep, here in every state).
FreeBytesAgree ==
  atomFree = SumFunctionOnSet(entrySize, FreeAtoms)

\* Mutant: the cells the atom table has taken are counted.
FreeNodesOfPool ==
  Cardinality(freeCells) + (IF nodeCount < MemSize - 1 THEN MemSize - 1 - nodeCount ELSE 0)

\* mem_free_nodes: what `nodes` answers.
FreeNodes ==
  LET listed    == Cardinality(freeCells)
      potential == nodeBottom - atomNext
      max       == MemSize - 1
      can       == IF nodeCount < max THEN max - nodeCount ELSE 0
  IN IF nodeBottom > atomNext
       THEN listed + (IF potential > can THEN can ELSE potential)
       ELSE listed

\* A program that asks `nodes` before it builds a list can rely on the
\* answer, as long as the pool is under its cap on indices.
FreeNodesHonest ==
  nodeCount < MaxListIndex => (FreeNodes > 0 <=> CanAllocCell)

\* After a collection nothing unreachable is left: the allocated cells and
\* the live entries are the reachable ones, no two free entries touch, and
\* neither arena keeps a free block at the edge it could give back.
Compact ==
  /\ \A o \in FreeAtoms : o + entrySize[o] \in LiveAtoms
  /\ nodeCount \notin freeCells
  /\ (1 .. nodeCount) \ freeCells = Marked
  /\ LiveAtoms = MarkedAtoms(Marked)

RecycleComplete == [][Recycle => Compact']_vars

\* What a reference is to the program: a word is its spelling.
Meaning(r) == IF r.kind = "word" THEN [kind |-> "word", at |-> atomName[r.at]] ELSE r

\* The detailed store implements the abstract one.  A collection maps to a
\* stuttering step: nothing a held reference leads to moves or changes.
Heap == INSTANCE HeapStore WITH
          Vocabulary <- Name,
          PairId   <- 1 .. MaxListIndex,
          Unstored <- {BlobRef(b) : b \in Blob},
          pairs    <- [i \in Marked |-> [car |-> Meaning(cells[i].car),
                                         cdr |-> Meaning(cells[i].cdr)]],
          hold     <- {Meaning(r) : r \in held}

ImplementsHeapStore == Heap!Spec
=============================================================================
