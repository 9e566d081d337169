-------------------------- MODULE WorkspaceProofs --------------------------
(***************************************************************************)
(* Proofs about Workspace, for every set of words and way they fold, every *)
(* hash, and every size of the tables, the arena and the index.            *)
(***************************************************************************)
EXTENDS Workspace, SequenceTheorems, FiniteSetTheorems, WellFoundedInduction, TLAPS

-----------------------------------------------------------------------------
(* Numbers.                                                                *)

\* A non-empty set of naturals has a least element, and First is it.
LEMMA FirstIs ==
  ASSUME NEW S \in SUBSET Nat, S # {}
  PROVE  First(S) \in S /\ \A j \in S : First(S) <= j
<1>1. IsWellFoundedOn(OpToRel(<, Nat), Nat)
  BY NatLessThanWellFounded
<1>2. PICK m \in S : \A x \in S : ~ (<<x, m>> \in OpToRel(<, Nat))
  BY <1>1, WFMin
<1>3. ASSUME NEW x \in S PROVE m <= x
  <2>1. x \in Nat /\ m \in Nat
    OBVIOUS
  <2>2. ~ (x < m)
    BY <1>2, <2>1 DEF OpToRel
  <2>3. QED BY <2>1, <2>2
<1>4. QED BY <1>3 DEF First

LEMMA Modulo ==
  ASSUME NEW N \in Nat \ {0}, NEW a \in Nat, a < 2 * N
  PROVE  a % N = IF a < N THEN a ELSE a - N
<1>1. CASE a < N
  BY <1>1
<1>2. CASE a >= N
  BY <1>2
<1>3. QED BY <1>1, <1>2

-----------------------------------------------------------------------------
(* The index.                                                              *)

Places == 0 .. (GLOBAL_HASH_SIZE - 1)
Slots  == 1 .. MAX_GLOBAL_VARIABLES

LEMMA Sizes ==
  /\ GLOBAL_HASH_SIZE \in Nat \ {0} /\ MAX_GLOBAL_VARIABLES \in Nat \ {0}
  /\ MAX_GLOBAL_VARIABLES < GLOBAL_HASH_SIZE
  /\ MAX_PROCEDURES \in Nat \ {0} /\ MAX_CURRENT_PROC_DEPTH \in Nat
  /\ ArenaWords \in Nat /\ SpareWords \in Nat
  /\ FRAME_HEADER_WORDS \in Nat \ {0} /\ BINDING_WORDS \in Nat \ {0}
  BY WorkspaceAssumption

\* The probes for a word visit every place of the index.
LEMMA ProbeIs ==
  ASSUME NEW w \in Words
  PROVE  /\ \A p \in Places : Probe(w, p) \in Places
         /\ \A q \in Places : \E p \in Places : Probe(w, p) = q
<1> DEFINE h == Home[Fold[w]]
           H == GLOBAL_HASH_SIZE
<1>1. h \in Places /\ H \in Nat \ {0}
  BY WorkspaceAssumption, Sizes DEF Places
<1> HIDE DEF h
<1>2. ASSUME NEW p \in Places
      PROVE  (h + p) % H = IF h + p < H THEN h + p ELSE (h + p) - H
  <2>1. PICK a \in Nat : a = h + p
    BY <1>1 DEF Places
  <2>2. a < 2 * H
    BY <1>1, <2>1 DEF Places
  <2>3. a % H = IF a < H THEN a ELSE a - H
    BY <1>1, <2>1, <2>2, Modulo
  <2>4. QED BY <2>1, <2>3
<1>3. ASSUME NEW p \in Places PROVE Probe(w, p) = IF h + p < H THEN h + p ELSE (h + p) - H
  BY <1>2, <1>3 DEF Probe, h
<1>4. \A p \in Places : Probe(w, p) \in Places
  BY <1>1, <1>3 DEF Places
<1>5. ASSUME NEW q \in Places PROVE \E p \in Places : Probe(w, p) = q
  <2> DEFINE p == IF h <= q THEN q - h ELSE (q - h) + H
  <2>1. p \in Places /\ q = IF h + p < H THEN h + p ELSE (h + p) - H
    BY <1>1 DEF Places
  <2>2. QED BY <1>3, <2>1
<1>6. QED BY <1>4, <1>5

LEMMA SameProbe ==
  ASSUME NEW w, NEW x, Same(w, x), NEW p
  PROVE  Probe(w, p) = Probe(x, p)
  BY DEF Same, Probe

\* A probe for a word comes to slot i, and to no empty place before.
Reaches(hash, w, i) ==
  \E d \in Places : /\ hash[Probe(w, d)] = i
                    /\ \A e \in Places : e < d => hash[Probe(w, e)] # 0

\* The index holds each slot of S once, where a probe for its name finds it.
Indexes(hash, slots, S) ==
  /\ hash \in [Places -> S \cup {0}]
  /\ \A q, r \in Places : hash[q] = hash[r] /\ hash[q] # 0 => q = r
  /\ \A i \in S : Reaches(hash, slots[i].name, i)

\* There are more places than slots, so some place is empty.
LEMMA SomePlaceEmpty ==
  ASSUME NEW hash, NEW slots, NEW S \in SUBSET Slots, Indexes(hash, slots, S)
  PROVE  \E q \in Places : hash[q] = 0
<1> SUFFICES ASSUME \A q \in Places : hash[q] # 0 PROVE FALSE
  OBVIOUS
<1>1. hash \in [Places -> Slots]
  BY DEF Indexes
<1>2. IsFiniteSet(Places) /\ Cardinality(Places) = GLOBAL_HASH_SIZE
  BY FS_Interval, Sizes DEF Places
<1>3. IsFiniteSet(Slots) /\ Cardinality(Slots) = MAX_GLOBAL_VARIABLES
  BY FS_Interval, Sizes DEF Slots
<1>4. Cardinality(Slots) < Cardinality(Places)
  BY <1>2, <1>3, Sizes
<1>5. \E q, r \in Places : q # r /\ hash[q] = hash[r]
  BY <1>1, <1>2, <1>3, <1>4, FS_PigeonHole
<1>6. QED BY <1>5 DEF Indexes

\* Inserting a slot that is not indexed keeps what the index holds.
LEMMA InsertIndexes ==
  ASSUME NEW hash, NEW slots, NEW new, NEW S \in SUBSET Slots, Indexes(hash, slots, S),
         NEW i \in Slots \ S, new[i].name \in Words,
         \A j \in S : new[j].name = slots[j].name /\ slots[j].name \in Words
  PROVE  Indexes(HashInsert(hash, new[i].name, i), new, S \cup {i})
<1> DEFINE w == new[i].name
           ends == {p \in 0 .. (GLOBAL_HASH_SIZE - 1) : hash[Probe(w, p)] \in {0, i}}
           p == First(ends)
           q == Probe(w, p)
           after == [hash EXCEPT ![q] = i]
<1> HIDE DEF w
<1>1. w \in Words
  BY DEF w
<1>2. ends # {}
  <2>1. PICK r \in Places : hash[r] = 0
    BY SomePlaceEmpty
  <2>2. PICK e \in Places : Probe(w, e) = r
    BY <1>1, ProbeIs
  <2>3. e \in ends
    BY <2>1, <2>2 DEF Places
  <2>4. QED BY <2>3
<1>3. p \in ends /\ \A e \in ends : p <= e
  <2>1. ends \in SUBSET Nat
    BY Sizes
  <2>2. QED BY <1>2, <2>1, FirstIs
<1> HIDE DEF p
<1>4. p \in Places /\ q \in Places /\ hash[q] = 0
  <2>1. p \in Places /\ hash[q] \in {0, i}
    BY <1>3 DEF Places
  <2>2. q \in Places
    BY <1>1, <2>1, ProbeIs
  <2>3. hash[q] # i
    BY <2>2, Sizes DEF Indexes, Slots
  <2>4. QED BY <2>1, <2>2, <2>3
<1>5. \A e \in Places : e < p => hash[Probe(w, e)] # 0
  <2> SUFFICES ASSUME NEW e \in Places, e < p, hash[Probe(w, e)] = 0 PROVE FALSE
    OBVIOUS
  <2>1. e \in ends
    BY DEF Places
  <2>2. p \in Nat /\ e \in Nat
    BY <1>4, Sizes DEF Places
  <2>3. QED BY <1>3, <2>1, <2>2
<1> HIDE DEF q, ends
<1>6. after \in [Places -> (S \cup {i}) \cup {0}] /\ DOMAIN hash = Places
  BY <1>4 DEF Indexes
<1>7. after[q] = i /\ \A r \in Places : r # q => after[r] = hash[r]
  BY <1>4, <1>6
<1>8. i # 0 /\ \A r \in Places : hash[r] # i
  BY Sizes DEF Indexes, Slots
<1> HIDE DEF after
<1>9. \A r, t \in Places : after[r] = after[t] /\ after[r] # 0 => r = t
  BY <1>7, <1>8 DEF Indexes
<1>10. \A r \in Places : hash[r] # 0 => after[r] # 0
  BY <1>7, <1>8
<1>11. Reaches(after, w, i)
  <2>1. after[Probe(w, p)] = i
    BY <1>7 DEF q
  <2>2. \A e \in Places : e < p => after[Probe(w, e)] # 0
    BY <1>1, <1>5, <1>10, ProbeIs
  <2>3. QED BY <1>4, <2>1, <2>2 DEF Reaches
<1>12. ASSUME NEW j \in S PROVE Reaches(after, new[j].name, j)
  <2>1. PICK x \in Words : x = slots[j].name /\ x = new[j].name
    OBVIOUS
  <2>2. PICK d \in Places : /\ hash[Probe(x, d)] = j
                            /\ \A e \in Places : e < d => hash[Probe(x, e)] # 0
    BY <2>1 DEF Indexes, Reaches
  <2>3. \A e \in Places : Probe(x, e) \in Places
    BY ProbeIs
  <2>4. j # 0
    BY Sizes DEF Slots
  <2>5. after[Probe(x, d)] = j
    BY <1>4, <1>7, <2>2, <2>3, <2>4
  <2>6. \A e \in Places : e < d => after[Probe(x, e)] # 0
    BY <1>10, <2>2, <2>3
  <2>7. QED BY <2>1, <2>5, <2>6 DEF Reaches
<1>13. Indexes(after, new, S \cup {i})
  BY <1>6, <1>9, <1>11, <1>12 DEF Indexes, w
<1>14. HashInsert(hash, w, i) = after
  BY DEF HashInsert, after, q, p, ends
<1>15. QED BY <1>13, <1>14 DEF w

LEMMA EmptyIndexes ==
  ASSUME NEW slots
  PROVE  Indexes(EmptyHash, slots, {})
  BY DEF Indexes, EmptyHash, Places

-----------------------------------------------------------------------------
(* The table of globals.                                                   *)

SlotType == [name : Words \cup {NoWord}, thing : Things \cup {NoThing},
             active : BOOLEAN, buried : BOOLEAN]

\* A table of the right shape whose active slots have a name each, no two
\* the same, and its index.
Shaped(g) ==
  /\ g = [slots |-> g.slots, count |-> g.count, hash |-> g.hash]
  /\ g.slots \in [Slots -> SlotType] /\ g.count \in 0 .. MAX_GLOBAL_VARIABLES
  /\ \A i \in Slots : g.slots[i].active => i <= g.count /\ g.slots[i].name \in Words
  /\ \A i, j \in Slots : g.slots[i].active /\ g.slots[j].active /\ Fold[g.slots[i].name] = Fold[g.slots[j].name] => i = j

Indexed(g) == Indexes(g.hash, g.slots, Active(g))

LEMMA ActiveAre ==
  ASSUME NEW g, Shaped(g)
  PROVE  /\ Active(g) \in SUBSET Slots
         /\ \A i \in Slots : i \in Active(g) <=> g.slots[i].active
         /\ \A i \in Active(g) : g.slots[i].name \in Words
<1>1. \A i \in 1 .. g.count : i \in Slots
  BY Sizes DEF Shaped, Slots
<1>2. \A i \in Slots : g.slots[i].active => i \in 1 .. g.count
  BY Sizes DEF Shaped, Slots
<1>3. QED BY <1>1, <1>2 DEF Shaped, Active

\* A search through the index finds the slot of a name, and none for a name
\* that has none.
LEMMA FindExact ==
  ASSUME NEW g, Shaped(g), Indexed(g), NEW w \in Words
  PROVE  LET here == {i \in Active(g) : Same(g.slots[i].name, w)}
         IN  IF here = {} THEN find_global(g, w) = 0 ELSE here = {find_global(g, w)}
<1> DEFINE here == {i \in Active(g) : Same(g.slots[i].name, w)}
           ends == {p \in 0 .. (GLOBAL_HASH_SIZE - 1) : g.hash[Probe(w, p)] = 0 \/ FoundAt(g, w, p)}
<1>1. Active(g) \in SUBSET Slots /\ \A i \in Active(g) : g.slots[i].active /\ g.slots[i].name \in Words
  BY ActiveAre
<1>2. g.hash \in [Places -> Active(g) \cup {0}] /\ \A i \in Active(g) : i # 0
  BY <1>1, Sizes DEF Indexed, Indexes, Slots
<1>3. ASSUME NEW p \in Places, FoundAt(g, w, p) PROVE g.hash[Probe(w, p)] \in here
  <2>1. Probe(w, p) \in Places
    BY ProbeIs
  <2>2. QED BY <1>2, <1>3, <2>1 DEF FoundAt
<1>4. ends \in SUBSET Nat /\ \A p \in ends : p \in Places
  BY Sizes DEF Places
<1>5. ends # {} => First(ends) \in ends /\ \A p \in ends : First(ends) <= p
  BY <1>4, FirstIs
<1>6. find_global(g, w) = IF ends = {} THEN 0 ELSE g.hash[Probe(w, First(ends))]
  BY DEF find_global
<1> HIDE DEF ends
<1>7. CASE here = {}
  <2>1. ends # {} => g.hash[Probe(w, First(ends))] = 0
    BY <1>3, <1>4, <1>5, <1>7 DEF ends
  <2>2. QED BY <1>6, <1>7, <2>1
<1>8. ASSUME NEW i \in here PROVE here = {find_global(g, w)}
  <2>1. i \in Active(g) /\ Same(g.slots[i].name, w) /\ Same(w, g.slots[i].name)
    BY DEF Same
  <2>2. ASSUME NEW j \in here PROVE j = i
    BY <1>1, <2>1 DEF Shaped, Same
  <2>3. PICK d \in Places : /\ g.hash[Probe(g.slots[i].name, d)] = i
                            /\ \A e \in Places : e < d => g.hash[Probe(g.slots[i].name, e)] # 0
    BY <2>1 DEF Indexed, Indexes, Reaches
  <2>4. g.hash[Probe(w, d)] = i /\ \A e \in Places : e < d => g.hash[Probe(w, e)] # 0
    BY <2>1, <2>3, SameProbe
  <2>5. d \in ends
    BY <1>1, <1>2, <2>1, <2>4 DEF ends, FoundAt, Places
  <2>6. First(ends) \in ends /\ First(ends) <= d
    BY <1>5, <2>5
  <2>7. First(ends) = d \/ First(ends) < d
    <3>1. d \in Nat /\ First(ends) \in Nat
      BY <1>4, <2>5, <2>6
    <3>2. QED BY <2>6, <3>1
  <2>8. g.hash[Probe(w, First(ends))] \in here
    <3>1. CASE First(ends) = d
      BY <2>4, <3>1
    <3>2. CASE First(ends) < d
      BY <1>3, <1>4, <2>4, <2>6, <3>2 DEF ends
    <3>3. QED BY <2>7, <3>1, <3>2
  <2>9. find_global(g, w) = i
    BY <1>6, <2>2, <2>5, <2>8
  <2>10. QED BY <2>2, <2>9
<1>9. QED BY <1>7, <1>8

\* What an index holds depends on the names of the slots alone.
LEMMA SameNames ==
  ASSUME NEW hash, NEW slots, NEW new, NEW S, Indexes(hash, slots, S),
         \A i \in S : new[i].name = slots[i].name
  PROVE  Indexes(hash, new, S)
  BY DEF Indexes

\* The index is rebuilt slot by slot: what the loop has after the first n.
Loop(g, f, n) ==
  f = [i \in 0 .. n |-> IF i = 0 THEN EmptyHash
                        ELSE IF g.slots[i].active THEN HashInsert(f[i - 1], g.slots[i].name, i)
                        ELSE f[i - 1]]

LEMMA LoopExists ==
  ASSUME NEW g, NEW n \in Nat
  PROVE  \E f : Loop(g, f, n)
<1> DEFINE Bad == {k \in Nat : ~\E f : Loop(g, f, k)}
<1>1. SUFFICES ASSUME Bad # {} PROVE FALSE
  OBVIOUS
<1>2. PICK k \in Bad : \A j \in Bad : k <= j
  BY <1>1, FirstIs
<1>3. CASE k = 0
  <2>1. Loop(g, [i \in 0 .. 0 |-> EmptyHash], 0)
    BY DEF Loop
  <2>2. QED BY <1>3, <2>1
<1>4. CASE k # 0
  <2>1. k - 1 \in Nat /\ k - 1 \notin Bad
    BY <1>2, <1>4
  <2>2. PICK f : Loop(g, f, k - 1)
    BY <2>1
  <2> DEFINE e == [i \in 0 .. k |-> IF i = k
                     THEN IF g.slots[k].active THEN HashInsert(f[k - 1], g.slots[k].name, k) ELSE f[k - 1]
                     ELSE f[i]]
  <2>3. ASSUME NEW i \in 0 .. k
        PROVE  e[i] = IF i = 0 THEN EmptyHash
                      ELSE IF g.slots[i].active THEN HashInsert(e[i - 1], g.slots[i].name, i)
                      ELSE e[i - 1]
    <3>1. CASE i = k
      <4>1. e[i - 1] = f[i - 1]
        BY <1>4, <2>1, <3>1
      <4>2. QED BY <1>4, <3>1, <4>1
    <3>2. CASE i # k
      <4>1. i \in 0 .. k - 1 /\ e[i] = f[i]
        BY <3>2
      <4>2. i # 0 => e[i - 1] = f[i - 1]
        BY <3>2
      <4>3. f[i] = IF i = 0 THEN EmptyHash
                   ELSE IF g.slots[i].active THEN HashInsert(f[i - 1], g.slots[i].name, i)
                   ELSE f[i - 1]
        BY <2>2, <4>1 DEF Loop
      <4>4. QED BY <4>1, <4>2, <4>3
    <3>3. QED BY <3>1, <3>2
  <2> HIDE DEF e
  <2>4. Loop(g, e, k)
    <3>1. e = [i \in 0 .. k |-> e[i]]
      BY DEF e
    <3>2. QED BY <2>3, <3>1 DEF Loop
  <2>5. QED BY <2>4
<1>5. QED BY <1>3, <1>4

LEMMA LoopIndexes ==
  ASSUME NEW g, Shaped(g), NEW f, Loop(g, f, g.count), NEW n \in 0 .. g.count
  PROVE  Indexes(f[n], g.slots, {i \in 1 .. n : g.slots[i].active})
<1> DEFINE S(k) == {i \in 1 .. k : g.slots[i].active}
           Bad == {k \in 0 .. g.count : ~Indexes(f[k], g.slots, S(k))}
<1>0. g.count \in 0 .. MAX_GLOBAL_VARIABLES
  BY DEF Shaped
<1>1. SUFFICES ASSUME Bad # {} PROVE FALSE
  OBVIOUS
<1>2. PICK k \in Bad : \A j \in Bad : k <= j
  <2>1. Bad \in SUBSET Nat
    BY <1>0, Sizes
  <2>2. QED BY <1>1, <2>1, FirstIs
<1>3. f[k] = IF k = 0 THEN EmptyHash
             ELSE IF g.slots[k].active THEN HashInsert(f[k - 1], g.slots[k].name, k)
             ELSE f[k - 1]
  BY DEF Loop
<1>4. CASE k = 0
  <2>1. S(0) = {}
    OBVIOUS
  <2>2. QED BY <1>3, <1>4, <2>1, EmptyIndexes
<1>5. CASE k # 0
  <2>1. k - 1 \in 0 .. g.count /\ k \in Slots
    BY <1>0, <1>5, Sizes DEF Slots
  <2>2. k - 1 \notin Bad
    BY <1>0, <1>2, <2>1, Sizes
  <2>3. Indexes(f[k - 1], g.slots, S(k - 1))
    BY <2>1, <2>2
  <2>4. S(k - 1) \in SUBSET Slots /\ k \in Slots \ S(k - 1)
    BY <1>0, <2>1, Sizes DEF Slots
  <2>5. \A i \in S(k - 1) : g.slots[i].name \in Words
    BY <2>4 DEF Shaped
  <2>6. CASE g.slots[k].active
    <3>1. g.slots[k].name \in Words
      BY <2>1, <2>6 DEF Shaped
    <3>2. S(k) = S(k - 1) \cup {k}
      BY <1>0, <2>1, <2>6, Sizes
    <3> HIDE DEF S
    <3>3. Indexes(HashInsert(f[k - 1], g.slots[k].name, k), g.slots, S(k - 1) \cup {k})
      BY <2>3, <2>4, <2>5, <3>1, InsertIndexes
    <3>4. QED BY <1>3, <1>5, <2>6, <3>2, <3>3
  <2>7. CASE ~g.slots[k].active
    <3>1. S(k) = S(k - 1)
      BY <1>0, <2>1, <2>7, Sizes
    <3>2. QED BY <1>3, <1>5, <2>3, <2>7, <3>1
  <2>8. QED BY <2>6, <2>7
<1>6. QED BY <1>4, <1>5

\* Rebuilding the index leaves the slots and indexes the active ones.
LEMMA RebuiltIs ==
  ASSUME NEW g, Shaped(g)
  PROVE  Shaped(Rebuilt(g)) /\ Indexed(Rebuilt(g))
<1> DEFINE f == CHOOSE f : Loop(g, f, g.count)
<1>1. g.count \in Nat
  BY Sizes DEF Shaped
<1>2. Loop(g, f, g.count)
  BY <1>1, LoopExists
<1>3. Rebuilt(g) = [g EXCEPT !.hash = f[g.count]]
  BY DEF Rebuilt, Loop
<1> HIDE DEF f
<1>4. /\ Rebuilt(g) = [slots |-> g.slots, count |-> g.count, hash |-> f[g.count]]
      /\ Rebuilt(g).slots = g.slots /\ Rebuilt(g).count = g.count /\ Rebuilt(g).hash = f[g.count]
  BY <1>3 DEF Shaped
<1>5. Indexes(f[g.count], g.slots, Active(g))
  <2>1. g.count \in 0 .. g.count
    BY <1>1
  <2>2. Indexes(f[g.count], g.slots, {i \in 1 .. g.count : g.slots[i].active})
    BY <1>2, <2>1, LoopIndexes
  <2>3. QED BY <2>2 DEF Active
<1>6. Shaped(Rebuilt(g))
  BY <1>4 DEF Shaped
<1>7. QED BY <1>4, <1>5, <1>6 DEF Indexed, Active

\* A new slot for a name that has none.
LEMMA NewGlobalIs ==
  ASSUME NEW g, Shaped(g), Indexed(g), NEW w \in Words, find_global(g, w) = 0,
         NEW v \in Things \cup {NoThing}
  PROVE  Shaped(NewGlobal(g, w, v)) /\ Indexed(NewGlobal(g, w, v))
<1> DEFINE free == {i \in 1 .. MAX_GLOBAL_VARIABLES : ~g.slots[i].active}
           k == First(free)
           new == [g.slots EXCEPT ![k] = [name |-> w, thing |-> v, active |-> TRUE, buried |-> FALSE]]
           more == IF k > g.count THEN k ELSE g.count
           h == [slots |-> new, count |-> more, hash |-> HashInsert(g.hash, w, k)]
<1>1. NewGlobal(g, w, v) = IF free = {} THEN g ELSE h
  BY DEF NewGlobal
<1>2. SUFFICES ASSUME free # {} PROVE Shaped(h) /\ Indexed(h)
  BY <1>1
<1>3. k \in Slots /\ ~g.slots[k].active
  <2>1. free \in SUBSET Nat
    BY Sizes
  <2>2. k \in free
    BY <1>2, <2>1, FirstIs
  <2>3. QED BY <2>2 DEF Slots
<1> HIDE DEF k
<1>4. /\ g.slots \in [Slots -> SlotType] /\ g.count \in 0 .. MAX_GLOBAL_VARIABLES
      /\ \A i \in Slots : g.slots[i].active => i <= g.count /\ g.slots[i].name \in Words
  BY DEF Shaped
<1>5. [name |-> w, thing |-> v, active |-> TRUE, buried |-> FALSE] \in SlotType
  BY DEF SlotType
<1>6. new \in [Slots -> SlotType]
  BY <1>3, <1>4, <1>5
<1>7. /\ new[k].name = w /\ new[k].active
      /\ \A i \in Slots : i # k => new[i] = g.slots[i]
  BY <1>3, <1>4
<1> HIDE DEF new
<1>8. ASSUME NEW i \in Slots, i # k, g.slots[i].active PROVE Fold[g.slots[i].name] # Fold[w]
  <2>1. i \in Active(g) /\ g.slots[i].name \in Words
    BY <1>8, ActiveAre
  <2>2. \A j \in Active(g) : j # 0
    BY ActiveAre, Sizes DEF Slots
  <2>3. ~Same(g.slots[i].name, w)
    BY <2>1, <2>2, FindExact
  <2>4. QED BY <2>1, <2>3 DEF Same
<1>9. \A i, j \in Slots : new[i].active /\ new[j].active /\ Fold[new[i].name] = Fold[new[j].name] => i = j
  BY <1>7, <1>8 DEF Shaped
<1>10. more \in 0 .. MAX_GLOBAL_VARIABLES /\ k <= more /\ g.count <= more
  BY <1>3, <1>4, Sizes DEF Slots
<1> HIDE DEF more
<1>11. \A i \in Slots : new[i].active => i <= more /\ new[i].name \in Words
  <2>1. \A i \in Slots : i \in Nat
    BY DEF Slots
  <2>2. more \in Nat /\ g.count \in Nat
    BY <1>4, <1>10, Sizes
  <2>3. QED BY <1>4, <1>7, <1>10, <2>1, <2>2
<1>12. h.slots = new /\ h.count = more /\ h.hash = HashInsert(g.hash, w, k)
  OBVIOUS
<1>13. Shaped(h)
  BY <1>6, <1>9, <1>10, <1>11, <1>12 DEF Shaped
<1>14. Active(h) = Active(g) \cup {k} /\ k \notin Active(g)
  <2>1. \A i \in Slots : i \in Active(h) <=> new[i].active
    BY <1>12, <1>13, ActiveAre
  <2>2. \A i \in Slots : i \in Active(g) <=> g.slots[i].active
    BY ActiveAre
  <2>3. Active(h) \in SUBSET Slots /\ Active(g) \in SUBSET Slots
    BY <1>13, ActiveAre
  <2> HIDE DEF h
  <2>4. QED BY <1>3, <1>7, <2>1, <2>2, <2>3
<1>15. Indexes(HashInsert(g.hash, w, k), new, Active(g) \cup {k})
  <2>1. Active(g) \in SUBSET Slots /\ \A i \in Active(g) : g.slots[i].name \in Words
    BY ActiveAre
  <2>2. \A i \in Active(g) : new[i].name = g.slots[i].name
    BY <1>7, <1>14, <2>1
  <2>3. k \in Slots \ Active(g)
    BY <1>3, <1>14
  <2>4. Indexes(g.hash, g.slots, Active(g))
    BY DEF Indexed
  <2>5. Indexes(HashInsert(g.hash, new[k].name, k), new, Active(g) \cup {k})
    BY <1>7, <2>1, <2>2, <2>3, <2>4, InsertIndexes
  <2>6. QED BY <1>7, <2>5
<1>16. QED BY <1>12, <1>13, <1>14, <1>15 DEF Indexed

\* Slots that change neither their name nor whether they are active stay
\* indexed.
LEMMA Alike ==
  ASSUME NEW g, Shaped(g), Indexed(g), NEW new \in [Slots -> SlotType],
         \A i \in Slots : new[i].name = g.slots[i].name /\ (new[i].active <=> g.slots[i].active)
  PROVE  LET h == [slots |-> new, count |-> g.count, hash |-> g.hash]
         IN  Shaped(h) /\ Indexed(h)
<1> DEFINE h == [slots |-> new, count |-> g.count, hash |-> g.hash]
<1>1. h.slots = new /\ h.count = g.count /\ h.hash = g.hash
  OBVIOUS
<1>2. Shaped(h)
  BY <1>1 DEF Shaped
<1>3. Active(h) = Active(g) /\ Active(g) \in SUBSET Slots
  <2>1. \A i \in Slots : i \in Active(h) <=> i \in Active(g)
    BY <1>1, <1>2, ActiveAre
  <2>2. Active(h) \in SUBSET Slots /\ Active(g) \in SUBSET Slots
    BY <1>2, ActiveAre
  <2>3. QED BY <2>1, <2>2
<1>4. Indexes(g.hash, new, Active(g))
  BY <1>3, SameNames DEF Indexed
<1>5. QED BY <1>1, <1>2, <1>3, <1>4 DEF Indexed

LEMMA GlobalSetIs ==
  ASSUME NEW g, Shaped(g), Indexed(g), NEW w \in Words, NEW v \in Things
  PROVE  Shaped(GlobalSet(g, w, v)) /\ Indexed(GlobalSet(g, w, v))
<1> DEFINE i == find_global(g, w)
<1>1. CASE i = 0
  BY <1>1, NewGlobalIs DEF GlobalSet
<1>2. CASE i # 0
  <2> DEFINE new == [g.slots EXCEPT ![i].thing = v]
  <2>1. i \in Slots
    BY <1>2, FindExact, ActiveAre
  <2> HIDE DEF i
  <2>2. g.slots \in [Slots -> SlotType]
    BY DEF Shaped
  <2>3. new = [k \in Slots |-> IF k = i THEN [name |-> g.slots[i].name, thing |-> v,
                                 active |-> g.slots[i].active, buried |-> g.slots[i].buried]
                               ELSE g.slots[k]]
    BY <2>1, <2>2 DEF SlotType
  <2> HIDE DEF new
  <2>4. new \in [Slots -> SlotType]
    BY <2>1, <2>2, <2>3 DEF SlotType
  <2>5. \A k \in Slots : new[k].name = g.slots[k].name /\ (new[k].active <=> g.slots[k].active)
    BY <2>1, <2>3
  <2>6. [g EXCEPT !.slots[i].thing = v] = [slots |-> new, count |-> g.count, hash |-> g.hash]
    BY DEF Shaped, new
  <2>7. GlobalSet(g, w, v) = [slots |-> new, count |-> g.count, hash |-> g.hash]
    BY <1>2, <2>6 DEF GlobalSet, i
  <2>8. QED BY <2>4, <2>5, <2>7, Alike
<1>3. QED BY <1>1, <1>2

LEMMA GlobalDeclareIs ==
  ASSUME NEW g, Shaped(g), Indexed(g), NEW w \in Words
  PROVE  Shaped(GlobalDeclare(g, w)) /\ Indexed(GlobalDeclare(g, w))
  BY NewGlobalIs DEF GlobalDeclare

LEMMA BuryGlobalsIs ==
  ASSUME NEW g, Shaped(g), Indexed(g), NEW some, NEW way \in BOOLEAN
  PROVE  Shaped(BuryGlobals(g, some, way)) /\ Indexed(BuryGlobals(g, some, way))
<1> DEFINE new == [i \in DOMAIN g.slots |-> IF i \in some THEN [g.slots[i] EXCEPT !.buried = way]
                                            ELSE g.slots[i]]
<1>1. g.slots \in [Slots -> SlotType]
  BY DEF Shaped
<1>2. ASSUME NEW s \in SlotType
      PROVE  /\ [s EXCEPT !.buried = way] \in SlotType
             /\ [s EXCEPT !.buried = way].name = s.name /\ [s EXCEPT !.buried = way].active = s.active
  BY DEF SlotType
<1>3. new \in [Slots -> SlotType]
  BY <1>1, <1>2
<1>4. \A i \in Slots : new[i].name = g.slots[i].name /\ (new[i].active <=> g.slots[i].active)
  BY <1>1, <1>2
<1>5. BuryGlobals(g, some, way) = [slots |-> new, count |-> g.count, hash |-> g.hash]
  BY DEF BuryGlobals, Shaped
<1> HIDE DEF new
<1>6. QED BY <1>3, <1>4, <1>5, Alike

LEMMA EraseGlobalsIs ==
  ASSUME NEW g, Shaped(g), NEW gone
  PROVE  Shaped(EraseGlobals(g, gone)) /\ Indexed(EraseGlobals(g, gone))
<1> DEFINE new == [i \in DOMAIN g.slots |-> IF i \in gone
                     THEN [g.slots[i] EXCEPT !.active = FALSE, !.thing = NoThing]
                     ELSE g.slots[i]]
           h == [slots |-> new, count |-> g.count, hash |-> g.hash]
<1>1. g.slots \in [Slots -> SlotType]
  BY DEF Shaped
<1>2. ASSUME NEW s \in SlotType
      PROVE  /\ [s EXCEPT !.active = FALSE, !.thing = NoThing]
                  = [name |-> s.name, thing |-> NoThing, active |-> FALSE, buried |-> s.buried]
             /\ [name |-> s.name, thing |-> NoThing, active |-> FALSE, buried |-> s.buried] \in SlotType
  <2> DEFINE r == [s EXCEPT !.active = FALSE]
             e == [name |-> s.name, thing |-> NoThing, active |-> FALSE, buried |-> s.buried]
  <2>2. r \in SlotType /\ r.name = s.name /\ r.buried = s.buried /\ r.active = FALSE
    BY DEF SlotType
  <2>3. [s EXCEPT !.active = FALSE, !.thing = NoThing] = [r EXCEPT !.thing = NoThing]
    OBVIOUS
  <2> HIDE DEF r
  <2>4. [r EXCEPT !.thing = NoThing] = e
    <3>1. [r EXCEPT !.thing = NoThing]
            = [name |-> r.name, thing |-> NoThing, active |-> r.active, buried |-> r.buried]
      BY <2>2 DEF SlotType
    <3>2. QED BY <2>2, <3>1
  <2>5. e \in SlotType
    BY DEF SlotType
  <2>6. QED BY <2>3, <2>4, <2>5
<1>3. new = [i \in Slots |-> IF i \in gone
                              THEN [name |-> g.slots[i].name, thing |-> NoThing, active |-> FALSE,
                                    buried |-> g.slots[i].buried]
                              ELSE g.slots[i]]
  BY <1>1, <1>2
<1>4. /\ new \in [Slots -> SlotType]
      /\ \A i \in Slots : new[i].active => g.slots[i].active /\ new[i].name = g.slots[i].name
  <2> HIDE DEF new
  <2>1. \A i \in Slots : [name |-> g.slots[i].name, thing |-> NoThing, active |-> FALSE,
                           buried |-> g.slots[i].buried] \in SlotType
    BY <1>1, <1>2
  <2>2. \A i \in Slots : new[i].active => i \notin gone
    BY <1>3
  <2>3. QED BY <1>1, <1>3, <2>1, <2>2
<1>5. EraseGlobals(g, gone) = Rebuilt(h)
  <2>1. EraseGlobals(g, gone) = Rebuilt([g EXCEPT !.slots = new])
    BY DEF EraseGlobals
  <2> HIDE DEF new
  <2>2. [g EXCEPT !.slots = new] = h
    BY DEF Shaped
  <2>3. QED BY <2>1, <2>2
<1> HIDE DEF new
<1>6. Shaped(h)
  <2>1. h.slots = new /\ h.count = g.count /\ h.hash = g.hash
    OBVIOUS
  <2>2. g.count \in 0 .. MAX_GLOBAL_VARIABLES /\ h = [slots |-> h.slots, count |-> h.count, hash |-> h.hash]
    BY DEF Shaped
  <2> HIDE DEF h
  <2>3. \A i \in Slots : new[i].active => i <= g.count /\ new[i].name \in Words
    BY <1>4 DEF Shaped
  <2>4. \A i, j \in Slots : new[i].active /\ new[j].active /\ Fold[new[i].name] = Fold[new[j].name] => i = j
    BY <1>4 DEF Shaped
  <2>5. \A i \in Slots : h.slots[i].active => i <= h.count /\ h.slots[i].name \in Words
    BY <2>1, <2>3
  <2>6. \A i, j \in Slots : h.slots[i].active /\ h.slots[j].active /\ Fold[h.slots[i].name] = Fold[h.slots[j].name] => i = j
    BY <2>1, <2>4
  <2>7. h.slots \in [Slots -> SlotType] /\ h.count \in 0 .. MAX_GLOBAL_VARIABLES
    BY <1>4, <2>1, <2>2
  <2>8. QED BY <2>2, <2>5, <2>6, <2>7, Zenon DEF Shaped
<1>7. QED BY <1>5, <1>6, RebuiltIs

\* The program's words and things are words and things.
ProgramKnown == program \in Programs
GlobalsInv   == ProgramKnown /\ Shaped(globals) /\ Indexed(globals)

LEMMA Speaks ==
  ASSUME ProgramKnown
  PROVE  program.words \subseteq Words /\ program.things \subseteq Things
  BY WorkspaceAssumption DEF ProgramKnown

LEMMA GlobalsInit == Init => GlobalsInv
<1> SUFFICES ASSUME Init PROVE GlobalsInv
  OBVIOUS
<1> DEFINE none == [i \in 1 .. MAX_GLOBAL_VARIABLES |->
                      [name |-> NoWord, thing |-> NoThing, active |-> FALSE, buried |-> FALSE]]
<1>1. globals.slots = none /\ globals.count = 0 /\ globals.hash = EmptyHash
      /\ globals = [slots |-> globals.slots, count |-> globals.count, hash |-> globals.hash]
  BY DEF Init
<1>2. none \in [Slots -> SlotType] /\ \A i \in Slots : ~none[i].active
  BY DEF SlotType, Slots
<1> HIDE DEF none
<1>3. Shaped(globals)
  BY <1>1, <1>2, Sizes DEF Shaped
<1>4. Active(globals) = {}
  BY <1>1, <1>2, <1>3, ActiveAre
<1>5. QED BY <1>1, <1>3, <1>4, EmptyIndexes DEF Indexed, GlobalsInv, ProgramKnown, Init

\* A step that gives the table another keeps the invariant.
LEMMA GlobalsKept == GlobalsInv /\ [Next]_vars => GlobalsInv'
<1> SUFFICES ASSUME GlobalsInv, [Next]_vars PROVE GlobalsInv'
  OBVIOUS
<1>1. ASSUME UNCHANGED <<globals, program>> PROVE GlobalsInv'
  BY <1>1 DEF GlobalsInv, ProgramKnown, Shaped, Indexed, Active
<1>2. ASSUME NEW g, Globals(g), Shaped(g), Indexed(g) PROVE GlobalsInv'
  BY <1>2 DEF Globals, GlobalsInv, ProgramKnown, Shaped, Indexed, Active
<1>3. ASSUME NEW g, globals' = g, program' = program, Shaped(g), Indexed(g) PROVE GlobalsInv'
  BY <1>3 DEF GlobalsInv, ProgramKnown, Shaped, Indexed, Active
<1>4. program.words \subseteq Words /\ program.things \subseteq Things
  BY Speaks DEF GlobalsInv
<1>5. Shaped(globals) /\ Indexed(globals)
  BY DEF GlobalsInv
<1>6. ASSUME NEW s, Locals(s) PROVE GlobalsInv'
  BY <1>1, <1>6 DEF Locals
<1>7. ASSUME NEW w \in program.words, NEW v \in program.things, Make(w, v) PROVE GlobalsInv'
  <2>1. w \in Words /\ v \in Things
    BY <1>4
  <2>2. Locals(SetBinding(stack, BinderOf(stack, w), w, v)) \/ Globals(GlobalSet(globals, w, v))
    BY <1>7 DEF Make
  <2>3. QED BY <1>2, <1>5, <1>6, <2>1, <2>2, GlobalSetIs
<1>8. ASSUME NEW w \in program.words, NEW v \in program.things, Localmake(w, v) PROVE GlobalsInv'
  <2>1. w \in Words /\ v \in Things
    BY <1>4
  <2>2. globals' \in {globals, GlobalSet(globals, w, v)} /\ program' = program
    BY <1>8 DEF Localmake, Globals
  <2>3. QED BY <1>1, <1>3, <1>5, <2>1, <2>2, GlobalSetIs
<1>9. ASSUME NEW w \in program.words, Local(w) PROVE GlobalsInv'
  <2>1. w \in Words
    BY <1>4
  <2>2. Locals(frame_add_local(stack, w)) \/ Globals(GlobalDeclare(globals, w))
    BY <1>9 DEF Local
  <2>3. QED BY <1>2, <1>5, <1>6, <2>1, <2>2, GlobalDeclareIs
<1>10. ASSUME NEW w \in program.words, Ern(w) PROVE GlobalsInv'
  BY <1>2, <1>5, <1>10, EraseGlobalsIs DEF Ern
<1>11. ASSUME Erns PROVE GlobalsInv'
  BY <1>2, <1>5, <1>11, EraseGlobalsIs DEF Erns
<1>12. ASSUME NEW w \in program.words, NEW way \in BOOLEAN, Buryname(w, way) PROVE GlobalsInv'
  BY <1>2, <1>5, <1>12, BuryGlobalsIs DEF Buryname
<1>13. ASSUME Buryall PROVE GlobalsInv'
  BY <1>3, <1>5, <1>13, BuryGlobalsIs DEF Buryall
<1>14. ASSUME Unburyall PROVE GlobalsInv'
  BY <1>3, <1>5, <1>14, BuryGlobalsIs DEF Unburyall
<1>15. ASSUME Erall PROVE GlobalsInv'
  BY <1>3, <1>5, <1>15, EraseGlobalsIs DEF Erall
<1>16. ASSUME NEW p, Procs(p) PROVE GlobalsInv'
  BY <1>1, <1>16 DEF Procs
<1>17. ASSUME NEW w, Call(w) \/ Mention(w) \/ CallEnters \/ CallFails PROVE GlobalsInv'
  BY <1>1, <1>17 DEF Call, Mention, CallEnters, CallFails
<1>18. ASSUME NEW w \in program.words, Erase(w) PROVE GlobalsInv'
  BY <1>16, <1>18 DEF Erase
<1>19. ASSUME \/ Return \/ proc_reset_execution_state \/ PauseLine \/ PauseLineEnds \/ PauseLineFails
              \/ \E b \in Outcomes : Test(b)
       PROVE GlobalsInv'
  BY <1>1, <1>19 DEF Return, proc_reset_execution_state, PauseLine, PauseLineEnds, PauseLineFails, Test
<1>20. ASSUME NEW w \in program.words, NEW text \in Texts, Define(w, text) PROVE GlobalsInv'
  BY <1>16, <1>20 DEF Define
<1>21. ASSUME NEW w, NEW new, Copydef(w, new) PROVE GlobalsInv'
  BY <1>1, <1>16, <1>21 DEF Copydef, Alias
<1>22. ASSUME Erps PROVE GlobalsInv'
  BY <1>16, <1>22 DEF Erps
<1>23. ASSUME NEW w, NEW mark, NEW on, SetMark(w, mark, on) PROVE GlobalsInv'
  BY <1>1, <1>23 DEF SetMark
<1>24. ASSUME NEW l, Props(l) PROVE GlobalsInv'
  BY <1>1, <1>24 DEF Props
<1>25. ASSUME \/ \E w, p \in program.words, v \in program.things : Pprop(w, p, v)
              \/ \E w, p \in program.words : Remprop(w, p)
              \/ Erprops
       PROVE GlobalsInv'
  BY <1>24, <1>25 DEF Pprop, Remprop, Erprops
<1>26. CASE UNCHANGED vars
  BY <1>1, <1>26 DEF vars
<1>27. QED BY <1>7, <1>8, <1>9, <1>10, <1>11, <1>12, <1>13, <1>14, <1>15, <1>17, <1>18, <1>19,
              <1>20, <1>21, <1>22, <1>23, <1>25, <1>26 DEF Next

LEMMA GlobalsAlways == Spec => []GlobalsInv
  BY GlobalsInit, GlobalsKept, PTL DEF Spec

\* The hash index of variables.c finds every active global by its name, and
\* nothing else, whatever names were made and erased before and however they
\* collide.
THEOREM LookupAlwaysExact == Spec => []LookupExact
<1>1. GlobalsInv => LookupExact
  BY FindExact DEF GlobalsInv, LookupExact
<1>2. QED BY <1>1, GlobalsAlways, PTL

-----------------------------------------------------------------------------
(* Procedures, primitives and what each word was found to name.            *)

ProcSlots == 1 .. MAX_PROCEDURES
ProcType  == [name : Words \cup {NoWord}, text : Texts \cup {NoWord}, marks : SUBSET Marks]

\* A table of the right shape in which every name has a text.
Listed(p) ==
  /\ p = [slots |-> p.slots, count |-> p.count]
  /\ p.slots \in [ProcSlots -> ProcType] /\ p.count \in 0 .. MAX_PROCEDURES
  /\ \A i \in ProcSlots : p.slots[i].name # NoWord => p.slots[i].text \in Texts

LEMMA FoundProcedure ==
  ASSUME NEW p, Listed(p), NEW w, find_procedure(p, w) # 0
  PROVE  /\ find_procedure(p, w) \in ProcSlots
         /\ Same(p.slots[find_procedure(p, w)].name, w)
         /\ p.slots[find_procedure(p, w)].text \in Texts
<1> DEFINE here == {i \in 1 .. p.count : Same(p.slots[i].name, w)}
<1>1. here \in SUBSET Nat /\ \A i \in here : i \in ProcSlots
  BY Sizes DEF Listed, ProcSlots
<1>2. here # {} => First(here) \in here
  BY <1>1, FirstIs
<1>3. find_procedure(p, w) \in here
  BY <1>2 DEF find_procedure
<1>4. find_procedure(p, w) \in ProcSlots /\ Same(p.slots[find_procedure(p, w)].name, w)
  BY <1>1, <1>3
<1>5. p.slots[find_procedure(p, w)].name # NoWord
  BY <1>4, WorkspaceAssumption DEF Same
<1>6. QED BY <1>4, <1>5 DEF Listed

\* Marks do not change what is found.
LEMMA MarkProcsIs ==
  ASSUME NEW p, Listed(p), NEW some, NEW mark \in Marks, NEW on \in BOOLEAN
  PROVE  /\ Listed(MarkProcs(p, some, mark, on))
         /\ \A w : find_procedure(MarkProcs(p, some, mark, on), w) = find_procedure(p, w)
<1> DEFINE new == [i \in DOMAIN p.slots |->
                     IF i \in some
                     THEN Marked(p.slots[i], mark, on)
                     ELSE p.slots[i]]
           q == [slots |-> new, count |-> p.count]
<1>1. p.slots \in [ProcSlots -> ProcType] /\ p.count \in 0 .. MAX_PROCEDURES
  BY DEF Listed
<1>2. ASSUME NEW s \in ProcType
      PROVE  /\ Marked(s, mark, on) \in ProcType
             /\ Marked(s, mark, on).name = s.name /\ Marked(s, mark, on).text = s.text
  <2>1. PICK worn \in SUBSET Marks : worn = IF on THEN s.marks \cup {mark} ELSE s.marks \ {mark}
    BY DEF ProcType
  <2>2. Marked(s, mark, on) = [s EXCEPT !.marks = worn]
    BY <2>1 DEF Marked
  <2>3. QED BY <2>2 DEF ProcType
<1>3. MarkProcs(p, some, mark, on) = q
  <2>1. MarkProcs(p, some, mark, on) = [p EXCEPT !.slots = new]
    BY DEF MarkProcs
  <2> HIDE DEF new
  <2>2. QED BY <2>1 DEF Listed
<1>4. /\ new \in [ProcSlots -> ProcType]
      /\ \A i \in ProcSlots : new[i].name = p.slots[i].name /\ new[i].text = p.slots[i].text
  BY <1>1, <1>2
<1> HIDE DEF new
<1>5. q.slots = new /\ q.count = p.count
  OBVIOUS
<1>6. Listed(q)
  BY <1>1, <1>4, <1>5 DEF Listed
<1>7. ASSUME NEW w PROVE find_procedure(q, w) = find_procedure(p, w)
  <2>1. 1 .. p.count \subseteq ProcSlots
    BY <1>1, Sizes DEF ProcSlots
  <2>2. {i \in 1 .. q.count : Same(q.slots[i].name, w)} = {i \in 1 .. p.count : Same(p.slots[i].name, w)}
    BY <1>4, <1>5, <2>1
  <2>3. QED BY <2>2 DEF find_procedure
<1>8. QED BY <1>3, <1>6, <1>7

LEMMA EraseProcsIs ==
  ASSUME NEW p, Listed(p), NEW gone
  PROVE  Listed(EraseProcs(p, gone))
<1> DEFINE new == [i \in DOMAIN p.slots |-> IF i \in gone THEN [p.slots[i] EXCEPT !.name = NoWord]
                                            ELSE p.slots[i]]
           q == [slots |-> new, count |-> p.count]
<1>1. p.slots \in [ProcSlots -> ProcType] /\ p.count \in 0 .. MAX_PROCEDURES
      /\ \A i \in ProcSlots : p.slots[i].name # NoWord => p.slots[i].text \in Texts
  BY DEF Listed
<1>2. ASSUME NEW s \in ProcType
      PROVE  [s EXCEPT !.name = NoWord] \in ProcType /\ [s EXCEPT !.name = NoWord].name = NoWord
  BY DEF ProcType
<1>3. EraseProcs(p, gone) = q
  BY DEF EraseProcs, Listed
<1>4. /\ new \in [ProcSlots -> ProcType]
      /\ \A i \in ProcSlots : new[i].name # NoWord => new[i] = p.slots[i]
  BY <1>1, <1>2
<1> HIDE DEF new
<1>5. q.slots = new /\ q.count = p.count
  OBVIOUS
<1>6. \A i \in ProcSlots : new[i].name # NoWord => new[i].text \in Texts
  BY <1>1, <1>4
<1>7. Listed(q)
  BY <1>1, <1>4, <1>5, <1>6 DEF Listed
<1>8. QED BY <1>3, <1>7

LEMMA proc_defineIs ==
  ASSUME NEW p, Listed(p), NEW w \in Words, NEW text \in Texts
  PROVE  Listed(proc_define(p, w, text))
<1> DEFINE i == find_procedure(p, w)
           free == {k \in 1 .. MAX_PROCEDURES : p.slots[k].name = NoWord}
           k == First(free)
<1>1. p.slots \in [ProcSlots -> ProcType] /\ p.count \in 0 .. MAX_PROCEDURES
      /\ \A j \in ProcSlots : p.slots[j].name # NoWord => p.slots[j].text \in Texts
  BY DEF Listed
<1>2. CASE i # 0
  <2> DEFINE new == [p.slots EXCEPT ![i].text = text]
             q == [slots |-> new, count |-> p.count]
  <2>1. i \in ProcSlots
    BY <1>2, FoundProcedure
  <2>2. proc_define(p, w, text) = [p EXCEPT !.slots[i].text = text]
    BY <1>2 DEF proc_define
  <2>3. [p EXCEPT !.slots[i].text = text] = q
    BY DEF Listed
  <2> HIDE DEF i
  <2>4. /\ new \in [ProcSlots -> ProcType]
        /\ \A j \in ProcSlots : /\ new[j].text \in {p.slots[j].text, text}
                                 /\ new[j].name = p.slots[j].name
    BY <1>1, <2>1 DEF ProcType
  <2> HIDE DEF new
  <2>5. q.slots = new /\ q.count = p.count
    OBVIOUS
  <2>6. Listed(q)
    BY <1>1, <2>4, <2>5 DEF Listed
  <2>7. QED BY <2>2, <2>3, <2>6
<1>3. CASE i = 0 /\ free = {}
  BY <1>3 DEF proc_define
<1>4. CASE i = 0 /\ free # {}
  <2> DEFINE new == [p.slots EXCEPT ![k] = [name |-> w, text |-> text, marks |-> {}]]
             more == IF k > p.count THEN k ELSE p.count
             q == [slots |-> new, count |-> more]
  <2>1. k \in ProcSlots
    <3>1. free \in SUBSET Nat
      BY Sizes
    <3>2. k \in free
      BY <1>4, <3>1, FirstIs
    <3>3. QED BY <3>2 DEF ProcSlots
  <2>2. proc_define(p, w, text) = q
    BY <1>4 DEF proc_define
  <2> HIDE DEF k
  <2>3. [name |-> w, text |-> text, marks |-> {}] \in ProcType
    BY DEF ProcType
  <2>4. new \in [ProcSlots -> ProcType] /\ \A j \in ProcSlots : new[j].name # NoWord => new[j].text \in Texts
    BY <1>1, <2>1, <2>3
  <2>5. more \in 0 .. MAX_PROCEDURES
    BY <1>1, <2>1, Sizes DEF ProcSlots
  <2> HIDE DEF new, more
  <2>6. q.slots = new /\ q.count = more
    OBVIOUS
  <2>7. Listed(q)
    BY <2>4, <2>5, <2>6 DEF Listed
  <2>8. QED BY <2>2, <2>7
<1>5. QED BY <1>2, <1>3, <1>4

\* What a word names has to be looked up again when a primitive or procedure
\* was added, erased or renamed, and for no other reason.
Kinds == {"unresolved", "primitive", "procedure", "none"}

NamesInv ==
  /\ ProgramKnown /\ Listed(procs)
  /\ memo = [w \in Words |-> memo[w]] /\ \A w \in Words : memo[w].kind \in Kinds
  /\ BindingsCurrent

LEMMA NamesInit == Init => NamesInv
<1> SUFFICES ASSUME Init PROVE NamesInv
  OBVIOUS
<1>1. ProgramKnown
  BY DEF Init, ProgramKnown
<1> DEFINE n == Len(program.library)
           slot(i) == IF i <= n THEN [name |-> program.library[i][1], text |-> program.library[i][2],
                                      marks |-> {}]
                      ELSE [name |-> NoWord, text |-> NoWord, marks |-> {}]
           new == [i \in 1 .. MAX_PROCEDURES |-> slot(i)]
<1>2. program.library \in Seq(Words \X Texts) /\ n <= MAX_PROCEDURES
  BY <1>1, WorkspaceAssumption DEF ProgramKnown
<1>3. n \in 0 .. MAX_PROCEDURES
  BY <1>2, Sizes, LenProperties
<1>4. procs.slots = new /\ procs.count = n /\ procs = [slots |-> procs.slots, count |-> procs.count]
  BY DEF Init, Library
<1>5. ASSUME NEW i \in ProcSlots
      PROVE  slot(i) \in ProcType /\ (slot(i).name # NoWord => slot(i).text \in Texts)
  <2>1. CASE i <= n
    <3>1. i \in 1 .. Len(program.library)
      BY <1>3, <2>1, Sizes DEF ProcSlots
    <3>2. program.library[i] \in Words \X Texts
      BY <1>2, <3>1, ElementOfSeq
    <3>3. program.library[i][1] \in Words /\ program.library[i][2] \in Texts
      BY <3>2
    <3>4. slot(i) = [name |-> program.library[i][1], text |-> program.library[i][2], marks |-> {}]
      BY <2>1
    <3> HIDE DEF slot, n
    <3>5. QED BY <3>3, <3>4 DEF ProcType
  <2>2. CASE ~(i <= n)
    <3>1. slot(i) = [name |-> NoWord, text |-> NoWord, marks |-> {}]
      BY <2>2
    <3> HIDE DEF slot, n
    <3>2. QED BY <3>1 DEF ProcType
  <2>3. QED BY <2>1, <2>2
<1> HIDE DEF slot, n
<1>6. new \in [ProcSlots -> ProcType] /\ \A i \in ProcSlots : new[i].name # NoWord => new[i].text \in Texts
  BY <1>5 DEF ProcSlots
<1>7. Listed(procs)
  BY <1>3, <1>4, <1>6 DEF Listed
<1>8. memo = [w \in Words |-> memo[w]] /\ \A w \in Words : memo[w].kind = "unresolved"
  BY DEF Init, Unresolved
<1>9. QED BY <1>1, <1>7, <1>8 DEF NamesInv, Kinds, BindingsCurrent

\* A change of procedures or primitives makes every word forget.
LEMMA Forgotten ==
  ASSUME ProgramKnown, program' = program, Listed(procs'), memo' = Unresolved
  PROVE  NamesInv'
<1>1. memo' = [w \in Words |-> memo'[w]] /\ \A w \in Words : memo'[w].kind = "unresolved"
  BY DEF Unresolved
<1>2. QED BY <1>1 DEF NamesInv, Kinds, BindingsCurrent, ProgramKnown

\* A table that finds the same makes no word forget.
LEMMA NothingMoved ==
  ASSUME NamesInv, program' = program, Listed(procs'), UNCHANGED <<prims, memo>>,
         \A w : find_procedure(procs', w) = find_procedure(procs, w)
  PROVE  NamesInv'
<1>1. \A w : Looked(w)' = Looked(w)
  BY DEF Looked, primitive_find
<1>2. BindingsCurrent'
  BY <1>1 DEF BindingsCurrent, NamesInv
<1>3. QED BY <1>2 DEF NamesInv, ProgramKnown

\* Looking a word up changes what its atom remembers to what it names.
LEMMA RememberIs ==
  ASSUME NamesInv, NEW w \in Words
  PROVE  resolve_word(w) = Looked(w) /\ Looked(w).kind \in Kinds
<1>1. Looked(w).kind \in Kinds
  BY DEF Looked, Kinds
<1>2. memo[w].kind # "unresolved" => memo[w] = Looked(w)
  BY DEF NamesInv, BindingsCurrent
<1>3. CASE memo[w].kind = "unresolved"
  BY <1>1, <1>3 DEF resolve_word
<1>4. CASE memo[w].kind # "unresolved"
  BY <1>1, <1>2, <1>4 DEF resolve_word
<1>5. QED BY <1>3, <1>4

LEMMA Remembered ==
  ASSUME NamesInv, NEW w \in Words, Remember(w), UNCHANGED <<procs, prims, program>>
  PROVE  NamesInv'
<1>1. memo' = [memo EXCEPT ![w] = Looked(w)]
  BY RememberIs DEF Remember
<1>2. Looked(w).kind \in Kinds /\ memo = [x \in Words |-> memo[x]]
      /\ \A x \in Words : memo[x].kind \in Kinds /\ (memo[x].kind # "unresolved" => memo[x] = Looked(x))
  BY RememberIs DEF NamesInv, BindingsCurrent
<1>3. \A x \in Words : memo'[x] = IF x = w THEN Looked(w) ELSE memo[x]
  BY <1>1, <1>2
<1>4. memo' = [x \in Words |-> memo'[x]]
  BY <1>1, <1>2
<1>5. \A x : Looked(x)' = Looked(x)
  BY DEF Looked, primitive_find
<1>6. BindingsCurrent'
  BY <1>2, <1>3, <1>5 DEF BindingsCurrent
<1>7. \A x \in Words : memo'[x].kind \in Kinds
  BY <1>2, <1>3
<1>8. Listed(procs)' /\ ProgramKnown'
  BY DEF NamesInv, Listed, ProgramKnown
<1>9. QED BY <1>4, <1>6, <1>7, <1>8 DEF NamesInv

LEMMA NamesKept == NamesInv /\ [Next]_vars => NamesInv'
<1> SUFFICES ASSUME NamesInv, [Next]_vars PROVE NamesInv'
  OBVIOUS
<1>1. ProgramKnown /\ Listed(procs)
  BY DEF NamesInv
<1>2. program.words \subseteq Words
  BY <1>1, Speaks
<1>3. ASSUME UNCHANGED <<procs, prims, memo, program>> PROVE NamesInv'
  BY <1>1, <1>3, NothingMoved
<1>4. ASSUME NEW g, Globals(g) PROVE NamesInv'
  BY <1>3, <1>4 DEF Globals
<1>5. ASSUME NEW s, Locals(s) PROVE NamesInv'
  BY <1>3, <1>5 DEF Locals
<1>6. ASSUME NEW p, Procs(p), Listed(p) PROVE NamesInv'
  BY <1>1, <1>6, Forgotten DEF Procs
<1>7. ASSUME NEW l, Props(l) PROVE NamesInv'
  BY <1>3, <1>7 DEF Props
<1>8. ASSUME NEW some, NEW mark \in Marks, NEW on \in BOOLEAN,
             procs' = MarkProcs(procs, some, mark, on), UNCHANGED <<prims, memo, program>>
      PROVE  NamesInv'
  BY <1>1, <1>8, MarkProcsIs, NothingMoved
<1>9. ASSUME NEW w, NEW v, Make(w, v) PROVE NamesInv'
  BY <1>4, <1>5, <1>9 DEF Make
<1>10. ASSUME NEW w, NEW v, Localmake(w, v) PROVE NamesInv'
  <2>1. UNCHANGED <<procs, prims, memo, program>>
    BY <1>10 DEF Localmake, Globals
  <2>2. QED BY <1>3, <2>1
<1>11. ASSUME NEW w, Local(w) PROVE NamesInv'
  BY <1>4, <1>5, <1>11 DEF Local
<1>12. ASSUME NEW w, Ern(w) PROVE NamesInv'
  BY <1>4, <1>12 DEF Ern
<1>13. ASSUME Erns PROVE NamesInv'
  BY <1>4, <1>13 DEF Erns
<1>14. ASSUME NEW w, NEW way, Buryname(w, way) PROVE NamesInv'
  BY <1>4, <1>14 DEF Buryname
<1>15. ASSUME Buryall PROVE NamesInv'
  BY <1>8, <1>15, WorkspaceAssumption DEF Buryall
<1>16. ASSUME Unburyall PROVE NamesInv'
  BY <1>8, <1>16, WorkspaceAssumption DEF Unburyall
<1>17. ASSUME Erall PROVE NamesInv'
  BY <1>1, <1>17, EraseProcsIs, Forgotten DEF Erall
<1>18. ASSUME NEW w \in program.words, Call(w) \/ Mention(w) PROVE NamesInv'
  BY <1>2, <1>18, Remembered DEF Call, Mention
<1>19. ASSUME CallEnters \/ CallFails PROVE NamesInv'
  BY <1>3, <1>19 DEF CallEnters, CallFails
<1>20. ASSUME NEW w, Erase(w) PROVE NamesInv'
  BY <1>1, <1>6, <1>20, EraseProcsIs DEF Erase
<1>21. ASSUME \/ Return \/ proc_reset_execution_state \/ PauseLine \/ PauseLineEnds \/ PauseLineFails
              \/ \E b \in Outcomes : Test(b)
       PROVE NamesInv'
  BY <1>3, <1>21 DEF Return, proc_reset_execution_state, PauseLine, PauseLineEnds, PauseLineFails, Test
<1>22. ASSUME NEW w \in program.words, NEW text \in Texts, Define(w, text) PROVE NamesInv'
  BY <1>1, <1>2, <1>6, <1>22, proc_defineIs DEF Define
<1>23. ASSUME NEW w \in program.words, NEW new \in program.words, Copydef(w, new) PROVE NamesInv'
  <2>1. CASE Alias(new)
    BY <1>1, <2>1, Forgotten DEF Alias, Listed
  <2>2. CASE /\ find_procedure(procs, w) # 0
             /\ Procs(proc_define(procs, new, procs.slots[find_procedure(procs, w)].text))
    <3>1. procs.slots[find_procedure(procs, w)].text \in Texts
      BY <1>1, <2>2, FoundProcedure
    <3>2. Listed(proc_define(procs, new, procs.slots[find_procedure(procs, w)].text))
      BY <1>1, <1>2, <3>1, proc_defineIs
    <3>3. QED BY <1>6, <2>2, <3>2
  <2>3. QED BY <1>23, <2>1, <2>2 DEF Copydef
<1>24. ASSUME Erps PROVE NamesInv'
  BY <1>1, <1>6, <1>24, EraseProcsIs DEF Erps
<1>25. ASSUME NEW w, NEW mark \in Marks, NEW on \in BOOLEAN, SetMark(w, mark, on) PROVE NamesInv'
  BY <1>8, <1>25 DEF SetMark
<1>26. ASSUME \/ \E w, p \in program.words, v \in program.things : Pprop(w, p, v)
              \/ \E w, p \in program.words : Remprop(w, p)
              \/ Erprops
       PROVE NamesInv'
  BY <1>7, <1>26 DEF Pprop, Remprop, Erprops
<1>27. CASE UNCHANGED vars
  BY <1>3, <1>27 DEF vars
<1>28. QED BY <1>9, <1>10, <1>11, <1>12, <1>13, <1>14, <1>15, <1>16, <1>17, <1>18, <1>19, <1>20,
              <1>21, <1>22, <1>23, <1>24, <1>25, <1>26, <1>27 DEF Next

LEMMA NamesAlways == Spec => []NamesInv
  BY NamesInit, NamesKept, PTL DEF Spec

\* What an atom remembers is what a search of the tables would find: every
\* definition, erasure and alias in procedures.c and primitives.c that could
\* change it makes the atoms forget.
THEOREM BindingsAlwaysCurrent == Spec => []BindingsCurrent
<1>1. NamesInv => BindingsCurrent
  BY DEF NamesInv
<1>2. QED BY <1>1, NamesAlways, PTL

-----------------------------------------------------------------------------
(* Frames in the arena.                                                    *)

BindType  == [name : Words, thing : Things \cup {NoThing}]
FrameType == [at : Nat, size : Nat, inputs : Nat, binds : Seq(BindType), test : Outcomes \cup {Untested}]

\* A frame has room for its bindings, inputs first.
Fits(f) == f.inputs <= Len(f.binds) /\ Free(f) >= 0

Tiles(s) ==
  /\ s = [top |-> s.top, frames |-> s.frames]
  /\ s.top \in 0 .. ArenaWords /\ s.frames \in Seq(FrameType)
  /\ \A d \in DOMAIN s.frames :
       /\ Fits(s.frames[d])
       /\ s.frames[d].at + s.frames[d].size = IF d = 1 THEN s.top ELSE s.frames[d - 1].at
       /\ d = Len(s.frames) => s.frames[d].at = 0
  /\ s.frames = << >> => s.top = 0

LEMMA Times ==
  ASSUME NEW n \in Nat
  PROVE  /\ n * BINDING_WORDS \in Nat
         /\ (n + 1) * BINDING_WORDS = n * BINDING_WORDS + BINDING_WORDS
         /\ \A m \in Nat : m <= n => m * BINDING_WORDS <= n * BINDING_WORDS
<1>1. PICK b \in Nat : b = BINDING_WORDS
  BY Sizes
<1>2. n * b \in Nat /\ (n + 1) * b = n * b + b
  OBVIOUS
<1>3. ASSUME NEW m \in Nat, m <= n PROVE m * b <= n * b
  BY <1>3
<1>4. QED BY <1>1, <1>2, <1>3

LEMMA BoundIs ==
  ASSUME NEW text \in Texts, NEW T \in SUBSET Things,
         NEW args \in [1 .. Len(InputsOf[text]) -> T]
  PROVE  /\ Bound(InputsOf[text], args) \in Seq(BindType)
         /\ Len(Bound(InputsOf[text], args)) = Len(args) /\ Len(args) \in Nat
<1>1. InputsOf[text] \in Seq(Words) /\ Len(InputsOf[text]) \in Nat
  BY WorkspaceAssumption, LenProperties
<1>2. PICK n \in Nat : n = Len(InputsOf[text])
  BY <1>1
<1>3. args \in Seq(T) /\ Len(args) = n
  <2>1. args \in [1 .. n -> T]
    BY <1>2
  <2>2. args \in Seq(T) /\ DOMAIN args = 1 .. n
    BY <2>1, IsASeq
  <2>3. QED BY <1>2, <2>2, LenProperties
<1>4. DOMAIN args = 1 .. n
  BY <1>2
<1>5. ASSUME NEW i \in 1 .. n
      PROVE  [name |-> InputsOf[text][i], thing |-> args[i]] \in BindType
  <2>1. InputsOf[text][i] \in Words
    BY <1>1, <1>2, ElementOfSeq
  <2>2. args[i] \in Things
    BY <1>2
  <2>3. QED BY <2>1, <2>2 DEF BindType
<1>6. Bound(InputsOf[text], args) \in [1 .. n -> BindType]
  BY <1>4, <1>5 DEF Bound
<1>7. Bound(InputsOf[text], args) \in Seq(BindType) /\ DOMAIN Bound(InputsOf[text], args) = 1 .. n
  BY <1>6, IsASeq
<1>8. Len(Bound(InputsOf[text], args)) = n
  BY <1>2, <1>7, LenProperties
<1>9. QED BY <1>2, <1>3, <1>7, <1>8

\* A new frame fits in any size that is enough for its inputs.
LEMMA NewFrameIs ==
  ASSUME NEW b \in Seq(BindType), NEW n \in Nat, Len(b) = n, NEW at \in Nat, NEW size \in Nat,
         FRAME_HEADER_WORDS + n * BINDING_WORDS <= size,
         NEW f, f = [at |-> at, size |-> size, inputs |-> n, binds |-> b, test |-> Untested]
  PROVE  f \in FrameType /\ Fits(f) /\ f.at = at /\ f.size = size
<1>1. f \in FrameType
  BY DEF FrameType
<1>2. f.at = at /\ f.size = size /\ f.inputs = n /\ f.binds = b
  OBVIOUS
<1>3. n * BINDING_WORDS \in Nat
  BY Times
<1>4. Fits(f)
  BY <1>2, <1>3, Sizes DEF Fits, Free
<1>5. QED BY <1>1, <1>2, <1>4

LEMMA FrameAt ==
  ASSUME NEW s, Tiles(s), NEW d \in DOMAIN s.frames
  PROVE  /\ s.frames[d] \in FrameType /\ d \in 1 .. Len(s.frames) /\ Len(s.frames) \in Nat
         /\ s.frames[d].at \in Nat /\ s.frames[d].size \in Nat
         /\ s.frames[d].inputs \in Nat /\ s.frames[d].binds \in Seq(BindType)
         /\ Len(s.frames[d].binds) \in Nat /\ Fits(s.frames[d])
         /\ DOMAIN s.frames[d].binds = 1 .. Len(s.frames[d].binds)
<1>1. s.frames \in Seq(FrameType) /\ Fits(s.frames[d])
  BY DEF Tiles
<1>2. d \in 1 .. Len(s.frames) /\ Len(s.frames) \in Nat
  BY <1>1, LenProperties
<1>3. s.frames[d] \in FrameType
  BY <1>1, <1>2, ElementOfSeq
<1>4. s.frames[d].binds \in Seq(BindType)
  BY <1>3 DEF FrameType
<1>5. Len(s.frames[d].binds) \in Nat /\ DOMAIN s.frames[d].binds = 1 .. Len(s.frames[d].binds)
  BY <1>4, LenProperties
<1>6. QED BY <1>1, <1>2, <1>3, <1>4, <1>5 DEF FrameType

\* The innermost frame of a stack that has one.
LEMMA Innermost ==
  ASSUME NEW s, Tiles(s), s.frames # << >>
  PROVE  /\ 1 \in DOMAIN s.frames /\ Len(s.frames) \in Nat \ {0}
         /\ DOMAIN s.frames = 1 .. Len(s.frames)
         /\ s.frames[1].at + s.frames[1].size = s.top
<1>1. s.frames \in Seq(FrameType)
  BY DEF Tiles
<1>2. DOMAIN s.frames = 1 .. Len(s.frames) /\ Len(s.frames) \in Nat \ {0}
  BY <1>1, LenProperties, EmptySeq
<1>3. 1 \in DOMAIN s.frames
  BY <1>2
<1>4. QED BY <1>2, <1>3 DEF Tiles

\* A stack whose frames are where they were, those from the n-th outwards
\* with their size.
Keeps(s, t, n) ==
  /\ Len(t.frames) = Len(s.frames) /\ s.top <= t.top
  /\ \A d \in 1 .. Len(s.frames) : /\ t.frames[d].at = s.frames[d].at
                                   /\ n <= d => t.frames[d].size = s.frames[d].size

\* A frame can be replaced by one that fits its place.
LEMMA RefitIs ==
  ASSUME NEW s, Tiles(s), NEW d \in DOMAIN s.frames, NEW f \in FrameType, Fits(f),
         f.at = s.frames[d].at, f.size = s.frames[d].size
  PROVE  LET t == [s EXCEPT !.frames[d] = f]
         IN  Tiles(t) /\ Keeps(s, t, 1)
<1> DEFINE new == [s.frames EXCEPT ![d] = f]
           t == [top |-> s.top, frames |-> new]
<1>1. [s EXCEPT !.frames[d] = f] = t
  <2>1. [s EXCEPT !.frames[d] = f] = [s EXCEPT !.frames = new]
    OBVIOUS
  <2>2. s = [top |-> s.top, frames |-> s.frames]
    BY DEF Tiles
  <2> HIDE DEF new
  <2>3. [s EXCEPT !.frames = new] = t
    BY <2>2
  <2>4. QED BY <2>1, <2>3
<1>2. s.frames \in Seq(FrameType) /\ s.top \in 0 .. ArenaWords /\ d \in 1 .. Len(s.frames)
      /\ Len(s.frames) \in Nat /\ DOMAIN s.frames = 1 .. Len(s.frames)
  BY LenProperties DEF Tiles
<1>3. /\ new \in Seq(FrameType) /\ Len(new) = Len(s.frames)
      /\ \A e \in 1 .. Len(s.frames) : new[e] = IF e = d THEN f ELSE s.frames[e]
  BY <1>2, ExceptSeq
<1> HIDE DEF new
<1>4. DOMAIN new = 1 .. Len(s.frames) /\ (new = << >> => s.frames = << >>)
  BY <1>2, <1>3, LenProperties, EmptySeq
<1>5. t.top = s.top /\ t.frames = new
  OBVIOUS
<1> HIDE DEF t
<1>6. \A e \in 1 .. Len(s.frames) : new[e].at = s.frames[e].at /\ new[e].size = s.frames[e].size
  BY <1>3
<1>7. ASSUME NEW e \in 1 .. Len(s.frames)
      PROVE  /\ Fits(new[e])
             /\ new[e].at + new[e].size = IF e = 1 THEN s.top ELSE new[e - 1].at
             /\ e = Len(s.frames) => new[e].at = 0
  <2>1. /\ Fits(s.frames[e])
        /\ s.frames[e].at + s.frames[e].size = IF e = 1 THEN s.top ELSE s.frames[e - 1].at
        /\ e = Len(s.frames) => s.frames[e].at = 0
    BY <1>2, <1>7 DEF Tiles
  <2>2. e # 1 => e - 1 \in 1 .. Len(s.frames)
    BY <1>2, <1>7
  <2>3. Fits(new[e])
    BY <1>3, <2>1
  <2>4. QED BY <1>6, <2>1, <2>2, <2>3
<1>8. Tiles(t)
  <2>1. t = [top |-> t.top, frames |-> t.frames]
    BY DEF t
  <2>2. s.frames = << >> => s.top = 0
    BY DEF Tiles
  <2>3. QED BY <1>2, <1>3, <1>4, <1>5, <1>7, <2>1, <2>2 DEF Tiles
<1>9. Keeps(s, t, 1)
  BY <1>2, <1>3, <1>5, <1>6 DEF Keeps
<1>10. QED BY <1>1, <1>8, <1>9

LEMMA ReuseIs ==
  ASSUME NEW s, Tiles(s), s.frames # << >>, NEW text \in Texts, NEW T \in SUBSET Things,
         NEW args \in [1 .. Len(InputsOf[text]) -> T], Len(args) <= s.frames[1].inputs
  PROVE  Tiles(frame_reuse(s, text, args)) /\ Keeps(s, frame_reuse(s, text, args), 1)
<1> DEFINE g == s.frames[1]
           f == NewFrame(g.at, g.size, text, args)
<1>1. 1 \in DOMAIN s.frames
  BY Innermost
<1>2. /\ g.at \in Nat /\ g.size \in Nat /\ g.inputs \in Nat /\ Len(g.binds) \in Nat /\ Fits(g)
  BY <1>1, FrameAt
<1>3. PICK b \in Seq(BindType), n \in Nat :
        b = Bound(InputsOf[text], args) /\ n = Len(args) /\ Len(b) = n
  BY BoundIs
<1>4. FRAME_HEADER_WORDS + n * BINDING_WORDS <= g.size
  <2>1. n <= Len(g.binds)
    BY <1>2, <1>3 DEF Fits
  <2>2. n * BINDING_WORDS \in Nat /\ Len(g.binds) * BINDING_WORDS \in Nat
        /\ n * BINDING_WORDS <= Len(g.binds) * BINDING_WORDS
    BY <1>2, <2>1, Times
  <2>3. PICK mine \in Nat, theirs \in Nat :
          mine = n * BINDING_WORDS /\ theirs = Len(g.binds) * BINDING_WORDS
    BY <2>2
  <2>4. g.size - FRAME_HEADER_WORDS - theirs >= 0
    BY <1>2, <2>3 DEF Fits, Free
  <2>5. PICK size \in Nat, h \in Nat : size = g.size /\ h = FRAME_HEADER_WORDS
    BY <1>2, Sizes
  <2>6. size - h - theirs >= 0 /\ mine <= theirs
    BY <2>2, <2>3, <2>4, <2>5
  <2>7. h + mine <= size
    BY <2>6
  <2>8. QED BY <2>3, <2>5, <2>7
<1>5. f \in FrameType /\ Fits(f) /\ f.at = g.at /\ f.size = g.size
  <2>1. PICK at \in Nat, size \in Nat : at = g.at /\ size = g.size
    BY <1>2
  <2>2. f = [at |-> at, size |-> size, inputs |-> n, binds |-> b, test |-> Untested]
    BY <1>3, <2>1 DEF NewFrame
  <2> HIDE DEF f
  <2>3. f \in FrameType /\ Fits(f) /\ f.at = at /\ f.size = size
    BY <1>3, <1>4, <2>1, <2>2, NewFrameIs
  <2>4. QED BY <2>1, <2>3
<1>6. frame_reuse(s, text, args) = [s EXCEPT !.frames[1] = f]
  BY DEF frame_reuse
<1> HIDE DEF f
<1>7. QED BY <1>1, <1>5, <1>6, RefitIs

\* Giving a binding another thing.
LEMMA SetBindingIs ==
  ASSUME NEW s, Tiles(s), NEW d \in DOMAIN s.frames, NEW w \in Words, NEW v \in Things,
         frame_find(s.frames[d], w) # 0
  PROVE  Tiles(SetBinding(s, d, w, v)) /\ Keeps(s, SetBinding(s, d, w, v), 1)
<1> DEFINE g == s.frames[d]
           i == frame_find(g, w)
           b == [g.binds EXCEPT ![i].thing = v]
           f == [g EXCEPT !.binds[i].thing = v]
<1>1. /\ g \in FrameType /\ g.binds \in Seq(BindType) /\ Fits(g)
      /\ DOMAIN g.binds = 1 .. Len(g.binds) /\ Len(g.binds) \in Nat
  BY FrameAt
<1>2. i \in 1 .. Len(g.binds)
  <2> DEFINE here == {k \in DOMAIN g.binds : Same(g.binds[k].name, w)}
  <2>1. here \in SUBSET Nat
    BY <1>1
  <2>2. here # {} => First(here) \in here
    BY <2>1, FirstIs
  <2>3. i \in here
    BY <2>2 DEF frame_find
  <2>4. QED BY <1>1, <2>3
<1>3. SetBinding(s, d, w, v) = [s EXCEPT !.frames[d] = f]
  BY DEF SetBinding
<1> HIDE DEF i
<1>4. g.binds[i] \in BindType
  BY <1>1, <1>2, ElementOfSeq
<1>5. [g.binds[i] EXCEPT !.thing = v] \in BindType
  BY <1>4 DEF BindType
<1>6. b = [g.binds EXCEPT ![i] = [g.binds[i] EXCEPT !.thing = v]]
  OBVIOUS
<1>7. b \in Seq(BindType) /\ Len(b) = Len(g.binds)
  BY <1>1, <1>2, <1>5, <1>6, ExceptSeq
<1>8. f = [g EXCEPT !.binds = b]
  OBVIOUS
<1> HIDE DEF b, f
<1>9. /\ f \in FrameType /\ f.at = g.at /\ f.size = g.size /\ f.inputs = g.inputs /\ f.binds = b
  BY <1>1, <1>7, <1>8 DEF FrameType
<1>10. Fits(f)
  BY <1>1, <1>7, <1>9 DEF Fits, Free
<1>11. QED BY <1>3, <1>9, <1>10, RefitIs

LEMMA TestIs ==
  ASSUME NEW s, Tiles(s), s.frames # << >>, NEW b \in Outcomes
  PROVE  LET t == [s EXCEPT !.frames[1].test = b]
         IN  Tiles(t) /\ Keeps(s, t, 1)
<1> DEFINE g == s.frames[1]
           f == [g EXCEPT !.test = b]
<1>1. 1 \in DOMAIN s.frames
  BY Innermost
<1>2. g \in FrameType /\ Fits(g)
  BY <1>1, FrameAt
<1>3. /\ f \in FrameType /\ f.at = g.at /\ f.size = g.size /\ f.inputs = g.inputs /\ f.binds = g.binds
  BY <1>2 DEF FrameType
<1>4. [s EXCEPT !.frames[1].test = b] = [s EXCEPT !.frames[1] = f]
  OBVIOUS
<1> HIDE DEF f
<1>5. Fits(f)
  BY <1>2, <1>3 DEF Fits, Free
<1>6. QED BY <1>1, <1>3, <1>4, <1>5, RefitIs

\* A stack with one more frame, on top of the other.
Pushes(s, t) ==
  /\ Len(t.frames) = Len(s.frames) + 1 /\ t.frames[1].at = s.top /\ s.top <= t.top
  /\ \A d \in 1 .. Len(s.frames) : t.frames[d + 1] = s.frames[d]

LEMMA PushIs ==
  ASSUME NEW s, Tiles(s), NEW text \in Texts, NEW T \in SUBSET Things,
         NEW args \in [1 .. Len(InputsOf[text]) -> T],
         NEW t, t = frame_push(s, text, args), t # s
  PROVE  Tiles(t) /\ Pushes(s, t)
<1> DEFINE full == FRAME_HEADER_WORDS + Len(args) * BINDING_WORDS + SpareWords
           f == NewFrame(s.top, full, text, args)
<1>1. PICK b \in Seq(BindType), n \in Nat :
        b = Bound(InputsOf[text], args) /\ n = Len(args) /\ Len(b) = n
  BY BoundIs
<1>2. s.top \in 0 .. ArenaWords /\ s.frames \in Seq(FrameType) /\ s.top \in Nat
  BY Sizes DEF Tiles
<1>3. n * BINDING_WORDS \in Nat
  BY Times
<1>4. PICK at \in Nat, size \in Nat : at = s.top /\ size = full
  BY <1>1, <1>2, <1>3, Sizes
<1>5. FRAME_HEADER_WORDS + n * BINDING_WORDS <= size
  BY <1>1, <1>3, <1>4, Sizes
<1>6. f = [at |-> at, size |-> size, inputs |-> n, binds |-> b, test |-> Untested]
  BY <1>1, <1>4 DEF NewFrame
<1>7. at + size <= ArenaWords /\ t = [top |-> at + size, frames |-> <<f>> \o s.frames]
  <2>1. t = IF s.top + full > ArenaWords THEN s
            ELSE [top |-> s.top + full, frames |-> <<f>> \o s.frames]
    BY DEF frame_push
  <2> HIDE DEF f, full
  <2>2. ~ (s.top + full > ArenaWords)
    BY <2>1
  <2>3. at + size <= ArenaWords
    BY <1>4, <2>2, Sizes
  <2>4. QED BY <1>4, <2>1, <2>2, <2>3
<1> HIDE DEF f, full
<1>8. f \in FrameType /\ Fits(f) /\ f.at = at /\ f.size = size
  BY <1>1, <1>5, <1>6, NewFrameIs
<1>9. <<f>> \in Seq(FrameType) /\ Len(<<f>>) = 1 /\ <<f>>[1] = f
  BY <1>8
<1>10. t.top = at + size /\ t.frames = <<f>> \o s.frames
       /\ t = [top |-> t.top, frames |-> t.frames]
  BY <1>7
<1> DEFINE n0 == Len(s.frames)
<1>11. n0 \in Nat /\ DOMAIN s.frames = 1 .. n0
  BY <1>2, LenProperties
<1>12. /\ t.frames \in Seq(FrameType) /\ Len(t.frames) = n0 + 1
       /\ t.frames[1] = f /\ \A d \in 1 .. n0 : t.frames[d + 1] = s.frames[d]
  <2>1. /\ <<f>> \o s.frames \in Seq(FrameType) /\ Len(<<f>> \o s.frames) = 1 + n0
        /\ \A i \in 1 .. 1 + n0 : (<<f>> \o s.frames)[i] = IF i <= 1 THEN <<f>>[i] ELSE s.frames[i - 1]
    BY <1>2, <1>9, ConcatProperties
  <2>2. (<<f>> \o s.frames)[1] = f
    BY <1>9, <1>11, <2>1
  <2>3. \A d \in 1 .. n0 : (<<f>> \o s.frames)[d + 1] = s.frames[d]
    BY <1>11, <2>1
  <2>4. t.frames = <<f>> \o s.frames /\ 1 + n0 = n0 + 1
    BY <1>10, <1>11
  <2>5. t.frames \in Seq(FrameType) /\ Len(t.frames) = n0 + 1
    BY <2>1, <2>4
  <2>6. t.frames[1] = f /\ \A d \in 1 .. n0 : t.frames[d + 1] = s.frames[d]
    BY <2>2, <2>3, <2>4
  <2>7. QED BY <2>5, <2>6
<1>13. DOMAIN t.frames = 1 .. n0 + 1 /\ t.frames # << >>
  BY <1>11, <1>12, LenProperties, EmptySeq
<1>14. Pushes(s, t)
  <2>1. t.frames[1].at = s.top
    BY <1>4, <1>8, <1>12
  <2>2. s.top <= t.top
    BY <1>4, <1>10
  <2>3. QED BY <1>12, <2>1, <2>2 DEF Pushes
<1>15. ASSUME NEW d \in 1 .. n0 + 1
       PROVE  /\ Fits(t.frames[d])
              /\ t.frames[d].at + t.frames[d].size = IF d = 1 THEN t.top ELSE t.frames[d - 1].at
              /\ d = n0 + 1 => t.frames[d].at = 0
  <2>1. CASE d = 1
    <3>1. n0 = 0 => s.top = 0
      BY <1>2, EmptySeq DEF Tiles
    <3>2. QED BY <1>4, <1>8, <1>10, <1>12, <2>1, <3>1
  <2>2. CASE d # 1
    <3>1. PICK e \in 1 .. n0 : d = e + 1
      BY <1>11, <2>2
    <3>2. t.frames[d] = s.frames[e] /\ t.frames[d - 1] = IF e = 1 THEN f ELSE s.frames[e - 1]
      <4>1. e # 1 => e - 1 \in 1 .. n0 /\ d - 1 = (e - 1) + 1
        BY <1>11, <3>1
      <4>2. e = 1 => d - 1 = 1
        BY <3>1
      <4>3. QED BY <1>12, <3>1, <4>1, <4>2
    <3>3. /\ Fits(s.frames[e])
          /\ s.frames[e].at + s.frames[e].size = IF e = 1 THEN s.top ELSE s.frames[e - 1].at
          /\ e = n0 => s.frames[e].at = 0
      BY <1>11 DEF Tiles
    <3>4. d = n0 + 1 => e = n0
      BY <1>11, <3>1
    <3>5. QED BY <1>4, <1>8, <2>2, <3>2, <3>3, <3>4
  <2>3. QED BY <2>1, <2>2
<1>16. t.top \in 0 .. ArenaWords
  BY <1>7, <1>10, Sizes
<1>17. QED BY <1>10, <1>12, <1>13, <1>14, <1>15, <1>16 DEF Tiles

LEMMA PopIs ==
  ASSUME NEW s, Tiles(s), s.frames # << >>, NEW t, t = frame_pop(s)
  PROVE  Tiles(t) /\ Pushes(t, s)
<1> DEFINE n == Len(t.frames)
<1>1. t.top = s.frames[1].at /\ t.frames = Tail(s.frames) /\ t = [top |-> t.top, frames |-> t.frames]
  BY DEF frame_pop
<1>2. /\ 1 \in DOMAIN s.frames /\ Len(s.frames) \in Nat \ {0} /\ DOMAIN s.frames = 1 .. Len(s.frames)
      /\ s.frames[1].at + s.frames[1].size = s.top
  BY Innermost
<1>3. s.frames \in Seq(FrameType) /\ s.top \in 0 .. ArenaWords
  BY DEF Tiles
<1>4. /\ t.frames \in Seq(FrameType) /\ n = Len(s.frames) - 1
      /\ \A d \in 1 .. n : t.frames[d] = s.frames[d + 1]
  BY <1>1, <1>3, HeadTailProperties
<1>5. n \in Nat /\ DOMAIN t.frames = 1 .. n /\ (t.frames = << >> <=> n = 0)
  BY <1>4, LenProperties, EmptySeq
<1> HIDE DEF n
<1>6. s.frames[1].at \in Nat /\ s.frames[1].size \in Nat
  BY <1>2, FrameAt
<1>7. t.top \in 0 .. ArenaWords /\ t.top <= s.top
  <2>1. PICK a \in Nat, z \in Nat, top \in Nat :
          a = s.frames[1].at /\ z = s.frames[1].size /\ top = s.top
    BY <1>3, <1>6, Sizes
  <2>2. a + z = top /\ top <= ArenaWords /\ t.top = a
    BY <1>1, <1>2, <1>3, <2>1, Sizes
  <2>3. QED BY <2>1, <2>2, Sizes
<1>8. Pushes(t, s)
  BY <1>1, <1>2, <1>4, <1>5, <1>7 DEF Pushes, n
<1>9. ASSUME NEW d \in 1 .. n
      PROVE  /\ Fits(t.frames[d])
             /\ t.frames[d].at + t.frames[d].size = IF d = 1 THEN t.top ELSE t.frames[d - 1].at
             /\ d = n => t.frames[d].at = 0
  <2>1. d + 1 \in 1 .. Len(s.frames) /\ (d + 1) - 1 = d /\ d + 1 # 1 /\ (d = n => d + 1 = Len(s.frames))
    BY <1>2, <1>4, <1>5
  <2>2. /\ Fits(s.frames[d + 1])
        /\ s.frames[d + 1].at + s.frames[d + 1].size
             = IF d + 1 = 1 THEN s.top ELSE s.frames[(d + 1) - 1].at
        /\ d + 1 = Len(s.frames) => s.frames[d + 1].at = 0
    BY <1>2, <2>1 DEF Tiles
  <2>3. s.frames[d + 1].at + s.frames[d + 1].size = s.frames[d].at
    BY <2>1, <2>2
  <2>4. d # 1 => d - 1 \in 1 .. n /\ (d - 1) + 1 = d
    BY <1>5
  <2>5. s.frames[d].at = IF d = 1 THEN t.top ELSE t.frames[d - 1].at
    BY <1>1, <1>4, <2>4
  <2>6. QED BY <1>4, <2>1, <2>2, <2>3, <2>5
<1>10. n = 0 => t.top = 0
  <2>1. n = 0 => Len(s.frames) = 1
    BY <1>2, <1>4
  <2>2. QED BY <1>1, <1>2, <2>1 DEF Tiles
<1>11. QED BY <1>1, <1>4, <1>5, <1>7, <1>8, <1>9, <1>10 DEF Tiles, n

LEMMA RoomIs ==
  ASSUME NEW size \in Nat, NEW used \in Nat, NEW bw \in Nat, NEW h \in Nat, NEW top \in Nat,
         NEW arena \in Nat, NEW more, more = (IF size - h - used < bw THEN bw ELSE 0),
         size - h - used >= 0, top <= arena, size - h - used >= bw \/ top + bw <= arena
  PROVE  more \in Nat /\ top + more <= arena /\ (size + more) - h - (used + bw) >= 0
OBVIOUS

\* A local grows the innermost frame and its arena when the room it was given
\* is used up.
LEMMA AddLocalIs ==
  ASSUME NEW s, Tiles(s), s.frames # << >>, CanAdd(s), NEW w \in Words,
         NEW t, t = frame_add_local(s, w)
  PROVE  Tiles(t) /\ Keeps(s, t, 2)
<1> DEFINE g == s.frames[1]
           more == IF Free(g) < BINDING_WORDS THEN BINDING_WORDS ELSE 0
           bind == [name |-> w, thing |-> NoThing]
           b == IF NoRoomToCount(g) THEN SubSeq(g.binds, 1, g.inputs) ELSE Append(g.binds, bind)
           f == Grown(g, more, w)
           n == Len(s.frames)
           m == Len(g.binds)
<1>1. /\ 1 \in DOMAIN s.frames /\ n \in Nat \ {0} /\ DOMAIN s.frames = 1 .. n
      /\ g.at + g.size = s.top
  BY Innermost
<1>2. /\ g \in FrameType /\ g.at \in Nat /\ g.size \in Nat /\ g.inputs \in Nat
      /\ g.binds \in Seq(BindType) /\ m \in Nat /\ Fits(g)
  BY <1>1, FrameAt
<1>3. s.frames \in Seq(FrameType) /\ s.top \in 0 .. ArenaWords
  BY DEF Tiles
<1>4. t = [top |-> s.top + more, frames |-> [s.frames EXCEPT ![1] = f]]
  BY DEF frame_add_local
<1>5. bind \in BindType
  BY DEF BindType
<1>6. b \in Seq(BindType) /\ Len(b) \in g.inputs .. m + 1
  <2>1. g.binds \in Seq(BindType) /\ g.inputs \in 0 .. m /\ m \in Nat
    BY <1>2 DEF Fits
  <2>2. DOMAIN g.binds = 1 .. m
    BY <2>1, LenProperties
  <2> HIDE DEF bind, g
  <2>3. Append(g.binds, bind) \in Seq(BindType) /\ Len(Append(g.binds, bind)) = m + 1
    BY <1>5, <2>1, AppendProperties DEF m
  <2>4. \A i \in 1 .. g.inputs : g.binds[i] \in BindType
    BY <2>1, <2>2, ElementOfSeq DEF m
  <2>5. SubSeq(g.binds, 1, g.inputs) \in Seq(BindType) /\ Len(SubSeq(g.binds, 1, g.inputs)) = g.inputs
    <3>1. PICK k \in 0 .. m : k = g.inputs
      BY <2>1
    <3>2. /\ SubSeq(g.binds, 1, k) \in Seq(BindType)
          /\ Len(SubSeq(g.binds, 1, k)) = IF 1 <= k THEN k - 1 + 1 ELSE 0
      BY <2>1, <2>4, <3>1, SubSeqProperties
    <3>3. (IF 1 <= k THEN k - 1 + 1 ELSE 0) = k
      BY <2>1, <3>1
    <3>4. QED BY <3>1, <3>2, <3>3
  <2>6. QED BY <2>1, <2>3, <2>5
<1>7. m * BINDING_WORDS \in Nat /\ (m + 1) * BINDING_WORDS = m * BINDING_WORDS + BINDING_WORDS
  BY <1>2, Times
<1>8. s.top \in Nat /\ s.top <= ArenaWords /\ Free(g) = g.size - FRAME_HEADER_WORDS - m * BINDING_WORDS
  BY <1>3, Sizes DEF Free
<1>9. /\ more \in Nat /\ s.top + more <= ArenaWords
      /\ (g.size + more) - FRAME_HEADER_WORDS - (m * BINDING_WORDS + BINDING_WORDS) >= 0
  <2>1. Free(g) >= 0 /\ (Free(g) >= BINDING_WORDS \/ s.top + BINDING_WORDS <= ArenaWords)
    BY <1>2 DEF Fits, CanAdd
  <2> DEFINE used == m * BINDING_WORDS
  <2>2. used \in Nat /\ g.size \in Nat /\ BINDING_WORDS \in Nat /\ FRAME_HEADER_WORDS \in Nat
        /\ ArenaWords \in Nat /\ s.top \in Nat /\ s.top <= ArenaWords
    BY <1>2, <1>7, <1>8, Sizes
  <2>3. more = IF g.size - FRAME_HEADER_WORDS - used < BINDING_WORDS THEN BINDING_WORDS ELSE 0
    BY <1>8
  <2>4. g.size - FRAME_HEADER_WORDS - used >= 0
        /\ (g.size - FRAME_HEADER_WORDS - used >= BINDING_WORDS \/ s.top + BINDING_WORDS <= ArenaWords)
    BY <1>8, <2>1
  <2> HIDE DEF used, more, g
  <2>5. PICK size \in Nat, u \in Nat : size = g.size /\ u = used
    BY <2>2
  <2>6. PICK bw \in Nat, h \in Nat : bw = BINDING_WORDS /\ h = FRAME_HEADER_WORDS
    BY <2>2
  <2>7. PICK top \in Nat, arena \in Nat : top = s.top /\ arena = ArenaWords
    BY <2>2
  <2>8. /\ more = (IF size - h - u < bw THEN bw ELSE 0) /\ top <= arena
        /\ size - h - u >= 0 /\ (size - h - u >= bw \/ top + bw <= arena)
    BY <2>2, <2>3, <2>4, <2>5, <2>6, <2>7
  <2>9. more \in Nat /\ top + more <= arena /\ (size + more) - h - (u + bw) >= 0
    BY <2>8, RoomIs
  <2>10. QED BY <2>5, <2>6, <2>7, <2>9 DEF used
<1> HIDE DEF more, bind, b
<1>10. f = [[g EXCEPT !.size = g.size + more] EXCEPT !.binds = b]
  BY DEF Grown, b, bind
<1> DEFINE e == [g EXCEPT !.size = g.size + more]
<1>11. e \in FrameType /\ e.at = g.at /\ e.size = g.size + more /\ e.inputs = g.inputs
  <2>1. PICK z \in Nat : z = g.size + more
    BY <1>2, <1>9
  <2>2. e = [g EXCEPT !.size = z]
    BY <2>1
  <2> HIDE DEF e
  <2>3. e \in FrameType /\ e.at = g.at /\ e.size = z /\ e.inputs = g.inputs
    BY <1>2, <2>2 DEF FrameType
  <2>4. QED BY <2>1, <2>3
<1>12. f = [e EXCEPT !.binds = b]
  BY <1>10
<1> HIDE DEF e, f
<1>13. /\ f \in FrameType /\ f.at = g.at /\ f.size = g.size + more /\ f.inputs = g.inputs
       /\ f.binds = b
  BY <1>6, <1>11, <1>12 DEF FrameType
<1>14. Fits(f)
  <2>1. PICK k \in Nat : k = Len(f.binds) /\ k <= m + 1 /\ f.inputs <= k /\ f.size = g.size + more
    BY <1>2, <1>6, <1>13
  <2>2. k * BINDING_WORDS \in Nat /\ k * BINDING_WORDS <= m * BINDING_WORDS + BINDING_WORDS
    <3>1. m + 1 \in Nat /\ k \in Nat
      BY <1>2
    <3> HIDE DEF m
    <3>2. k * BINDING_WORDS <= (m + 1) * BINDING_WORDS
      BY <2>1, <3>1, Times
    <3>3. k * BINDING_WORDS \in Nat
      BY <3>1, Times
    <3>4. QED BY <1>7, <3>2, <3>3
  <2>3. PICK mine \in Nat, most \in Nat :
          mine = k * BINDING_WORDS /\ most = m * BINDING_WORDS + BINDING_WORDS /\ mine <= most
    BY <1>7, <2>2, Sizes
  <2>4. PICK size \in Nat, h \in Nat : size = g.size + more /\ h = FRAME_HEADER_WORDS
    BY <1>2, <1>9, Sizes
  <2>5. size - h - most >= 0 /\ Free(f) = size - h - mine
    BY <1>9, <2>1, <2>3, <2>4 DEF Free
  <2>6. Free(f) >= 0
    BY <2>3, <2>5
  <2>7. QED BY <2>1, <2>6 DEF Fits
<1>15. /\ t.frames \in Seq(FrameType) /\ Len(t.frames) = n
       /\ \A d \in 1 .. n : t.frames[d] = IF d = 1 THEN f ELSE s.frames[d]
       /\ t.top = s.top + more /\ t = [top |-> t.top, frames |-> t.frames]
  <2>1. t.frames = [s.frames EXCEPT ![1] = f] /\ t.top = s.top + more
        /\ t = [top |-> t.top, frames |-> t.frames]
    BY <1>4
  <2>2. QED BY <1>1, <1>3, <1>13, <2>1, ExceptSeq
<1>16. DOMAIN t.frames = 1 .. n /\ t.frames # << >> /\ 1 \in 1 .. n
  BY <1>1, <1>15, LenProperties, EmptySeq
<1>17. ASSUME NEW d \in 1 .. n
       PROVE  /\ Fits(t.frames[d])
              /\ t.frames[d].at + t.frames[d].size = IF d = 1 THEN t.top ELSE t.frames[d - 1].at
              /\ d = n => t.frames[d].at = 0
  <2>1. /\ Fits(s.frames[d])
        /\ s.frames[d].at + s.frames[d].size = IF d = 1 THEN s.top ELSE s.frames[d - 1].at
        /\ d = n => s.frames[d].at = 0
    BY <1>1 DEF Tiles
  <2>2. CASE d = 1
    <3>1. t.frames[d] = f /\ t.top = s.top + more /\ (d = n => s.frames[1].at = 0)
      BY <1>15, <2>1, <2>2
    <3>2. g.at + (g.size + more) = s.top + more
      BY <1>1, <1>2, <1>8, <1>9
    <3>3. QED BY <1>13, <1>14, <2>2, <3>1, <3>2
  <2>3. CASE d # 1
    <3>1. d - 1 \in 1 .. n
      BY <1>1, <2>3
    <3>2. t.frames[d] = s.frames[d] /\ t.frames[d - 1].at = s.frames[d - 1].at
      BY <1>13, <1>15, <2>3, <3>1
    <3>3. QED BY <2>1, <2>3, <3>2
  <2>4. QED BY <2>2, <2>3
<1>18. t.top \in 0 .. ArenaWords /\ s.top <= t.top
  <2>1. PICK top \in Nat, grown \in Nat : top = s.top /\ grown = more
    BY <1>8, <1>9
  <2>2. t.top = top + grown /\ top + grown <= ArenaWords
    BY <1>9, <1>15, <2>1
  <2>3. QED BY <2>1, <2>2, Sizes
<1>19. Tiles(t)
  BY <1>15, <1>16, <1>17, <1>18 DEF Tiles
<1>20. Keeps(s, t, 2)
  <2>1. ASSUME NEW d \in 1 .. n
        PROVE  t.frames[d].at = s.frames[d].at /\ (2 <= d => t.frames[d].size = s.frames[d].size)
    BY <1>13, <1>15
  <2>2. QED BY <1>15, <1>18, <2>1 DEF Keeps
<1>21. QED BY <1>19, <1>20

-----------------------------------------------------------------------------
(* A snapshot, and the line at a pause that may fail and go back to it.    *)

\* The frames a snapshot counted are still there, up to where it says.
Held(s, snap) ==
  /\ snap.depth \in 1 .. Len(s.frames) /\ snap.names \in 0 .. MAX_CURRENT_PROC_DEPTH
  /\ snap.names <= snap.depth /\ snap.top <= s.top
  /\ LET n == Len(s.frames) - snap.depth
     IN  /\ s.frames[n + 1].at + s.frames[n + 1].size = snap.top
         /\ \A d \in 1 .. n : snap.top <= s.frames[d].at

LEMMA TopIs ==
  ASSUME NEW s, Tiles(s)
  PROVE  s.top \in Nat
  BY Sizes DEF Tiles

LEMMA HeldNumbers ==
  ASSUME NEW s, Tiles(s), NEW snap, Held(s, snap)
  PROVE  /\ snap.depth \in Nat \ {0} /\ Len(s.frames) \in Nat /\ Len(s.frames) - snap.depth \in Nat
         /\ Len(s.frames) - snap.depth + 1 \in DOMAIN s.frames
         /\ DOMAIN s.frames = 1 .. Len(s.frames) /\ s.frames # << >>
         /\ snap.top \in Nat /\ s.top \in 0 .. ArenaWords
<1>1. /\ s.frames \in Seq(FrameType) /\ Len(s.frames) \in Nat /\ DOMAIN s.frames = 1 .. Len(s.frames)
      /\ s.top \in 0 .. ArenaWords
  BY LenProperties DEF Tiles
<1>2. PICK k \in Nat : k = Len(s.frames)
  BY <1>1
<1>3. snap.depth \in 1 .. k
  BY <1>2 DEF Held
<1>4. /\ snap.depth \in Nat \ {0} /\ k - snap.depth \in Nat /\ k - snap.depth + 1 \in 1 .. k
      /\ k # 0
  BY <1>3
<1>5. s.frames # << >>
  BY <1>1, <1>2, <1>4, EmptySeq
<1>6. snap.top \in Nat
  <2>1. k - snap.depth + 1 \in DOMAIN s.frames
    BY <1>1, <1>2, <1>4
  <2>2. /\ s.frames[k - snap.depth + 1].at \in Nat /\ s.frames[k - snap.depth + 1].size \in Nat
    BY <2>1, FrameAt
  <2>3. s.frames[k - snap.depth + 1].at + s.frames[k - snap.depth + 1].size = snap.top
    BY <1>2 DEF Held
  <2>4. QED BY <2>2, <2>3
<1>7. QED BY <1>1, <1>2, <1>4, <1>5, <1>6

LEMMA HeldKeeps ==
  ASSUME NEW s, Tiles(s), NEW snap, Held(s, snap), NEW t, Tiles(t), NEW n \in Nat, Keeps(s, t, n),
         n <= Len(s.frames) - snap.depth + 1
  PROVE  Held(t, snap)
<1>1. PICK k \in Nat, m \in Nat : k = Len(s.frames) /\ m = k - snap.depth
  BY HeldNumbers
<1>2. snap.depth \in Nat \ {0} /\ m + 1 \in 1 .. k /\ snap.top \in Nat /\ s.top \in Nat
  BY <1>1, HeldNumbers, Sizes
<1>3. Len(t.frames) = k /\ s.top <= t.top
      /\ \A d \in 1 .. k : t.frames[d].at = s.frames[d].at
                           /\ (n <= d => t.frames[d].size = s.frames[d].size)
  BY <1>1 DEF Keeps
<1>4. t.top \in Nat
  BY Sizes DEF Tiles
<1>5. /\ snap.depth \in 1 .. k /\ snap.names \in 0 .. MAX_CURRENT_PROC_DEPTH
      /\ snap.names <= snap.depth /\ snap.top <= s.top
      /\ s.frames[m + 1].at + s.frames[m + 1].size = snap.top
      /\ \A d \in 1 .. m : snap.top <= s.frames[d].at
  BY <1>1 DEF Held
<1>6. n <= m + 1
  BY <1>1
<1>7. t.frames[m + 1].at + t.frames[m + 1].size = snap.top
  BY <1>2, <1>3, <1>5, <1>6
<1>8. ASSUME NEW d \in 1 .. m PROVE snap.top <= t.frames[d].at
  BY <1>2, <1>3, <1>5
<1>9. snap.top <= t.top
  BY <1>2, <1>3, <1>4, <1>5
<1>10. m = Len(t.frames) - snap.depth
  BY <1>1, <1>3
<1>11. QED BY <1>3, <1>5, <1>7, <1>8, <1>9, <1>10 DEF Held

LEMMA HeldPush ==
  ASSUME NEW s, Tiles(s), NEW snap, Held(s, snap), NEW t, Tiles(t), Pushes(s, t)
  PROVE  Held(t, snap)
<1>1. PICK k \in Nat, m \in Nat : k = Len(s.frames) /\ m = k - snap.depth
  BY HeldNumbers
<1>2. snap.depth \in Nat \ {0} /\ m + 1 \in 1 .. k /\ snap.top \in Nat /\ s.top \in Nat /\ t.top \in Nat
  BY <1>1, HeldNumbers, TopIs
<1>3. Len(t.frames) = k + 1 /\ t.frames[1].at = s.top /\ s.top <= t.top
      /\ \A d \in 1 .. k : t.frames[d + 1] = s.frames[d]
  BY <1>1 DEF Pushes
<1>4. /\ snap.depth \in 1 .. k /\ snap.names \in 0 .. MAX_CURRENT_PROC_DEPTH
      /\ snap.names <= snap.depth /\ snap.top <= s.top
      /\ s.frames[m + 1].at + s.frames[m + 1].size = snap.top
      /\ \A d \in 1 .. m : snap.top <= s.frames[d].at
  BY <1>1 DEF Held
<1>5. t.frames[(m + 1) + 1] = s.frames[m + 1]
  BY <1>2, <1>3
<1>6. ASSUME NEW d \in 1 .. m + 1 PROVE snap.top <= t.frames[d].at
  <2>1. CASE d = 1
    BY <1>3, <1>4, <2>1
  <2>2. CASE d # 1
    <3>1. PICK e \in 1 .. m : d = e + 1
      BY <2>2
    <3>2. e \in 1 .. k
      BY <1>2, <3>1
    <3>3. t.frames[d] = s.frames[e]
      BY <1>3, <3>1, <3>2
    <3>4. QED BY <1>4, <3>1, <3>3
  <2>3. QED BY <2>1, <2>2
<1>7. snap.top <= t.top
  <2>1. snap.top <= s.top /\ s.top <= t.top
    BY <1>3, <1>4
  <2>2. QED BY <1>2, <2>1
<1>8. Len(t.frames) - snap.depth = m + 1 /\ snap.depth \in 1 .. Len(t.frames)
  <2>1. PICK n \in Nat \ {0} : n = snap.depth
    BY <1>2
  <2>2. m = k - n /\ (k + 1) - n = m + 1 /\ n \in 1 .. k + 1
    BY <1>1, <1>2, <1>4, <2>1
  <2>3. QED BY <1>3, <2>1, <2>2
<1>9. QED BY <1>4, <1>5, <1>6, <1>7, <1>8 DEF Held

\* Only a frame the line made itself is taken away.
LEMMA HeldPop ==
  ASSUME NEW s, Tiles(s), NEW snap, Held(s, snap), NEW t, Tiles(t), Pushes(t, s),
         snap.depth < Len(s.frames)
  PROVE  Held(t, snap)
<1>1. PICK k \in Nat, m \in Nat : k = Len(s.frames) /\ m = k - snap.depth
  BY HeldNumbers
<1>2. snap.depth \in Nat \ {0} /\ snap.depth < k /\ m # 0 /\ snap.top \in Nat /\ t.top \in Nat
  BY <1>1, HeldNumbers, TopIs
<1>3. t.frames \in Seq(FrameType) /\ Len(t.frames) \in Nat
  BY LenProperties DEF Tiles
<1>4. k = Len(t.frames) + 1 /\ s.frames[1].at = t.top
      /\ \A d \in 1 .. Len(t.frames) : s.frames[d + 1] = t.frames[d]
  BY <1>1 DEF Pushes
<1>5. /\ snap.depth \in 1 .. k /\ snap.names \in 0 .. MAX_CURRENT_PROC_DEPTH
      /\ snap.names <= snap.depth
      /\ s.frames[m + 1].at + s.frames[m + 1].size = snap.top
      /\ \A d \in 1 .. m : snap.top <= s.frames[d].at
  BY <1>1 DEF Held
<1>6. PICK j \in Nat : j = m - 1
  BY <1>2
<1>7. /\ Len(t.frames) - snap.depth = j /\ snap.depth \in 1 .. Len(t.frames)
      /\ j + 1 \in 1 .. Len(t.frames) /\ j + 1 = m
  <2>1. PICK q \in Nat, n \in Nat : q = Len(t.frames) /\ n = snap.depth
    BY <1>2, <1>3
  <2>2. k = q + 1 /\ m = k - n /\ n # 0 /\ n < k
    BY <1>1, <1>2, <1>4, <2>1
  <2>3. q - n = j /\ n \in 1 .. q /\ j + 1 \in 1 .. q /\ j + 1 = m
    BY <1>6, <2>2
  <2>4. QED BY <2>1, <2>3
<1>8. t.frames[j + 1] = s.frames[m + 1]
  BY <1>4, <1>7
<1>9. snap.top <= t.top
  <2>1. 1 \in 1 .. m
    BY <1>2
  <2>2. QED BY <1>4, <1>5, <2>1
<1>10. ASSUME NEW d \in 1 .. j PROVE snap.top <= t.frames[d].at
  <2>1. d + 1 \in 1 .. m /\ d \in 1 .. Len(t.frames)
    BY <1>3, <1>7
  <2>2. QED BY <1>4, <1>5, <2>1
<1>11. QED BY <1>5, <1>7, <1>8, <1>9, <1>10 DEF Held

LEMMA RestoreIs ==
  ASSUME NEW s, Tiles(s), NEW snap, Held(s, snap), NEW t, t = frame_stack_restore(s, snap)
  PROVE  Tiles(t) /\ Len(t.frames) = snap.depth
<1>1. PICK k \in Nat, m \in Nat : k = Len(s.frames) /\ m = k - snap.depth
  BY HeldNumbers
<1>2. PICK n \in Nat \ {0} : n = snap.depth /\ m + n = k
  BY <1>1, HeldNumbers
<1>3. snap.top \in Nat /\ snap.top <= s.top /\ s.top \in 0 .. ArenaWords
      /\ s.frames[m + 1].at + s.frames[m + 1].size = snap.top
  BY <1>1, HeldNumbers DEF Held
<1>4. t.frames = SubSeq(s.frames, m + 1, k) /\ t.top = snap.top /\ t = [top |-> t.top, frames |-> t.frames]
  <2>1. Len(s.frames) - snap.depth + 1 = m + 1
    BY <1>1
  <2>2. QED BY <1>1, <1>3, <2>1 DEF frame_stack_restore, Outermost
<1>5. s.frames \in Seq(FrameType) /\ DOMAIN s.frames = 1 .. k
  BY <1>1, LenProperties DEF Tiles
<1>6. \A i \in m + 1 .. k : s.frames[i] \in FrameType
  BY <1>5, ElementOfSeq
<1>7. /\ t.frames \in Seq(FrameType) /\ Len(t.frames) = n
      /\ \A d \in 1 .. n : t.frames[d] = s.frames[m + d]
  <2>1. /\ SubSeq(s.frames, m + 1, k) \in Seq(FrameType)
        /\ Len(SubSeq(s.frames, m + 1, k)) = IF m + 1 <= k THEN k - (m + 1) + 1 ELSE 0
        /\ \A d \in 1 .. k - (m + 1) + 1 : SubSeq(s.frames, m + 1, k)[d] = s.frames[(m + 1) + d - 1]
    BY <1>6, SubSeqProperties
  <2>2. m + 1 <= k /\ k - (m + 1) + 1 = n /\ \A d \in 1 .. n : (m + 1) + d - 1 = m + d
    BY <1>2
  <2>3. QED BY <1>4, <2>1, <2>2
<1>8. DOMAIN t.frames = 1 .. n /\ t.frames # << >>
  BY <1>7, LenProperties, EmptySeq
<1>9. ASSUME NEW d \in 1 .. n
      PROVE  /\ Fits(t.frames[d])
             /\ t.frames[d].at + t.frames[d].size = IF d = 1 THEN t.top ELSE t.frames[d - 1].at
             /\ d = n => t.frames[d].at = 0
  <2>1. m + d \in 1 .. k /\ (d # 1 => m + d # 1 /\ (m + d) - 1 = m + (d - 1) /\ d - 1 \in 1 .. n)
        /\ (d = n => m + d = k)
    BY <1>2
  <2>2. /\ Fits(s.frames[m + d])
        /\ s.frames[m + d].at + s.frames[m + d].size
             = IF m + d = 1 THEN s.top ELSE s.frames[(m + d) - 1].at
        /\ m + d = k => s.frames[m + d].at = 0
    BY <1>1, <1>5, <2>1 DEF Tiles
  <2>3. CASE d = 1
    BY <1>3, <1>4, <1>7, <2>1, <2>2, <2>3
  <2>4. CASE d # 1
    BY <1>7, <2>1, <2>2, <2>4
  <2>5. QED BY <2>3, <2>4
<1>10. t.top \in 0 .. ArenaWords
  <2>1. PICK top \in Nat, new \in Nat : top = s.top /\ new = snap.top
    BY <1>3, Sizes
  <2>2. new <= top /\ top <= ArenaWords /\ t.top = new
    BY <1>3, <1>4, <2>1, Sizes
  <2>3. QED BY <2>2, Sizes
<1>11. QED BY <1>2, <1>4, <1>7, <1>8, <1>9, <1>10 DEF Tiles

-----------------------------------------------------------------------------
(* The calls that wait for their inputs.                                    *)

Waits == Seq([at : ProcSlots, depth : Nat])

\* Each has a slot of the table.
PendingInv == pending \in Waits /\ (paused # << >> => paused[1].pending \in Waits)

LEMMA PendingInit == Init => PendingInv
  BY DEF Init, PendingInv, Waits

LEMMA ResolvedIs ==
  ASSUME NamesInv, NEW w \in Words, resolve_word(w).kind = "procedure"
  PROVE  resolve_word(w).at \in ProcSlots /\ procs.slots[resolve_word(w).at].text \in Texts
<1>1. resolve_word(w) = Looked(w)
  BY RememberIs
<1>2. Looked(w) = [kind |-> "procedure", at |-> find_procedure(procs, w)] /\ find_procedure(procs, w) # 0
  BY <1>1 DEF Looked
<1>3. resolve_word(w).at = find_procedure(procs, w)
  BY <1>1, <1>2
<1>4. QED BY <1>2, <1>3, FoundProcedure DEF NamesInv

\* The innermost that waits.
LEMMA WaitingIs ==
  ASSUME PendingInv, Waiting
  PROVE  pending[1].at \in ProcSlots /\ Tail(pending) \in Waits
<1> DEFINE Call0 == [at : ProcSlots, depth : Nat]
<1>1. pending \in Seq(Call0) /\ pending # << >>
  BY DEF PendingInv, Waits, Waiting
<1>2. pending[1] \in Call0
  <2>1. 1 \in 1 .. Len(pending)
    BY <1>1, LenProperties, EmptySeq
  <2>2. QED BY <1>1, <2>1, ElementOfSeq
<1>3. Tail(pending) \in Seq(Call0)
  BY <1>1, HeadTailProperties
<1>4. QED BY <1>2, <1>3 DEF Waits

LEMMA PendingKept ==
  ASSUME PendingInv, NamesInv, Len(stack.frames) \in Nat, [Next]_vars
  PROVE  PendingInv'
<1>1. program.words \subseteq Words
  BY Speaks DEF NamesInv
<1>2. ASSUME UNCHANGED <<paused, pending>> PROVE PendingInv'
  BY <1>2 DEF PendingInv
<1>3. ASSUME NEW x, Locals(x) \/ Globals(x) \/ Procs(x) \/ Props(x) PROVE PendingInv'
  BY <1>2, <1>3 DEF Locals, Globals, Procs, Props
<1>4. ASSUME NEW w \in program.words, Call(w) PROVE PendingInv'
  <2> DEFINE call == [at |-> resolve_word(w).at, depth |-> Len(stack.frames)]
  <2>1. pending' \in {pending, <<call>> \o pending} /\ paused' = paused
    BY <1>4 DEF Call
  <2>2. call \in [at : ProcSlots, depth : Nat]
    BY <1>1, <1>4, ResolvedIs DEF Call
  <2> HIDE DEF call
  <2>3. <<call>> \o pending \in Waits
    BY <2>2, ConcatProperties DEF PendingInv, Waits
  <2>4. QED BY <2>1, <2>3 DEF PendingInv
<1>5. ASSUME CallEnters \/ CallFails PROVE PendingInv'
  <2>1. Waiting /\ pending' = Tail(pending) /\ paused' = paused
    BY <1>5 DEF CallEnters, CallFails
  <2>2. QED BY <2>1, WaitingIs DEF PendingInv
<1>6. ASSUME proc_reset_execution_state PROVE PendingInv'
  BY <1>6 DEF proc_reset_execution_state, PendingInv, Waits
<1>7. ASSUME PauseLine PROVE PendingInv'
  <2>1. pending' = pending /\ paused' # << >> /\ paused'[1].pending = pending
    BY <1>7 DEF PauseLine
  <2>2. QED BY <2>1 DEF PendingInv
<1>8. ASSUME PauseLineEnds \/ PauseLineFails PROVE PendingInv'
  BY <1>8 DEF PauseLineEnds, PauseLineFails, PendingInv
<1>9. ASSUME NEW w, NEW v, Make(w, v) \/ Localmake(w, v) PROVE PendingInv'
  BY <1>2, <1>3, <1>9 DEF Make, Localmake
<1>10. ASSUME NEW w, Local(w) \/ Ern(w) \/ Mention(w) \/ Erase(w) PROVE PendingInv'
  BY <1>2, <1>3, <1>10 DEF Local, Ern, Mention, Erase
<1>11. ASSUME NEW w, NEW way, Buryname(w, way) PROVE PendingInv'
  BY <1>3, <1>11 DEF Buryname
<1>12. ASSUME Erns \/ Buryall \/ Unburyall \/ Erall \/ Erps PROVE PendingInv'
  BY <1>2, <1>3, <1>12 DEF Erns, Buryall, Unburyall, Erall, Erps
<1>13. ASSUME Return \/ \E b \in Outcomes : Test(b) PROVE PendingInv'
  BY <1>2, <1>13 DEF Return, Test
<1>14. ASSUME NEW w, NEW x, Define(w, x) \/ Copydef(w, x) PROVE PendingInv'
  BY <1>2, <1>3, <1>14 DEF Define, Copydef, Alias
<1>15. ASSUME NEW w, NEW mark, NEW on, SetMark(w, mark, on) PROVE PendingInv'
  BY <1>2, <1>15 DEF SetMark
<1>16. ASSUME \/ \E w, p \in program.words, v \in program.things : Pprop(w, p, v)
              \/ \E w, p \in program.words : Remprop(w, p)
              \/ Erprops
       PROVE  PendingInv'
  BY <1>3, <1>16 DEF Pprop, Remprop, Erprops
<1>17. CASE UNCHANGED vars
  BY <1>2, <1>17 DEF vars
<1>18. QED BY <1>4, <1>5, <1>6, <1>7, <1>8, <1>9, <1>10, <1>11, <1>12, <1>13, <1>14, <1>15, <1>16,
              <1>17 DEF Next

-----------------------------------------------------------------------------
(* What a step does to the frames, the names beside them and the snapshot. *)

FramesInv ==
  /\ Tiles(stack) /\ current \in 0 .. MAX_CURRENT_PROC_DEPTH /\ current <= Len(stack.frames)
  /\ paused # << >> => paused = <<paused[1]>> /\ Held(stack, paused[1])

\* A frame changes where it lies: the innermost may grow, if the line at a
\* pause made it.
Stays(n) ==
  /\ Tiles(stack') /\ Keeps(stack, stack', n)
  /\ paused # << >> => n <= Len(stack.frames) - paused[1].depth + 1

Deepens  == Tiles(stack') /\ Pushes(stack, stack')
Shallows == Own /\ Tiles(stack') /\ Pushes(stack', stack)
Replaces == Own /\ Tiles(stack')
            /\ \E mid : Tiles(mid) /\ Pushes(mid, stack) /\ Pushes(mid, stack')

FrameStep ==
  \/ paused' = paused /\ current' = current /\ \E n \in 1 .. 2 : Stays(n)
  \/ paused' = paused /\ current' = PushCurrent(current) /\ Deepens
  \/ paused' = paused /\ current' = PopCurrent(current) /\ Shallows
  \/ paused' = paused /\ current' = PushCurrent(PopCurrent(current)) /\ Own /\ (Stays(1) \/ Replaces)
  \/ proc_reset_execution_state \/ PauseLine \/ PauseLineEnds \/ PauseLineFails

LEMMA Unmoved ==
  ASSUME FramesInv, UNCHANGED <<stack, current, paused>>
  PROVE  FrameStep
<1>1. Tiles(stack) /\ stack.top \in Nat
  BY Sizes DEF FramesInv, Tiles
<1>2. Keeps(stack, stack, 1)
  BY <1>1 DEF Keeps
<1>3. paused # << >> => 1 <= Len(stack.frames) - paused[1].depth + 1
  <2>1. ASSUME paused # << >> PROVE Len(stack.frames) - paused[1].depth \in Nat
    BY <1>1, <2>1, HeldNumbers DEF FramesInv
  <2>2. QED BY <2>1
<1>4. Stays(1)
  BY <1>1, <1>2, <1>3 DEF Stays
<1>5. QED BY <1>4 DEF FrameStep

\* A change of a frame in its place.
LEMMA InPlace ==
  ASSUME FramesInv, Tiles(stack'), Keeps(stack, stack', 1)
  PROVE  Stays(1)
<1>1. paused # << >> => 1 <= Len(stack.frames) - paused[1].depth + 1
  <2>1. ASSUME paused # << >> PROVE Len(stack.frames) - paused[1].depth \in Nat
    BY <2>1, HeldNumbers DEF FramesInv
  <2>2. QED BY <2>1
<1>2. QED BY <1>1 DEF Stays

\* A local is said by a procedure the line at a pause called.
LEMMA OwnFrame ==
  ASSUME FramesInv, ~PausedLocals, paused # << >> => Own \/ PausedLocals,
         Tiles(stack'), Keeps(stack, stack', 2)
  PROVE  Stays(2)
<1>1. ASSUME paused # << >> PROVE 2 <= Len(stack.frames) - paused[1].depth + 1
  <2>1. Len(stack.frames) \in Nat /\ paused[1].depth \in Nat
    BY <1>1, HeldNumbers DEF FramesInv
  <2>2. Len(stack.frames) > paused[1].depth
    BY <1>1 DEF Own
  <2>3. QED BY <2>1, <2>2
<1>2. QED BY <1>1 DEF Stays

\* Growing a frame for a local and giving the local a thing.
LEMMA KeepsTwice ==
  ASSUME NEW s, NEW t, NEW u, NEW n \in 1 .. 2, Keeps(s, t, n), Keeps(t, u, 1), Tiles(s), Tiles(t), Tiles(u)
  PROVE  Keeps(s, u, n)
<1>1. s.top \in Nat /\ t.top \in Nat /\ u.top \in Nat /\ Len(s.frames) \in Nat
  BY Sizes, LenProperties DEF Tiles
<1>2. QED BY <1>1 DEF Keeps

LEMMA BinderIs ==
  ASSUME NEW s, Tiles(s), NEW w, BinderOf(s, w) # 0
  PROVE  BinderOf(s, w) \in DOMAIN s.frames /\ frame_find(s.frames[BinderOf(s, w)], w) # 0
<1> DEFINE binding == {e \in DOMAIN s.frames : frame_find(s.frames[e], w) # 0}
<1>1. DOMAIN s.frames \in SUBSET Nat
  BY LenProperties DEF Tiles
<1>2. binding # {} => First(binding) \in binding
  BY <1>1, FirstIs
<1>3. BinderOf(s, w) \in binding
  BY <1>2 DEF BinderOf
<1>4. QED BY <1>3

LEMMA StepOfLocals ==
  ASSUME FramesInv, NEW w \in Words, NEW v \in Things, ~PausedLocals, Make(w, v) \/ Localmake(w, v)
  PROVE  FrameStep
<1>1. Tiles(stack)
  BY DEF FramesInv
<1>2. ASSUME NEW g, Globals(g) PROVE FrameStep
  BY <1>2, Unmoved DEF Globals
<1>3. CASE Make(w, v)
  <2> DEFINE d == BinderOf(stack, w)
  <2>1. CASE d = 0
    BY <1>2, <1>3, <2>1 DEF Make
  <2>2. CASE d # 0
    <3>1. d \in DOMAIN stack.frames /\ frame_find(stack.frames[d], w) # 0
      BY <1>1, <2>2, BinderIs
    <3>2. Locals(SetBinding(stack, d, w, v))
      BY <1>3, <2>2 DEF Make
    <3> HIDE DEF d
    <3>3. Tiles(stack') /\ Keeps(stack, stack', 1) /\ UNCHANGED <<current, paused>>
      BY <1>1, <3>1, <3>2, SetBindingIs DEF Locals
    <3>4. QED BY <3>3, InPlace DEF FrameStep
  <2>3. QED BY <2>1, <2>2
<1>4. CASE Localmake(w, v)
  <2>1. CASE ~InProcedure
    BY <1>2, <1>4, <2>1 DEF Localmake
  <2>2. CASE InProcedure
    <3>1. PICK s : s = frame_add_local(stack, w)
      OBVIOUS
    <3>2. CanAdd(stack) /\ stack' = Assigned(s, w, v) /\ UNCHANGED <<current, paused>>
      BY <1>4, <2>2, <3>1 DEF Localmake
    <3>3. Tiles(s) /\ Keeps(stack, s, 2)
      BY <1>1, <2>2, <3>1, <3>2, AddLocalIs DEF InProcedure
    <3>4. Tiles(stack') /\ Keeps(s, stack', 1)
      <4>1. CASE BinderOf(s, w) = 0
        <5>1. stack' = s
          BY <3>2, <4>1 DEF Assigned
        <5>2. s.top \in Nat
          BY <3>3, TopIs
        <5>3. QED BY <3>3, <5>1, <5>2 DEF Keeps
      <4>2. CASE BinderOf(s, w) # 0
        <5>1. stack' = SetBinding(s, BinderOf(s, w), w, v)
          BY <3>2, <4>2 DEF Assigned
        <5>2. QED BY <3>3, <4>2, <5>1, BinderIs, SetBindingIs
      <4>3. QED BY <4>1, <4>2
    <3>5. Keeps(stack, stack', 2)
      BY <1>1, <3>3, <3>4, KeepsTwice
    <3>6. Stays(2)
      BY <1>4, <3>4, <3>5, OwnFrame DEF Localmake
    <3>7. QED BY <3>2, <3>6 DEF FrameStep
  <2>3. QED BY <2>1, <2>2
<1>5. QED BY <1>3, <1>4

LEMMA StepOfLocal ==
  ASSUME FramesInv, NEW w \in Words, ~PausedLocals, Local(w)
  PROVE  FrameStep
<1>1. Tiles(stack)
  BY DEF FramesInv
<1>2. CASE ~InProcedure
  BY <1>2, Unmoved DEF Local, Globals
<1>3. CASE InProcedure
  <2>1. CanAdd(stack) /\ stack' = frame_add_local(stack, w) /\ UNCHANGED <<current, paused>>
    BY <1>3 DEF Local, Locals
  <2>2. Tiles(stack') /\ Keeps(stack, stack', 2)
    BY <1>1, <1>3, <2>1, AddLocalIs DEF InProcedure
  <2>3. Stays(2)
    BY <2>2, OwnFrame DEF Local
  <2>4. QED BY <2>1, <2>3 DEF FrameStep
<1>4. QED BY <1>2, <1>3

LEMMA StepOfTest ==
  ASSUME FramesInv, NEW b \in Outcomes, Test(b)
  PROVE  FrameStep
<1>1. Tiles(stack)
  BY DEF FramesInv
<1>2. CASE ~InProcedure
  BY <1>2, Unmoved DEF Test
<1>3. CASE InProcedure
  <2>1. stack' = [stack EXCEPT !.frames[1].test = b] /\ UNCHANGED <<current, paused>>
    BY <1>3 DEF Test
  <2>2. Tiles(stack') /\ Keeps(stack, stack', 1)
    BY <1>1, <1>3, <2>1, TestIs DEF InProcedure
  <2>3. QED BY <2>1, <2>2, InPlace DEF FrameStep
<1>4. QED BY <1>2, <1>3

LEMMA OwnIsSome ==
  ASSUME FramesInv
  PROVE  Own => stack.frames # << >>
<1>1. SUFFICES ASSUME Own, stack.frames = << >> PROVE FALSE
  OBVIOUS
<1>2. paused # << >> => paused[1].depth \in Nat
  BY HeldNumbers DEF FramesInv
<1>3. Len(stack.frames) = 0
  BY <1>1
<1>4. QED BY <1>1, <1>2, <1>3 DEF Own

LEMMA StepOfReturn ==
  ASSUME FramesInv, Return
  PROVE  FrameStep
<1>1. Tiles(stack) /\ stack.frames # << >> /\ stack' = frame_pop(stack)
  BY OwnIsSome DEF FramesInv, Return
<1>2. Tiles(stack') /\ Pushes(stack', stack)
  BY <1>1, PopIs
<1>3. QED BY <1>2 DEF Return, FrameStep, Shallows

\* A call that has its inputs takes a frame, or its caller's.
LEMMA StepOfEnter ==
  ASSUME FramesInv, NamesInv, NEW at, procs.slots[at].text \in Texts, Enter(at), paused' = paused
  PROVE  FrameStep
<1>1. Tiles(stack) /\ ProgramKnown
  BY DEF FramesInv, NamesInv
<1>2. program.things \in SUBSET Things
  BY <1>1, WorkspaceAssumption DEF ProgramKnown
<1> DEFINE p == procs.slots[at]
<1>3. p.text \in Texts /\ Inputs(at) = [1 .. Len(InputsOf[p.text]) -> program.things]
  BY DEF Inputs
<1>4. CASE eval_push_proc_call(at)
  <2>3. PICK args \in [1 .. Len(InputsOf[p.text]) -> program.things] :
          /\ stack' = frame_push(stack, p.text, args)
          /\ current' = IF frame_push(stack, p.text, args) = stack THEN current ELSE PushCurrent(current)
    BY <1>3, <1>4 DEF eval_push_proc_call
  <2> HIDE DEF p
  <2>5. CASE stack' = stack
    BY <2>3, <2>5, Unmoved
  <2>6. CASE stack' # stack
    <3>1. Tiles(stack') /\ Pushes(stack, stack')
      BY <1>1, <1>2, <1>3, <2>3, <2>6, PushIs
    <3>2. current' = PushCurrent(current)
      BY <2>3, <2>6
    <3>3. QED BY <3>1, <3>2 DEF FrameStep, Deepens
  <2>7. QED BY <2>5, <2>6
<1>5. CASE Own /\ step_proc_call(at)
  <2>1. Own /\ stack.frames # << >> /\ paused' = paused
    BY <1>5, OwnIsSome
  <2>2. p.text \in Texts
    BY <1>3
  <2>3. PICK outer : outer = frame_pop(stack)
    OBVIOUS
  <2>4. PICK args \in [1 .. Len(InputsOf[p.text]) -> program.things] :
          IF Len(args) <= stack.frames[1].inputs
          THEN /\ stack' = frame_reuse(stack, p.text, args)
               /\ current' = PushCurrent(PopCurrent(current))
          ELSE /\ stack' = frame_push(outer, p.text, args)
               /\ current' = IF frame_push(outer, p.text, args) = outer THEN PopCurrent(current)
                             ELSE PushCurrent(PopCurrent(current))
    BY <1>3, <1>5, <2>3 DEF step_proc_call
  <2> HIDE DEF p
  <2>5. Tiles(outer) /\ Pushes(outer, stack)
    BY <1>1, <2>1, <2>3, PopIs
  <2>6. CASE Len(args) <= stack.frames[1].inputs
    <3>1. stack' = frame_reuse(stack, p.text, args) /\ current' = PushCurrent(PopCurrent(current))
      BY <2>4, <2>6
    <3>2. Tiles(stack') /\ Keeps(stack, stack', 1)
      BY <1>1, <1>2, <2>1, <2>2, <2>6, <3>1, ReuseIs
    <3>3. QED BY <2>1, <3>1, <3>2, InPlace DEF FrameStep
  <2>7. CASE ~(Len(args) <= stack.frames[1].inputs) /\ stack' = outer
    <3>1. current' = PopCurrent(current)
      BY <2>4, <2>7
    <3>2. QED BY <2>1, <2>5, <2>7, <3>1 DEF FrameStep, Shallows
  <2>8. CASE ~(Len(args) <= stack.frames[1].inputs) /\ stack' # outer
    <3>1. stack' = frame_push(outer, p.text, args) /\ current' = PushCurrent(PopCurrent(current))
      BY <2>4, <2>8
    <3>2. Tiles(stack') /\ Pushes(outer, stack')
      BY <1>2, <2>2, <2>5, <2>8, <3>1, PushIs
    <3>3. Replaces
      BY <2>1, <2>5, <3>2 DEF Replaces
    <3>4. QED BY <2>1, <3>1, <3>3 DEF FrameStep
  <2>9. QED BY <2>6, <2>7, <2>8
<1>6. QED BY <1>4, <1>5 DEF Enter

LEMMA StepOfCalls ==
  ASSUME FramesInv, NamesInv, PendingInv, (\E w \in Words : Call(w)) \/ CallEnters \/ CallFails
  PROVE  FrameStep
<1>1. ASSUME NEW w \in Words, Call(w) PROVE FrameStep
  <2>1. /\ paused' = paused /\ resolve_word(w).kind = "procedure"
        /\ Enter(resolve_word(w).at) \/ UNCHANGED <<stack, current>>
    BY <1>1 DEF Call
  <2>2. procs.slots[resolve_word(w).at].text \in Texts
    BY <2>1, ResolvedIs
  <2>3. QED BY <2>1, <2>2, StepOfEnter, Unmoved
<1>2. CASE CallEnters
  <2>1. Waiting /\ paused' = paused /\ Enter(pending[1].at) /\ procs.slots[pending[1].at].name # NoWord
    BY <1>2 DEF CallEnters
  <2>2. procs.slots[pending[1].at].text \in Texts
    BY <2>1, WaitingIs DEF NamesInv, Listed
  <2>3. QED BY <2>1, <2>2, StepOfEnter
<1>3. CASE CallFails
  BY <1>3, Unmoved DEF CallFails
<1>4. QED BY <1>1, <1>2, <1>3

LEMMA EveryStepIsAFrameStep ==
  ASSUME FramesInv, NamesInv, PendingInv, ~PausedLocals, [Next]_vars
  PROVE  FrameStep
<1>1. ProgramKnown
  BY DEF NamesInv
<1>2. program.words \subseteq Words /\ program.things \subseteq Things
  BY <1>1, Speaks
<1>3. ASSUME UNCHANGED <<stack, current, paused>> PROVE FrameStep
  BY <1>3, Unmoved
<1>4. ASSUME NEW p, Globals(p) \/ Procs(p) \/ Props(p) PROVE FrameStep
  BY <1>3, <1>4 DEF Globals, Procs, Props
<1>5. ASSUME NEW w \in program.words, NEW v \in program.things, Make(w, v) \/ Localmake(w, v)
      PROVE  FrameStep
  <2>1. w \in Words /\ v \in Things
    BY <1>2, <1>5
  <2>2. QED BY <1>5, <2>1, StepOfLocals
<1>6. ASSUME NEW w \in program.words, Local(w) PROVE FrameStep
  BY <1>2, <1>6, StepOfLocal
<1>7. ASSUME NEW b \in Outcomes, Test(b) PROVE FrameStep
  BY <1>7, StepOfTest
<1>8. ASSUME (\E w \in program.words : Call(w)) \/ CallEnters \/ CallFails PROVE FrameStep
  BY <1>2, <1>8, StepOfCalls
<1>9. ASSUME Return PROVE FrameStep
  BY <1>9, StepOfReturn
<1>10. ASSUME proc_reset_execution_state \/ PauseLine \/ PauseLineEnds \/ PauseLineFails
       PROVE  FrameStep
  BY <1>10 DEF FrameStep
<1>11. ASSUME \/ \E w \in program.words : Ern(w)
              \/ \E w \in program.words, way \in BOOLEAN : Buryname(w, way)
              \/ Erns
       PROVE  FrameStep
  BY <1>4, <1>11 DEF Ern, Buryname, Erns
<1>12. ASSUME Buryall \/ Unburyall \/ Erall PROVE FrameStep
  BY <1>3, <1>12 DEF Buryall, Unburyall, Erall
<1>13. ASSUME NEW w, Mention(w) \/ Erase(w) PROVE FrameStep
  BY <1>3, <1>4, <1>13 DEF Mention, Erase
<1>14. ASSUME NEW w, NEW text, Define(w, text) PROVE FrameStep
  BY <1>4, <1>14 DEF Define
<1>15. ASSUME NEW w, NEW new, Copydef(w, new) PROVE FrameStep
  BY <1>3, <1>4, <1>15 DEF Copydef, Alias
<1>16. ASSUME Erps PROVE FrameStep
  BY <1>4, <1>16 DEF Erps
<1>17. ASSUME NEW w, NEW mark, NEW on, SetMark(w, mark, on) PROVE FrameStep
  BY <1>3, <1>17 DEF SetMark
<1>18. ASSUME \/ \E w, p \in program.words, v \in program.things : Pprop(w, p, v)
              \/ \E w, p \in program.words : Remprop(w, p)
              \/ Erprops
       PROVE  FrameStep
  BY <1>4, <1>18 DEF Pprop, Remprop, Erprops
<1>19. CASE UNCHANGED vars
  BY <1>3, <1>19 DEF vars
<1>20. QED BY <1>5, <1>6, <1>7, <1>8, <1>9, <1>10, <1>11, <1>12, <1>13, <1>14, <1>15, <1>16,
              <1>17, <1>18, <1>19 DEF Next

\* How many names a call and a return leave: no more than there are frames.
LEMMA NamesAre ==
  ASSUME NEW c \in 0 .. MAX_CURRENT_PROC_DEPTH, NEW n \in Nat, c <= n
  PROVE  /\ PushCurrent(c) \in 0 .. MAX_CURRENT_PROC_DEPTH /\ PushCurrent(c) <= n + 1
         /\ PopCurrent(c) \in 0 .. MAX_CURRENT_PROC_DEPTH
         /\ n # 0 => PopCurrent(c) <= n - 1 /\ PushCurrent(PopCurrent(c)) <= n
         /\ PushCurrent(PopCurrent(c)) \in 0 .. MAX_CURRENT_PROC_DEPTH
  BY Sizes DEF PushCurrent, PopCurrent

LEMMA FramesInit == Init => FramesInv
<1> SUFFICES ASSUME Init PROVE FramesInv
  OBVIOUS
<1>1. stack = NoFrames /\ current = 0 /\ paused = << >>
  BY DEF Init
<1>2. Tiles(NoFrames) /\ Len(NoFrames.frames) = 0
  BY Sizes DEF Tiles, NoFrames
<1>3. QED BY <1>1, <1>2, Sizes DEF FramesInv

LEMMA FramesKept ==
  ASSUME FramesInv, NamesInv, PendingInv, ~PausedLocals, [Next]_vars
  PROVE  FramesInv'
<1>1. FrameStep
  BY EveryStepIsAFrameStep
<1>2. /\ Tiles(stack) /\ current \in 0 .. MAX_CURRENT_PROC_DEPTH /\ current <= Len(stack.frames)
      /\ paused # << >> => paused = <<paused[1]>> /\ Held(stack, paused[1])
  BY DEF FramesInv
<1>3. PICK n \in Nat : n = Len(stack.frames)
  BY <1>2, LenProperties DEF Tiles
<1>4. Own => n # 0
  <2>1. stack.frames # << >> => n # 0
    BY <1>2, <1>3, EmptySeq DEF Tiles
  <2>2. QED BY <2>1, OwnIsSome
<1>5. Own /\ paused # << >> => paused[1].depth < n
  <2>1. paused # << >> => paused[1].depth \in Nat
    BY <1>2, HeldNumbers
  <2>2. QED BY <1>3, <2>1 DEF Own
<1>6. ASSUME paused' = paused, NEW k \in 1 .. 2, Stays(k),
             current' \in 0 .. MAX_CURRENT_PROC_DEPTH, current' <= n
      PROVE  FramesInv'
  <2>1. Tiles(stack') /\ Len(stack'.frames) = n
    BY <1>3, <1>6 DEF Stays, Keeps
  <2>2. paused # << >> => Held(stack', paused[1])
    BY <1>2, <1>6, HeldKeeps DEF Stays
  <2>3. QED BY <1>2, <1>6, <2>1, <2>2 DEF FramesInv
<1>7. ASSUME paused' = paused, current' = current, \E k \in 1 .. 2 : Stays(k)
      PROVE  FramesInv'
  BY <1>2, <1>3, <1>6, <1>7
<1>8. ASSUME paused' = paused, current' = PushCurrent(current), Deepens PROVE FramesInv'
  <2>1. Tiles(stack') /\ Pushes(stack, stack') /\ Len(stack'.frames) = n + 1
    BY <1>3, <1>8 DEF Deepens, Pushes
  <2>2. paused # << >> => Held(stack', paused[1])
    BY <1>2, <2>1, HeldPush
  <2>3. current' \in 0 .. MAX_CURRENT_PROC_DEPTH /\ current' <= n + 1
    BY <1>2, <1>3, <1>8, NamesAre
  <2>4. QED BY <1>2, <1>8, <2>1, <2>2, <2>3 DEF FramesInv
<1>9. ASSUME paused' = paused, current' = PopCurrent(current), Shallows PROVE FramesInv'
  <2>1. Own /\ Tiles(stack') /\ Pushes(stack', stack)
    BY <1>9 DEF Shallows
  <2>2. Len(stack'.frames) \in Nat
    BY <2>1, LenProperties DEF Tiles
  <2>3. Len(stack'.frames) = n - 1
    BY <1>3, <2>1, <2>2 DEF Pushes
  <2>4. paused # << >> => Held(stack', paused[1])
    BY <1>2, <1>3, <1>5, <2>1, HeldPop
  <2>5. current' \in 0 .. MAX_CURRENT_PROC_DEPTH /\ current' <= n - 1
    BY <1>2, <1>3, <1>4, <1>9, <2>1, NamesAre
  <2>6. QED BY <1>2, <1>9, <2>1, <2>3, <2>4, <2>5 DEF FramesInv
<1>10. ASSUME paused' = paused, current' = PushCurrent(PopCurrent(current)), Own, Stays(1) \/ Replaces
       PROVE  FramesInv'
  <2>1. current' \in 0 .. MAX_CURRENT_PROC_DEPTH /\ current' <= n
    BY <1>2, <1>3, <1>4, <1>10, NamesAre
  <2>2. CASE Stays(1)
    BY <1>6, <1>10, <2>1, <2>2
  <2>3. CASE Replaces
    <3>1. PICK mid : Tiles(mid) /\ Pushes(mid, stack) /\ Pushes(mid, stack') /\ Tiles(stack')
      BY <2>3 DEF Replaces
    <3>2. Len(stack'.frames) = n
      BY <1>3, <3>1 DEF Pushes
    <3>3. paused # << >> => Held(mid, paused[1])
      BY <1>2, <1>3, <1>5, <1>10, <3>1, HeldPop
    <3>4. paused # << >> => Held(stack', paused[1])
      BY <3>1, <3>3, HeldPush
    <3>5. QED BY <1>2, <1>10, <2>1, <3>1, <3>2, <3>4 DEF FramesInv
  <2>4. QED BY <1>10, <2>2, <2>3
<1>11. ASSUME proc_reset_execution_state PROVE FramesInv'
  <2>1. stack' = NoFrames /\ current' = 0 /\ paused' = << >>
    BY <1>11 DEF proc_reset_execution_state
  <2>2. Tiles(NoFrames) /\ Len(NoFrames.frames) = 0
    BY Sizes DEF Tiles, NoFrames
  <2>3. QED BY <2>1, <2>2, Sizes DEF FramesInv
<1>12. ASSUME PauseLine PROVE FramesInv'
  <2> DEFINE snap == [depth |-> Len(stack.frames), top |-> stack.top, names |-> current,
                      pending |-> pending]
  <2>1. paused' = <<snap>> /\ UNCHANGED <<stack, current>> /\ current # 0
    BY <1>12 DEF PauseLine
  <2>2. snap.depth = n /\ snap.names = current /\ snap.top = stack.top
    BY <1>3
  <2> HIDE DEF snap
  <2>3. n \in 1 .. n /\ n - n = 0 /\ stack.frames # << >>
    BY <1>2, <1>3, <2>1, EmptySeq DEF Tiles
  <2>4. stack.frames[1].at + stack.frames[1].size = stack.top /\ stack.top \in Nat
    BY <1>2, <2>3, Innermost, Sizes DEF Tiles
  <2>5. Held(stack, snap)
    BY <1>2, <1>3, <2>2, <2>3, <2>4 DEF Held
  <2>6. paused'[1] = snap
    BY <2>1
  <2>7. QED BY <1>2, <2>1, <2>5, <2>6 DEF FramesInv
<1>13. ASSUME PauseLineEnds PROVE FramesInv'
  BY <1>2, <1>13 DEF PauseLineEnds, FramesInv
<1>14. ASSUME PauseLineFails PROVE FramesInv'
  <2>1. /\ paused' = << >> /\ current' = paused[1].names /\ Held(stack, paused[1])
        /\ stack' = frame_stack_restore(stack, paused[1])
    BY <1>2, <1>14 DEF PauseLineFails
  <2>2. Tiles(stack') /\ Len(stack'.frames) = paused[1].depth
    BY <1>2, <2>1, RestoreIs
  <2>3. current' \in 0 .. MAX_CURRENT_PROC_DEPTH /\ current' <= paused[1].depth
    BY <2>1 DEF Held
  <2>4. QED BY <2>1, <2>2, <2>3 DEF FramesInv
<1>15. QED BY <1>1, <1>7, <1>8, <1>9, <1>10, <1>11, <1>12, <1>13, <1>14 DEF FrameStep

LEMMA FramesAlways == ~PausedLocals => (Spec => [](FramesInv /\ PendingInv))
<1>1. ASSUME ~PausedLocals, NamesInv, FramesInv, PendingInv, [Next]_vars
      PROVE  FramesInv' /\ PendingInv'
  <2>1. Len(stack.frames) \in Nat
    BY <1>1, LenProperties DEF FramesInv, Tiles
  <2>2. QED BY <1>1, <2>1, FramesKept, PendingKept
<1>2. ~PausedLocals /\ NamesInv /\ FramesInv /\ PendingInv /\ [Next]_vars => FramesInv' /\ PendingInv'
  BY <1>1
<1>3. ASSUME ~PausedLocals PROVE Spec => [](FramesInv /\ PendingInv)
  <2>1. NamesInv /\ FramesInv /\ PendingInv /\ [Next]_vars => FramesInv' /\ PendingInv'
    BY <1>2, <1>3
  <2>2. QED BY <2>1, FramesInit, PendingInit, NamesAlways, PTL DEF Spec
<1>4. QED BY <1>3

\* Frames lie end to end in the arena of frame_arena.c and each has room for
\* its bindings, through calls, tail calls, locals, errors at the prompt of a
\* pause and resets, if no line at that prompt says local itself.
THEOREM FramesAlwaysTile == ~PausedLocals => (Spec => []FramesTile)
<1>1. FramesInv => FramesTile
  BY DEF FramesInv, Tiles, Fits, FramesTile
<1>2. QED BY <1>1, FramesAlways, PTL

-----------------------------------------------------------------------------
(* The names of the procedures beside their frames.                        *)

\* A name for each frame, and so it was at the snapshot.
ToldInv == NamesTold /\ (paused # << >> => paused[1].names = paused[1].depth)

\* While the calls are no deeper than current_proc_stack no name is dropped,
\* and the names come and go with the frames.
LEMMA ToldKept ==
  ASSUME FramesInv, NamesInv, PendingInv, ToldInv, Shallow, Shallow', ~PausedLocals, [Next]_vars
  PROVE  ToldInv'
<1>1. FrameStep
  BY EveryStepIsAFrameStep
<1>2. Tiles(stack) /\ current = Len(stack.frames) /\ (paused # << >> => paused[1].names = paused[1].depth)
  BY DEF FramesInv, ToldInv, NamesTold
<1>3. PICK n \in Nat : n = Len(stack.frames)
  BY <1>2, LenProperties DEF Tiles
<1>4. n <= MAX_CURRENT_PROC_DEPTH /\ (stack.frames # << >> => n # 0)
  BY <1>2, <1>3, EmptySeq DEF Shallow, Tiles
<1>5. ASSUME paused' = paused, current' = Len(stack'.frames) PROVE ToldInv'
  BY <1>2, <1>5 DEF ToldInv, NamesTold
<1>6. n # 0 => PopCurrent(current) = n - 1 /\ PushCurrent(PopCurrent(current)) = n
  BY <1>2, <1>3, <1>4, Sizes DEF PushCurrent, PopCurrent
<1>7. ASSUME paused' = paused, current' = current, \E k \in 1 .. 2 : Stays(k)
      PROVE  ToldInv'
  BY <1>2, <1>3, <1>5, <1>7 DEF Stays, Keeps
<1>8. ASSUME paused' = paused, current' = PushCurrent(current), Deepens PROVE ToldInv'
  <2>1. Len(stack'.frames) = n + 1 /\ n + 1 <= MAX_CURRENT_PROC_DEPTH
    BY <1>3, <1>8 DEF Deepens, Pushes, Shallow
  <2>2. current' = n + 1
    BY <1>2, <1>3, <1>8, <2>1, Sizes DEF PushCurrent
  <2>3. QED BY <1>5, <1>8, <2>1, <2>2
<1>9. ASSUME paused' = paused, current' = PopCurrent(current), Shallows PROVE ToldInv'
  <2>1. n # 0 /\ Len(stack'.frames) \in Nat
    BY <1>4, <1>9, OwnIsSome, LenProperties DEF Shallows, Tiles
  <2>2. n = Len(stack'.frames) + 1
    BY <1>3, <1>9 DEF Shallows, Pushes
  <2>3. current' = Len(stack'.frames)
    BY <1>6, <1>9, <2>1, <2>2
  <2>4. QED BY <1>5, <1>9, <2>3
<1>10. ASSUME paused' = paused, current' = PushCurrent(PopCurrent(current)), Own, Stays(1) \/ Replaces
       PROVE  ToldInv'
  <2>1. current' = n
    BY <1>4, <1>6, <1>10, OwnIsSome
  <2>2. Len(stack'.frames) = n
    BY <1>3, <1>10 DEF Stays, Keeps, Replaces, Pushes
  <2>3. QED BY <1>5, <1>10, <2>1, <2>2
<1>11. ASSUME proc_reset_execution_state PROVE ToldInv'
  <2>1. stack' = NoFrames /\ current' = 0 /\ paused' = << >> /\ Len(NoFrames.frames) = 0
    BY <1>11 DEF proc_reset_execution_state, NoFrames
  <2>2. QED BY <2>1 DEF ToldInv, NamesTold
<1>12. ASSUME PauseLine PROVE ToldInv'
  <2>1. UNCHANGED <<stack, current>>
        /\ paused' = <<[depth |-> Len(stack.frames), top |-> stack.top, names |-> current,
                        pending |-> pending]>>
    BY <1>12 DEF PauseLine
  <2>2. paused'[1].names = current /\ paused'[1].depth = Len(stack.frames)
    BY <2>1
  <2>3. QED BY <1>2, <2>1, <2>2 DEF ToldInv, NamesTold
<1>13. ASSUME PauseLineEnds PROVE ToldInv'
  BY <1>2, <1>13 DEF PauseLineEnds, ToldInv, NamesTold
<1>14. ASSUME PauseLineFails PROVE ToldInv'
  <2>1. /\ paused # << >> /\ paused' = << >> /\ current' = paused[1].names
        /\ stack' = frame_stack_restore(stack, paused[1])
    BY <1>14 DEF PauseLineFails
  <2>2. Held(stack, paused[1])
    BY <2>1 DEF FramesInv
  <2>3. Len(stack'.frames) = paused[1].depth
    BY <1>2, <2>1, <2>2, RestoreIs
  <2>4. QED BY <1>2, <2>1, <2>3 DEF ToldInv, NamesTold
<1>15. QED BY <1>1, <1>7, <1>8, <1>9, <1>10, <1>11, <1>12, <1>13, <1>14 DEF FrameStep

LEMMA TypesHold ==
  ASSUME GlobalsInv, NamesInv, FramesInv
  PROVE  TypeOK
<1>1. globals.slots \in [Slots -> SlotType] /\ globals.hash \in [Places -> Active(globals) \cup {0}]
  BY DEF GlobalsInv, Shaped, Indexed, Indexes
<1>2. Active(globals) \subseteq Slots
  BY ActiveAre DEF GlobalsInv
<1>3. Active(globals) \cup {0} \subseteq 0 .. MAX_GLOBAL_VARIABLES
  BY <1>2, Sizes DEF Slots
<1>4. globals.hash \in [Places -> 0 .. MAX_GLOBAL_VARIABLES]
  BY <1>1, <1>3
<1>5. procs.slots \in [ProcSlots -> ProcType] /\ \A w \in Words : memo[w].kind \in Kinds
  BY DEF NamesInv, Listed
<1>6. stack.top \in 0 .. ArenaWords /\ current \in 0 .. MAX_CURRENT_PROC_DEPTH
      /\ current <= Len(stack.frames)
  BY DEF FramesInv, Tiles
<1>7. QED BY <1>1, <1>4, <1>5, <1>6 DEF TypeOK, Slots, SlotType, Places, ProcSlots, ProcType, Kinds

\* What the tables of the interpreter keep beside themselves is true together:
\* the shapes, the index, the remembered bindings, the arena and, while calls
\* are no deeper than current_proc_stack, the names of the procedures.
THEOREM TablesAlwaysAgree == ~PausedLocals => (Spec /\ []Shallow => []TablesAgree)
<1> SUFFICES ASSUME ~PausedLocals PROVE Spec /\ []Shallow => []TablesAgree
  OBVIOUS
<1>1. Spec => [](FramesInv /\ PendingInv)
  BY FramesAlways
<1>2. Init => ToldInv
  BY DEF Init, ToldInv, NamesTold, NoFrames
<1>3. FramesInv /\ PendingInv /\ NamesInv /\ ToldInv /\ Shallow /\ Shallow' /\ [Next]_vars => ToldInv'
  BY ToldKept
<1>4. Spec /\ []Shallow => []ToldInv
  BY <1>1, <1>2, <1>3, NamesAlways, PTL DEF Spec
<1>5. GlobalsInv /\ NamesInv /\ FramesInv /\ ToldInv => TablesAgree
  <2>1. GlobalsInv => LookupExact
    BY FindExact DEF GlobalsInv, LookupExact
  <2>2. FramesInv => FramesTile
    BY DEF FramesInv, Tiles, Fits, FramesTile
  <2>3. QED BY <2>1, <2>2, TypesHold DEF NamesInv, ToldInv, TablesAgree
<1>6. QED BY <1>1, <1>4, <1>5, GlobalsAlways, NamesAlways, PTL

=============================================================================
