---------------------------- MODULE ScopesProofs ----------------------------
(***************************************************************************)
(* The workspace implements Scopes: slots, index, arena, memo and lists of *)
(* cells are a stack of scopes and four dictionaries, for every set of     *)
(* words and way they fold, and every size of the tables and the arena.    *)
(***************************************************************************)
EXTENDS WorkspaceProofs

-----------------------------------------------------------------------------
(* Globals: the table is the dictionary of its active slots.               *)

Shown(slot) == [thing |-> slot.thing, buried |-> slot.buried]

\* A dictionary has exactly the names of a table's active slots, and says of
\* each what its slot says.
Tells(F, g) ==
  /\ F = [n \in DOMAIN F |-> F[n]]
  /\ \A i \in Active(g) : /\ Fold[g.slots[i].name] \in DOMAIN F
                          /\ F[Fold[g.slots[i].name]] = Shown(g.slots[i])
  /\ \A n \in DOMAIN F : \E i \in Active(g) : n = Fold[g.slots[i].name]

LEMMA GlobalsViewTells ==
  ASSUME NEW g, Shaped(g)
  PROVE  Tells(GlobalsView(g), g)
<1>1. Active(g) \in SUBSET Slots /\ \A i \in Active(g) : g.slots[i].active
  BY ActiveAre
<1>2. ASSUME NEW i \in Active(g) PROVE SlotOf(g, Fold[g.slots[i].name]) = i
  <2>1. \A j \in Active(g) : Fold[g.slots[j].name] = Fold[g.slots[i].name] => j = i
    BY <1>1 DEF Shaped
  <2>2. QED BY <2>1 DEF SlotOf
<1>3. QED BY <1>2 DEF GlobalsView, Shown, Tells

\* Only one dictionary tells a table.
LEMMA GlobalsViewIs ==
  ASSUME NEW g, Shaped(g), NEW F, Tells(F, g)
  PROVE  GlobalsView(g) = F
<1> DEFINE G == GlobalsView(g)
<1>1. Tells(G, g)
  BY GlobalsViewTells
<1> HIDE DEF G
<1>2. \A n : n \in DOMAIN F <=> n \in DOMAIN G
  BY <1>1 DEF Tells
<1>3. \A n \in DOMAIN F : G[n] = F[n]
  BY <1>1 DEF Tells
<1>4. DOMAIN G = DOMAIN F
  BY <1>2
<1>5. G = F
  BY <1>1, <1>3, <1>4 DEF Tells
<1>6. QED BY <1>5 DEF G

\* What find_global says of the dictionary.
LEMMA GlobalFound ==
  ASSUME NEW g, Shaped(g), Indexed(g), NEW w \in Words
  PROVE  /\ find_global(g, w) = 0 <=> Fold[w] \notin DOMAIN GlobalsView(g)
         /\ find_global(g, w) # 0 => /\ find_global(g, w) \in Active(g)
                                     /\ Fold[g.slots[find_global(g, w)].name] = Fold[w]
         /\ \A i \in Active(g) : i = find_global(g, w) <=> Fold[g.slots[i].name] = Fold[w]
<1>1. \A i \in Active(g) : i # 0 /\ g.slots[i].name \in Words
  BY ActiveAre DEF Slots
<1>2. \A i \in Active(g) : Same(g.slots[i].name, w) <=> Fold[g.slots[i].name] = Fold[w]
  BY <1>1 DEF Same
<1>3. LET here == {i \in Active(g) : Same(g.slots[i].name, w)}
      IN  IF here = {} THEN find_global(g, w) = 0 ELSE here = {find_global(g, w)}
  BY FindExact
<1>4. Tells(GlobalsView(g), g)
  BY GlobalsViewTells
<1>5. QED BY <1>1, <1>2, <1>3, <1>4 DEF Tells

LEMMA NewGlobalView ==
  ASSUME NEW g, Shaped(g), Indexed(g), NEW w \in Words, find_global(g, w) = 0,
         NEW v \in Things \cup {NoThing}
  PROVE  \/ GlobalsView(NewGlobal(g, w, v)) = GlobalsView(g)
         \/ GlobalsView(NewGlobal(g, w, v))
              = InScopes!With(GlobalsView(g), Fold[w], [thing |-> v, buried |-> FALSE])
<1> DEFINE free == {i \in 1 .. MAX_GLOBAL_VARIABLES : ~g.slots[i].active}
           k == First(free)
           new == [name |-> w, thing |-> v, active |-> TRUE, buried |-> FALSE]
           h == NewGlobal(g, w, v)
           F == InScopes!With(GlobalsView(g), Fold[w], [thing |-> v, buried |-> FALSE])
<1>1. CASE free = {}
  BY <1>1 DEF NewGlobal
<1>2. CASE free # {}
  <2>1. k \in Slots /\ ~g.slots[k].active
    <3>1. free \in SUBSET Nat
      BY Sizes
    <3>2. k \in free
      BY <1>2, <3>1, FirstIs
    <3>3. QED BY <3>2 DEF Slots
  <2>2. h.slots = [g.slots EXCEPT ![k] = new]
    BY <1>2 DEF NewGlobal
  <2>3. Shaped(h)
    BY NewGlobalIs
  <2> HIDE DEF k, h
  <2>4. \A i \in Slots : h.slots[i] = IF i = k THEN new ELSE g.slots[i]
    BY <2>1, <2>2 DEF Shaped
  <2>5. Active(h) = Active(g) \cup {k} /\ k \notin Active(g) /\ Active(g) \subseteq Slots
    <3>1. \A i \in Slots : i \in Active(h) <=> h.slots[i].active
      BY <2>3, ActiveAre
    <3>2. \A i \in Slots : i \in Active(g) <=> g.slots[i].active
      BY ActiveAre
    <3>3. Active(h) \subseteq Slots /\ Active(g) \subseteq Slots
      BY <2>3, ActiveAre
    <3>4. \A i \in Slots : i \in Active(h) <=> i \in Active(g) \/ i = k
      BY <2>1, <2>4, <3>1, <3>2
    <3>5. QED BY <2>1, <3>2, <3>3, <3>4
  <2>6. Tells(GlobalsView(g), g) /\ Fold[w] \notin DOMAIN GlobalsView(g)
    BY GlobalsViewTells, GlobalFound
  <2>7. /\ DOMAIN F = DOMAIN GlobalsView(g) \cup {Fold[w]} /\ F = [n \in DOMAIN F |-> F[n]]
        /\ F[Fold[w]] = [thing |-> v, buried |-> FALSE]
        /\ \A n \in DOMAIN GlobalsView(g) : n # Fold[w] => F[n] = GlobalsView(g)[n]
    BY DEF InScopes!With
  <2> HIDE DEF F
  <2>8. Tells(F, h)
    <3>1. Shown(new) = [thing |-> v, buried |-> FALSE] /\ new.name = w
      BY DEF Shown
    <3>2. h.slots[k] = new /\ \A i \in Active(g) : h.slots[i] = g.slots[i]
      BY <2>1, <2>4, <2>5
    <3> HIDE DEF new
    <3>3. ASSUME NEW i \in Active(h)
          PROVE  Fold[h.slots[i].name] \in DOMAIN F /\ F[Fold[h.slots[i].name]] = Shown(h.slots[i])
      <4>1. CASE i = k
        BY <2>7, <3>1, <3>2, <4>1
      <4>2. CASE i # k
        BY <2>5, <2>6, <2>7, <3>2, <4>2 DEF Tells
      <4>3. QED BY <4>1, <4>2
    <3>4. ASSUME NEW n \in DOMAIN F PROVE \E i \in Active(h) : n = Fold[h.slots[i].name]
      <4>1. CASE n = Fold[w]
        BY <2>5, <3>1, <3>2, <4>1
      <4>2. CASE n # Fold[w]
        BY <2>5, <2>6, <2>7, <3>2, <4>2 DEF Tells
      <4>3. QED BY <4>1, <4>2
    <3>5. QED BY <2>7, <3>3, <3>4 DEF Tells
  <2> HIDE DEF F
  <2>9. GlobalsView(h) = F
    BY <2>3, <2>8, GlobalsViewIs
  <2>10. QED BY <2>9 DEF F, h
<1>3. QED BY <1>1, <1>2

\* A table whose active slots are those of another and have their names.
LEMMA RefilledView ==
  ASSUME NEW g, Shaped(g), NEW h, Shaped(h), Active(h) = Active(g),
         \A i \in Active(g) : h.slots[i].name = g.slots[i].name,
         NEW F, F = [n \in DOMAIN F |-> F[n]], DOMAIN F = DOMAIN GlobalsView(g),
         \A i \in Active(g) : F[Fold[g.slots[i].name]] = Shown(h.slots[i])
  PROVE  GlobalsView(h) = F
<1>1. Tells(GlobalsView(g), g)
  BY GlobalsViewTells
<1>2. Tells(F, h)
  BY <1>1 DEF Tells
<1>3. QED BY <1>2, GlobalsViewIs

\* Two tables with the same slots in use.
LEMMA SameActive ==
  ASSUME NEW g, Shaped(g), NEW h, Shaped(h),
         \A i \in Slots : h.slots[i].active <=> g.slots[i].active
  PROVE  Active(h) = Active(g)
<1>1. \A i \in Slots : i \in Active(h) <=> i \in Active(g)
  BY ActiveAre
<1>2. Active(h) \in SUBSET Slots /\ Active(g) \in SUBSET Slots
  BY ActiveAre
<1>3. QED BY <1>1, <1>2

LEMMA ShownIs ==
  ASSUME NEW g, Shaped(g), NEW n \in DOMAIN GlobalsView(g)
  PROVE  /\ GlobalsView(g)[n].buried \in BOOLEAN
         /\ GlobalsView(g)[n] = [thing |-> GlobalsView(g)[n].thing, buried |-> GlobalsView(g)[n].buried]
<1>1. PICK i \in Active(g) : GlobalsView(g)[n] = Shown(g.slots[i])
  BY GlobalsViewTells DEF Tells
<1>2. g.slots[i] \in SlotType
  BY ActiveAre DEF Shaped
<1>3. QED BY <1>1, <1>2 DEF Shown, SlotType

LEMMA GlobalSetView ==
  ASSUME NEW g, Shaped(g), Indexed(g), NEW w \in Words, NEW v \in Things, NEW V, V = GlobalsView(g)
  PROVE  \/ GlobalsView(GlobalSet(g, w, v)) = V
         \/ GlobalsView(GlobalSet(g, w, v))
              = InScopes!With(V, Fold[w], [thing |-> v,
                                           buried |-> Fold[w] \in DOMAIN V /\ V[Fold[w]].buried])
<1> DEFINE k == find_global(g, w)
           h == GlobalSet(g, w, v)
<1>1. CASE k = 0
  <2>1. GlobalSet(g, w, v) = NewGlobal(g, w, v) /\ Fold[w] \notin DOMAIN V
    BY <1>1, GlobalFound DEF GlobalSet
  <2>2. PICK e \in BOOLEAN : e = (Fold[w] \in DOMAIN V /\ V[Fold[w]].buried) /\ e = FALSE
    BY <2>1
  <2>3. QED BY <1>1, <2>1, <2>2, NewGlobalView
<1>2. CASE k # 0
  <2>1. k \in Active(g) /\ k \in Slots /\ Fold[g.slots[k].name] = Fold[w]
    BY <1>2, GlobalFound, ActiveAre
  <2>2. Shaped(h)
    BY GlobalSetIs
  <2>3. h = [g EXCEPT !.slots[k].thing = v]
    BY <1>2 DEF GlobalSet
  <2> HIDE DEF h, k
  <2>4. g.slots \in [Slots -> SlotType] /\ g = [slots |-> g.slots, count |-> g.count, hash |-> g.hash]
    BY DEF Shaped
  <2>5. h.slots = [g.slots EXCEPT ![k] = [@ EXCEPT !.thing = v]]
    BY <2>3, <2>4
  <2>6. \A i \in Slots : /\ i # k => h.slots[i] = g.slots[i]
                         /\ i = k => h.slots[i] = [g.slots[k] EXCEPT !.thing = v]
    BY <2>1, <2>4, <2>5
  <2>7. \A s \in SlotType : /\ [s EXCEPT !.thing = v].name = s.name
                            /\ [s EXCEPT !.thing = v].active = s.active
                            /\ [s EXCEPT !.thing = v].buried = s.buried
                            /\ [s EXCEPT !.thing = v].thing = v
    BY DEF SlotType
  <2>8. \A i \in Slots : /\ h.slots[i].name = g.slots[i].name /\ h.slots[i].active = g.slots[i].active
                         /\ i = k => h.slots[i].thing = v /\ h.slots[i].buried = g.slots[i].buried
    <3>1. ASSUME NEW i \in Slots, i = k
          PROVE  /\ h.slots[i].name = g.slots[i].name /\ h.slots[i].active = g.slots[i].active
                 /\ h.slots[i].thing = v /\ h.slots[i].buried = g.slots[i].buried
      <4>1. g.slots[k] \in SlotType /\ h.slots[i] = [g.slots[k] EXCEPT !.thing = v]
        BY <2>1, <2>4, <2>6, <3>1
      <4>2. QED BY <2>7, <3>1, <4>1
    <3>2. QED BY <2>6, <3>1
  <2>9. Active(h) = Active(g) /\ \A i \in Active(g) : i \in Slots
    BY <2>2, <2>8, SameActive, ActiveAre
  <2>10. Tells(V, g)
    BY GlobalsViewTells
  <2>11. Fold[w] \in DOMAIN V /\ V[Fold[w]] = Shown(g.slots[k])
    BY <2>1, <2>10 DEF Tells
  <2>12. PICK e \in BOOLEAN : e = V[Fold[w]].buried
    BY <2>11, ShownIs
  <2>13. (Fold[w] \in DOMAIN V /\ V[Fold[w]].buried) = e
    BY <2>11, <2>12
  <2> DEFINE F == InScopes!With(V, Fold[w], [thing |-> v, buried |-> e])
  <2>14. /\ F = [n \in DOMAIN F |-> F[n]] /\ DOMAIN F = DOMAIN V
         /\ F[Fold[w]] = [thing |-> v, buried |-> e]
         /\ \A n \in DOMAIN V : n # Fold[w] => F[n] = V[n]
    BY <2>11 DEF InScopes!With
  <2> HIDE DEF F
  <2>15. ASSUME NEW i \in Active(g) PROVE F[Fold[g.slots[i].name]] = Shown(h.slots[i])
    <3>1. CASE i = k
      <4>1. h.slots[i].thing = v /\ h.slots[i].buried = e
        BY <2>1, <2>8, <2>11, <2>12, <3>1 DEF Shown
      <4>2. QED BY <2>1, <2>14, <3>1, <4>1 DEF Shown
    <3>2. CASE i # k
      <4>1. Fold[g.slots[i].name] # Fold[w]
        BY <3>2, GlobalFound DEF k
      <4>2. QED BY <2>6, <2>9, <2>10, <2>14, <3>2, <4>1 DEF Tells
    <3>3. QED BY <3>1, <3>2
  <2>16. GlobalsView(h) = F
    BY <2>2, <2>8, <2>9, <2>14, <2>15, RefilledView
  <2>17. QED BY <2>13, <2>16 DEF F, h
<1>3. QED BY <1>1, <1>2

LEMMA GlobalDeclareView ==
  ASSUME NEW g, Shaped(g), Indexed(g), NEW w \in Words
  PROVE  \/ GlobalsView(GlobalDeclare(g, w)) = GlobalsView(g)
         \/ /\ Fold[w] \notin DOMAIN GlobalsView(g)
            /\ GlobalsView(GlobalDeclare(g, w))
                 = InScopes!With(GlobalsView(g), Fold[w], [thing |-> NoThing, buried |-> FALSE])
  BY NewGlobalView, GlobalFound DEF GlobalDeclare

\* Burying some of the slots is burying the names of those slots.
Laid(V, names, way) == [n \in DOMAIN V |-> IF n \in names THEN [V[n] EXCEPT !.buried = way] ELSE V[n]]

LEMMA BuryGlobalsView ==
  ASSUME NEW g, Shaped(g), Indexed(g), NEW some, NEW way \in BOOLEAN, NEW names,
         \A i \in Active(g) : i \in some <=> Fold[g.slots[i].name] \in names
  PROVE  GlobalsView(BuryGlobals(g, some, way)) = Laid(GlobalsView(g), names, way)
<1> DEFINE V == GlobalsView(g)
           h == BuryGlobals(g, some, way)
           F == [n \in DOMAIN V |-> IF n \in names THEN [V[n] EXCEPT !.buried = way] ELSE V[n]]
<1>1. Shaped(h)
  BY BuryGlobalsIs
<1>2. g.slots \in [Slots -> SlotType] /\ g = [slots |-> g.slots, count |-> g.count, hash |-> g.hash]
  BY DEF Shaped
<1>3. h.slots = [i \in DOMAIN g.slots |-> IF i \in some THEN [g.slots[i] EXCEPT !.buried = way]
                                          ELSE g.slots[i]]
  BY <1>2 DEF BuryGlobals
<1> HIDE DEF h
<1>4. ASSUME NEW s \in SlotType
      PROVE  /\ [s EXCEPT !.buried = way].name = s.name /\ [s EXCEPT !.buried = way].active = s.active
             /\ Shown([s EXCEPT !.buried = way]) = [Shown(s) EXCEPT !.buried = way]
  BY DEF SlotType, Shown
<1>5. ASSUME NEW i \in Slots
      PROVE  /\ h.slots[i].name = g.slots[i].name /\ h.slots[i].active = g.slots[i].active
             /\ Shown(h.slots[i]) = IF i \in some THEN [Shown(g.slots[i]) EXCEPT !.buried = way]
                                    ELSE Shown(g.slots[i])
  <2>1. g.slots[i] \in SlotType
    BY <1>2
  <2>2. h.slots[i] = IF i \in some THEN [g.slots[i] EXCEPT !.buried = way] ELSE g.slots[i]
    BY <1>2, <1>3
  <2>3. QED BY <1>4, <2>1, <2>2
<1>6. Active(h) = Active(g) /\ \A i \in Active(g) : i \in Slots
  BY <1>1, <1>5, SameActive, ActiveAre
<1>7. Tells(V, g)
  BY GlobalsViewTells
<1>8. ASSUME NEW i \in Active(g) PROVE F[Fold[g.slots[i].name]] = Shown(h.slots[i])
  <2>1. Fold[g.slots[i].name] \in DOMAIN V /\ V[Fold[g.slots[i].name]] = Shown(g.slots[i])
    BY <1>7 DEF Tells
  <2>2. QED BY <1>5, <1>6, <2>1
<1>9. GlobalsView(h) = F
  <2>1. F = [n \in DOMAIN F |-> F[n]] /\ DOMAIN F = DOMAIN V
    OBVIOUS
  <2> HIDE DEF F
  <2>2. DOMAIN F = DOMAIN GlobalsView(g) /\ \A i \in Active(g) : h.slots[i].name = g.slots[i].name
    BY <1>5, <1>6, <2>1
  <2>3. QED BY <1>1, <1>6, <1>8, <2>1, <2>2, RefilledView
<1>10. QED BY <1>9 DEF h, F, Laid

\* Erasing some of the slots is erasing the names of those slots.
LEMMA EraseGlobalsView ==
  ASSUME NEW g, Shaped(g), NEW gone, NEW names,
         \A i \in Active(g) : i \in gone <=> Fold[g.slots[i].name] \in names
  PROVE  GlobalsView(EraseGlobals(g, gone)) = InScopes!Without(GlobalsView(g), names)
<1> DEFINE new == [i \in DOMAIN g.slots |-> IF i \in gone
                     THEN [g.slots[i] EXCEPT !.active = FALSE, !.thing = NoThing]
                     ELSE g.slots[i]]
           h == EraseGlobals(g, gone)
           F == InScopes!Without(GlobalsView(g), names)
<1>1. Shaped(h)
  BY EraseGlobalsIs
<1>2. g.slots \in [Slots -> SlotType] /\ g = [slots |-> g.slots, count |-> g.count, hash |-> g.hash]
  BY DEF Shaped
<1>3. h.slots = new
  BY <1>2 DEF EraseGlobals, Rebuilt
<1> HIDE DEF h
<1>4. \A s \in SlotType : [s EXCEPT !.active = FALSE, !.thing = NoThing].active = FALSE
  BY DEF SlotType
<1>5. ASSUME NEW i \in Slots
      PROVE  IF i \in gone THEN h.slots[i].active = FALSE ELSE h.slots[i] = g.slots[i]
  <2>1. g.slots[i] \in SlotType
    BY <1>2
  <2>2. QED BY <1>2, <1>3, <1>4, <2>1
<1>6. \A i \in Slots : i \in Active(h) <=> i \in Active(g) /\ i \notin gone
  <2>1. \A i \in Slots : (i \in Active(h) <=> h.slots[i].active) /\ (i \in Active(g) <=> g.slots[i].active)
    BY <1>1, ActiveAre
  <2>2. QED BY <1>5, <2>1
<1>7. Active(h) \subseteq Slots /\ Active(g) \subseteq Slots
  BY <1>1, ActiveAre
<1>8. Tells(GlobalsView(g), g)
  BY GlobalsViewTells
<1>9. /\ F = [n \in DOMAIN F |-> F[n]]
      /\ \A n : n \in DOMAIN F <=> n \in DOMAIN GlobalsView(g) /\ n \notin names
      /\ \A n \in DOMAIN F : F[n] = GlobalsView(g)[n]
  BY DEF InScopes!Without
<1> HIDE DEF F
<1>10. Tells(F, h)
  <2>1. \A i \in Active(h) : i \in Active(g) /\ h.slots[i] = g.slots[i]
                             /\ Fold[g.slots[i].name] \notin names
    BY <1>5, <1>6, <1>7
  <2>2. \A i \in Active(g) : Fold[g.slots[i].name] \notin names => i \in Active(h)
    BY <1>6, <1>7
  <2>3. QED BY <1>8, <1>9, <2>1, <2>2 DEF Tells
<1>11. QED BY <1>1, <1>10, GlobalsViewIs DEF F, h

\* The name of one slot, of the slots that are not buried, and of those that
\* have a thing.
LEMMA OneName ==
  ASSUME NEW g, Shaped(g), Indexed(g), NEW w \in Words
  PROVE  \A i \in Active(g) : i \in {find_global(g, w)} <=> Fold[g.slots[i].name] \in {Fold[w]}
  BY GlobalFound

LEMMA SomeNames ==
  ASSUME NEW g, Shaped(g), NEW V, V = GlobalsView(g)
  PROVE  /\ \A i \in Active(g) : i \in {k \in Active(g) : ~g.slots[k].buried}
                <=> Fold[g.slots[i].name] \in {n \in DOMAIN V : ~V[n].buried}
         /\ \A i \in Active(g) : i \in Valued(g)
                <=> Fold[g.slots[i].name] \in {n \in DOMAIN V : V[n].thing # NoThing}
         /\ \A i \in Active(g) : i \in Active(g) <=> Fold[g.slots[i].name] \in DOMAIN V
<1>1. Tells(V, g)
  BY GlobalsViewTells
<1>2. ASSUME NEW i \in Active(g)
      PROVE  /\ Fold[g.slots[i].name] \in DOMAIN V
             /\ V[Fold[g.slots[i].name]].thing = g.slots[i].thing
             /\ V[Fold[g.slots[i].name]].buried = g.slots[i].buried
             /\ g.slots[i].buried \in BOOLEAN
  <2>1. g.slots[i] \in SlotType
    BY ActiveAre DEF Shaped
  <2>2. Fold[g.slots[i].name] \in DOMAIN V /\ V[Fold[g.slots[i].name]] = Shown(g.slots[i])
    BY <1>1 DEF Tells
  <2>3. Shown(g.slots[i]).thing = g.slots[i].thing /\ Shown(g.slots[i]).buried = g.slots[i].buried
    BY DEF Shown
  <2>4. g.slots[i].buried \in BOOLEAN
    BY <2>1 DEF SlotType
  <2>5. QED BY <2>2, <2>3, <2>4
<1>3. QED BY <1>2 DEF Valued

-----------------------------------------------------------------------------
(* Procedures: the table is the dictionary of its named slots.              *)

\* No two slots have the same name, and none is past the count.
Unique(p) ==
  /\ Listed(p)
  /\ \A i \in ProcSlots : p.slots[i].name # NoWord => i <= p.count
  /\ \A i, j \in ProcSlots :
       p.slots[i].name # NoWord /\ p.slots[j].name # NoWord
         /\ Fold[p.slots[i].name] = Fold[p.slots[j].name] => i = j

Meant(slot) == [text |-> slot.text, marks |-> slot.marks]

LEMMA DefinedAre ==
  ASSUME NEW p, Unique(p)
  PROVE  /\ Defined(p) \in SUBSET ProcSlots
         /\ \A i \in ProcSlots : i \in Defined(p) <=> p.slots[i].name # NoWord
         /\ \A i \in Defined(p) : p.slots[i].name \in Words /\ p.slots[i] \in ProcType
<1>1. \A i \in 1 .. p.count : i \in ProcSlots
  BY Sizes DEF Unique, Listed, ProcSlots
<1>2. \A i \in ProcSlots : p.slots[i].name # NoWord => i \in 1 .. p.count
  BY Sizes DEF Unique, Listed, ProcSlots
<1>3. \A i \in ProcSlots : p.slots[i] \in ProcType
  BY DEF Unique, Listed
<1>4. \A i \in ProcSlots : p.slots[i].name # NoWord => p.slots[i].name \in Words
  BY <1>3 DEF ProcType
<1>5. QED BY <1>1, <1>2, <1>3, <1>4 DEF Defined

\* A dictionary has exactly the names of a table's procedures, and says of
\* each what its slot says.
Describes(F, p) ==
  /\ F = [n \in DOMAIN F |-> F[n]]
  /\ \A i \in Defined(p) : /\ Fold[p.slots[i].name] \in DOMAIN F
                           /\ F[Fold[p.slots[i].name]] = Meant(p.slots[i])
  /\ \A n \in DOMAIN F : \E i \in Defined(p) : n = Fold[p.slots[i].name]

LEMMA DefinedViewDescribes ==
  ASSUME NEW p, Unique(p)
  PROVE  Describes(DefinedView(p), p)
<1>1. \A i \in Defined(p) : i \in ProcSlots /\ p.slots[i].name # NoWord
  BY DefinedAre
<1>2. ASSUME NEW i \in Defined(p) PROVE ProcOf(p, Fold[p.slots[i].name]) = i
  <2>1. \A j \in Defined(p) : Fold[p.slots[j].name] = Fold[p.slots[i].name] => j = i
    BY <1>1 DEF Unique
  <2>2. QED BY <2>1 DEF ProcOf
<1>3. QED BY <1>2 DEF DefinedView, Meant, Describes

\* Only one dictionary describes a table.
LEMMA DefinedViewIs ==
  ASSUME NEW p, Unique(p), NEW F, Describes(F, p)
  PROVE  DefinedView(p) = F
<1> DEFINE G == DefinedView(p)
<1>1. Describes(G, p)
  BY DefinedViewDescribes
<1> HIDE DEF G
<1>2. \A n : n \in DOMAIN F <=> n \in DOMAIN G
  BY <1>1 DEF Describes
<1>3. \A n \in DOMAIN F : G[n] = F[n]
  BY <1>1 DEF Describes
<1>4. DOMAIN G = DOMAIN F
  BY <1>2
<1>5. G = F
  BY <1>1, <1>3, <1>4 DEF Describes
<1>6. QED BY <1>5 DEF G

\* What find_procedure says of the dictionary.
LEMMA ProcedureFound ==
  ASSUME NEW p, Unique(p), NEW w \in Words
  PROVE  /\ find_procedure(p, w) = 0 <=> Fold[w] \notin DOMAIN DefinedView(p)
         /\ find_procedure(p, w) # 0 => /\ find_procedure(p, w) \in Defined(p)
                                        /\ Fold[p.slots[find_procedure(p, w)].name] = Fold[w]
                                        /\ p.slots[find_procedure(p, w)].text \in Texts
         /\ \A i \in Defined(p) : i = find_procedure(p, w) <=> Fold[p.slots[i].name] = Fold[w]
<1> DEFINE here == {i \in 1 .. p.count : Same(p.slots[i].name, w)}
           k == find_procedure(p, w)
<1>1. Listed(p) /\ \A i \in 1 .. p.count : i # 0 /\ i \in ProcSlots
  BY Sizes DEF Unique, Listed, ProcSlots
<1>2. \A i \in ProcSlots : i \in Defined(p) => i \in 1 .. p.count
  BY DEF Defined
<1>3. \A i \in 1 .. p.count : Same(p.slots[i].name, w) <=> i \in Defined(p) /\ Fold[p.slots[i].name] = Fold[w]
  BY <1>1, DefinedAre, WorkspaceAssumption DEF Same
<1>4. \A i \in Defined(p) : i \in here <=> Fold[p.slots[i].name] = Fold[w]
  BY <1>2, <1>3, DefinedAre
<1>5. here \in SUBSET Nat /\ (here # {} => First(here) \in here)
  <2>1. here \in SUBSET Nat
    BY <1>1 DEF Listed
  <2>2. QED BY <2>1, FirstIs
<1>6. k = IF here = {} THEN 0 ELSE First(here)
  BY DEF find_procedure
<1> HIDE DEF here, k
<1>7. \A i \in here : i \in Defined(p) /\ Fold[p.slots[i].name] = Fold[w] /\ i # 0
  BY <1>1, <1>3 DEF here
<1>8. k = 0 <=> here = {}
  BY <1>5, <1>6, <1>7
<1>9. k # 0 => k \in Defined(p) /\ Fold[p.slots[k].name] = Fold[w] /\ p.slots[k].text \in Texts
  BY <1>1, <1>5, <1>6, <1>7, <1>8, DefinedAre DEF Listed
<1>10. Describes(DefinedView(p), p)
  BY DefinedViewDescribes
<1>11. here = {} <=> Fold[w] \notin DOMAIN DefinedView(p)
  BY <1>4, <1>7, <1>10 DEF Describes
<1>12. ASSUME NEW i \in Defined(p) PROVE i = k <=> Fold[p.slots[i].name] = Fold[w]
  <2>1. i # 0 /\ i \in ProcSlots /\ p.slots[i].name # NoWord
    BY <1>1, DefinedAre DEF ProcSlots
  <2>2. ASSUME Fold[p.slots[i].name] = Fold[w] PROVE i = k
    <3>1. k # 0
      BY <1>4, <1>8, <2>2
    <3>2. k \in ProcSlots /\ p.slots[k].name # NoWord
      BY <1>9, <3>1, DefinedAre
    <3>3. QED BY <1>9, <2>1, <2>2, <3>1, <3>2 DEF Unique
  <2>3. QED BY <1>9, <2>1, <2>2
<1>13. QED BY <1>8, <1>9, <1>11, <1>12 DEF k

\* Marking some of the slots is marking the names of those slots.
Worn(V, names, mark, on) ==
  [n \in DOMAIN V |-> IF n \notin names THEN V[n]
                      ELSE [V[n] EXCEPT !.marks = IF on THEN @ \cup {mark} ELSE @ \ {mark}]]

LEMMA MarkProcsView ==
  ASSUME NEW p, Unique(p), NEW some, NEW mark \in Marks, NEW on \in BOOLEAN, NEW names,
         \A i \in Defined(p) : i \in some <=> Fold[p.slots[i].name] \in names
  PROVE  /\ Unique(MarkProcs(p, some, mark, on))
         /\ DefinedView(MarkProcs(p, some, mark, on)) = Worn(DefinedView(p), names, mark, on)
<1> DEFINE V == DefinedView(p)
           q == MarkProcs(p, some, mark, on)
           F == [n \in DOMAIN V |->
                   IF n \notin names THEN V[n]
                   ELSE [V[n] EXCEPT !.marks = IF on THEN @ \cup {mark} ELSE @ \ {mark}]]
<1>1. Listed(p) /\ p.slots \in [ProcSlots -> ProcType] /\ p = [slots |-> p.slots, count |-> p.count]
  BY DEF Unique, Listed
<1>2. Listed(q)
  BY <1>1, MarkProcsIs
<1>3. q.count = p.count
      /\ q.slots = [i \in DOMAIN p.slots |-> IF i \in some THEN Marked(p.slots[i], mark, on)
                                             ELSE p.slots[i]]
  BY <1>1 DEF MarkProcs
<1> HIDE DEF q
<1>4. ASSUME NEW s \in ProcType
      PROVE  /\ Marked(s, mark, on).name = s.name
             /\ Meant(Marked(s, mark, on))
                  = [Meant(s) EXCEPT !.marks = IF on THEN @ \cup {mark} ELSE @ \ {mark}]
  <2>1. PICK worn : worn = IF on THEN s.marks \cup {mark} ELSE s.marks \ {mark}
    OBVIOUS
  <2>2. Marked(s, mark, on) = [s EXCEPT !.marks = worn]
    BY <2>1 DEF Marked
  <2>3. [Meant(s) EXCEPT !.marks = IF on THEN @ \cup {mark} ELSE @ \ {mark}] = [Meant(s) EXCEPT !.marks = worn]
    BY <2>1 DEF Meant
  <2>4. [s EXCEPT !.marks = worn].name = s.name
        /\ Meant([s EXCEPT !.marks = worn]) = [Meant(s) EXCEPT !.marks = worn]
    BY DEF ProcType, Meant
  <2>5. QED BY <2>2, <2>3, <2>4
<1>5. ASSUME NEW i \in ProcSlots
      PROVE  /\ q.slots[i].name = p.slots[i].name
             /\ i \in some => q.slots[i] = Marked(p.slots[i], mark, on)
             /\ i \notin some => q.slots[i] = p.slots[i]
  <2>1. p.slots[i] \in ProcType /\ DOMAIN p.slots = ProcSlots
    BY <1>1
  <2>2. q.slots[i] = IF i \in some THEN Marked(p.slots[i], mark, on) ELSE p.slots[i]
    BY <1>3, <2>1
  <2>3. QED BY <1>4, <2>1, <2>2
<1>6. Unique(q)
  BY <1>2, <1>3, <1>5 DEF Unique
<1>7. \A i \in ProcSlots : i \in Defined(q) <=> i \in Defined(p)
  BY <1>5, <1>6, DefinedAre
<1>8. Defined(q) \subseteq ProcSlots /\ Defined(p) \subseteq ProcSlots
  BY <1>6, DefinedAre
<1>9. Describes(V, p)
  BY DefinedViewDescribes
<1>10. /\ F = [n \in DOMAIN F |-> F[n]] /\ DOMAIN F = DOMAIN V
       /\ \A n \in DOMAIN V : n \notin names => F[n] = V[n]
       /\ \A n \in DOMAIN V : n \in names =>
            F[n] = [V[n] EXCEPT !.marks = IF on THEN @ \cup {mark} ELSE @ \ {mark}]
  OBVIOUS
<1> HIDE DEF F
<1>11. ASSUME NEW i \in Defined(q)
       PROVE  Fold[q.slots[i].name] \in DOMAIN F /\ F[Fold[q.slots[i].name]] = Meant(q.slots[i])
  <2>1. i \in Defined(p) /\ i \in ProcSlots /\ q.slots[i].name = p.slots[i].name /\ p.slots[i] \in ProcType
    BY <1>5, <1>7, <1>8, DefinedAre
  <2>2. Fold[p.slots[i].name] \in DOMAIN V /\ V[Fold[p.slots[i].name]] = Meant(p.slots[i])
    BY <1>9, <2>1 DEF Describes
  <2>3. CASE i \in some
    <3>1. Meant(q.slots[i]) = [Meant(p.slots[i]) EXCEPT !.marks = IF on THEN @ \cup {mark} ELSE @ \ {mark}]
      BY <1>4, <1>5, <2>1, <2>3
    <3>2. F[Fold[p.slots[i].name]] = [V[Fold[p.slots[i].name]] EXCEPT !.marks = IF on THEN @ \cup {mark} ELSE @ \ {mark}]
      BY <1>10, <2>1, <2>2, <2>3
    <3>3. QED BY <1>10, <2>1, <2>2, <3>1, <3>2
  <2>4. CASE i \notin some
    BY <1>5, <1>10, <2>1, <2>2, <2>4
  <2>5. QED BY <2>3, <2>4
<1>12. \A n \in DOMAIN F : \E i \in Defined(q) : n = Fold[q.slots[i].name]
  <2>1. \A i \in Defined(p) : i \in Defined(q) /\ q.slots[i].name = p.slots[i].name
    BY <1>5, <1>7, <1>8
  <2>2. QED BY <1>9, <1>10, <2>1 DEF Describes
<1>13. DefinedView(q) = F
  BY <1>6, <1>10, <1>11, <1>12, DefinedViewIs DEF Describes
<1>14. QED BY <1>6, <1>13 DEF q, F, Worn

LEMMA EraseProcsView ==
  ASSUME NEW p, Unique(p), NEW gone, NEW names,
         \A i \in Defined(p) : i \in gone <=> Fold[p.slots[i].name] \in names
  PROVE  /\ Unique(EraseProcs(p, gone))
         /\ DefinedView(EraseProcs(p, gone)) = InScopes!Without(DefinedView(p), names)
<1> DEFINE q == EraseProcs(p, gone)
           F == InScopes!Without(DefinedView(p), names)
<1>1. Listed(p) /\ p.slots \in [ProcSlots -> ProcType] /\ p = [slots |-> p.slots, count |-> p.count]
  BY DEF Unique, Listed
<1>2. Listed(q)
  BY <1>1, EraseProcsIs
<1>3. q.count = p.count
      /\ q.slots = [i \in DOMAIN p.slots |-> IF i \in gone THEN [p.slots[i] EXCEPT !.name = NoWord]
                                             ELSE p.slots[i]]
  BY <1>1 DEF EraseProcs
<1> HIDE DEF q
<1>4. \A s \in ProcType : [s EXCEPT !.name = NoWord].name = NoWord
  BY DEF ProcType
<1>5. ASSUME NEW i \in ProcSlots
      PROVE  /\ i \in gone => q.slots[i].name = NoWord
             /\ i \notin gone => q.slots[i] = p.slots[i]
  BY <1>1, <1>3, <1>4
<1>6. Unique(q)
  <2>1. \A i \in ProcSlots : q.slots[i].name # NoWord => q.slots[i].name = p.slots[i].name
    BY <1>5
  <2>2. QED BY <1>2, <1>3, <2>1 DEF Unique
<1>7. \A i \in ProcSlots : i \in Defined(q) <=> i \in Defined(p) /\ i \notin gone
  BY <1>5, <1>6, DefinedAre
<1>8. Defined(q) \subseteq ProcSlots /\ Defined(p) \subseteq ProcSlots
  BY <1>6, DefinedAre
<1>9. Describes(DefinedView(p), p)
  BY DefinedViewDescribes
<1>10. /\ F = [n \in DOMAIN F |-> F[n]]
       /\ \A n : n \in DOMAIN F <=> n \in DOMAIN DefinedView(p) /\ n \notin names
       /\ \A n \in DOMAIN F : F[n] = DefinedView(p)[n]
  BY DEF InScopes!Without
<1> HIDE DEF F
<1>11. Describes(F, q)
  <2>1. \A i \in Defined(q) : /\ i \in Defined(p) /\ q.slots[i] = p.slots[i]
                              /\ Fold[p.slots[i].name] \notin names
    BY <1>5, <1>7, <1>8
  <2>2. \A i \in Defined(p) : Fold[p.slots[i].name] \notin names => i \in Defined(q)
    BY <1>7, <1>8
  <2>3. QED BY <1>9, <1>10, <2>1, <2>2 DEF Describes
<1>12. QED BY <1>6, <1>11, DefinedViewIs DEF F, q

LEMMA proc_defineView ==
  ASSUME NEW p, Unique(p), NEW w \in Words, NEW text \in Texts, NEW V, V = DefinedView(p)
  PROVE  /\ Unique(proc_define(p, w, text))
         /\ \/ DefinedView(proc_define(p, w, text)) = V
            \/ DefinedView(proc_define(p, w, text))
                 = InScopes!With(V, Fold[w], [text  |-> text,
                     marks |-> IF Fold[w] \in DOMAIN V THEN V[Fold[w]].marks ELSE {}])
<1> DEFINE q == proc_define(p, w, text)
           i == find_procedure(p, w)
           free == {j \in 1 .. MAX_PROCEDURES : p.slots[j].name = NoWord}
           k == First(free)
<1>1. Listed(p) /\ p.slots \in [ProcSlots -> ProcType] /\ p = [slots |-> p.slots, count |-> p.count]
  BY DEF Unique, Listed
<1>2. Listed(q)
  BY <1>1, proc_defineIs
<1>3. Describes(V, p)
  BY DefinedViewDescribes
<1>4. PICK worn : worn = IF Fold[w] \in DOMAIN V THEN V[Fold[w]].marks ELSE {}
  OBVIOUS
<1> DEFINE F == InScopes!With(V, Fold[w], [text |-> text, marks |-> worn])
<1>5. /\ F = [n \in DOMAIN F |-> F[n]] /\ DOMAIN F = DOMAIN V \cup {Fold[w]}
      /\ F[Fold[w]] = [text |-> text, marks |-> worn]
      /\ \A n \in DOMAIN V : n # Fold[w] => F[n] = V[n]
  BY DEF InScopes!With
<1> HIDE DEF F
<1>6. SUFFICES Unique(q) /\ (DefinedView(q) = V \/ DefinedView(q) = F)
  BY <1>4 DEF F
<1>7. CASE i = 0 /\ free = {}
  BY <1>7 DEF proc_define
\* A slot is filled with the new text, under the word it has or this one.
<1>8. ASSUME NEW m \in ProcSlots, NEW name \in Words, Fold[name] = Fold[w],
             q.slots = [p.slots EXCEPT ![m] = [name |-> name, text |-> text, marks |-> worn]],
             p.count <= q.count, m <= q.count,
             \A j \in Defined(p) : j = m <=> Fold[p.slots[j].name] = Fold[w]
      PROVE  Unique(q) /\ (DefinedView(q) = V \/ DefinedView(q) = F)
  <2> DEFINE new == [name |-> name, text |-> text, marks |-> worn]
  <2>1. q.slots[m] = new /\ \A j \in ProcSlots : j # m => q.slots[j] = p.slots[j]
    BY <1>1, <1>8
  <2>2. new.name = name /\ Meant(new) = [text |-> text, marks |-> worn] /\ name # NoWord
    BY WorkspaceAssumption DEF Meant
  <2> HIDE DEF q, i, free, k, new
  <2>3. \A j \in ProcSlots : j \in Defined(p) <=> p.slots[j].name # NoWord
    BY DefinedAre
  <2>4. Unique(q)
    <3>1. ASSUME NEW j \in ProcSlots, q.slots[j].name # NoWord PROVE j <= q.count
      <4>1. CASE j = m
        BY <1>8, <4>1
      <4>2. CASE j # m
        <5>1. j <= p.count
          BY <2>1, <3>1, <4>2 DEF Unique
        <5>2. j \in Nat /\ p.count \in Nat /\ q.count \in Nat
          BY <1>1, <1>2, Sizes DEF Listed, ProcSlots
        <5>3. QED BY <1>8, <5>1, <5>2
      <4>3. QED BY <4>1, <4>2
    <3>2. ASSUME NEW j \in ProcSlots, NEW l \in ProcSlots, q.slots[j].name # NoWord,
                 q.slots[l].name # NoWord, Fold[q.slots[j].name] = Fold[q.slots[l].name]
          PROVE  j = l
      <4>1. CASE j # m /\ l # m
        BY <2>1, <3>2, <4>1 DEF Unique
      <4>2. CASE j = m /\ l # m
        BY <1>8, <2>1, <2>2, <2>3, <3>2, <4>2
      <4>3. CASE j # m /\ l = m
        BY <1>8, <2>1, <2>2, <2>3, <3>2, <4>3
      <4>4. QED BY <4>1, <4>2, <4>3
    <3>3. QED BY <1>2, <3>1, <3>2 DEF Unique
  <2>5. \A j \in ProcSlots : j \in Defined(q) <=> j = m \/ j \in Defined(p)
    <3>1. \A j \in ProcSlots : j \in Defined(q) <=> q.slots[j].name # NoWord
      BY <2>4, DefinedAre
    <3>2. QED BY <2>1, <2>2, <2>3, <3>1
  <2>6. Defined(q) \subseteq ProcSlots /\ Defined(p) \subseteq ProcSlots
    BY <2>4, DefinedAre
  <2>7. ASSUME NEW j \in Defined(q)
        PROVE  Fold[q.slots[j].name] \in DOMAIN F /\ F[Fold[q.slots[j].name]] = Meant(q.slots[j])
    <3>1. CASE j = m
      BY <1>5, <1>8, <2>1, <2>2, <3>1
    <3>2. CASE j # m
      BY <1>3, <1>5, <1>8, <2>1, <2>5, <2>6, <3>2 DEF Describes
    <3>3. QED BY <3>1, <3>2
  <2>8. ASSUME NEW n \in DOMAIN F PROVE \E j \in Defined(q) : n = Fold[q.slots[j].name]
    <3>1. CASE n = Fold[w]
      BY <1>8, <2>1, <2>2, <2>5, <3>1
    <3>2. CASE n # Fold[w]
      <4>1. PICK j \in Defined(p) : n = Fold[p.slots[j].name]
        BY <1>3, <1>5, <3>2 DEF Describes
      <4>2. QED BY <1>8, <2>1, <2>5, <2>6, <3>2, <4>1
    <3>3. QED BY <3>1, <3>2
  <2>9. DefinedView(q) = F
    BY <1>5, <2>4, <2>7, <2>8, DefinedViewIs DEF Describes
  <2>10. QED BY <2>4, <2>9
<1>9. CASE i # 0
  <2>1. i \in Defined(p) /\ i \in ProcSlots /\ Fold[p.slots[i].name] = Fold[w] /\ Fold[w] \in DOMAIN V
        /\ p.slots[i].name \in Words /\ p.slots[i] \in ProcType
    BY <1>9, ProcedureFound, DefinedAre
  <2>2. q = [p EXCEPT !.slots[i].text = text]
    BY <1>9 DEF proc_define
  <2>3. \A j \in Defined(p) : j = i <=> Fold[p.slots[j].name] = Fold[w]
    BY ProcedureFound
  <2> HIDE DEF q, i
  <2>4. worn = p.slots[i].marks
    <3>1. V[Fold[p.slots[i].name]] = Meant(p.slots[i])
      BY <1>3, <2>1 DEF Describes
    <3>2. Meant(p.slots[i]).marks = p.slots[i].marks
      BY DEF Meant
    <3>3. QED BY <1>4, <2>1, <3>1, <3>2
  <2>5. q.slots = [p.slots EXCEPT ![i] = [@ EXCEPT !.text = text]] /\ q.count = p.count
    BY <1>1, <2>2
  <2>6. [p.slots[i] EXCEPT !.text = text] = [name |-> p.slots[i].name, text |-> text, marks |-> worn]
    BY <2>1, <2>4 DEF ProcType
  <2>7. i <= p.count /\ p.count <= q.count
    <3>1. p.count \in Nat
      BY <1>1, Sizes DEF Listed
    <3>2. i <= p.count
      BY <2>1, DefinedAre DEF Unique
    <3>3. QED BY <2>5, <3>1, <3>2
  <2>8. QED BY <1>8, <2>1, <2>3, <2>5, <2>6, <2>7
<1>10. CASE i = 0 /\ free # {}
  <2>1. k \in ProcSlots /\ p.slots[k].name = NoWord
    <3>1. free \in SUBSET Nat
      BY Sizes
    <3>2. k \in free
      BY <1>10, <3>1, FirstIs
    <3>3. QED BY <3>2 DEF ProcSlots
  <2>2. q.slots = [p.slots EXCEPT ![k] = [name |-> w, text |-> text, marks |-> {}]]
        /\ q.count = IF k > p.count THEN k ELSE p.count
    BY <1>10 DEF proc_define
  <2>3. Fold[w] \notin DOMAIN V /\ worn = {}
    BY <1>4, <1>10, ProcedureFound
  <2>4. \A j \in Defined(p) : j = k <=> Fold[p.slots[j].name] = Fold[w]
    <3>1. \A j \in Defined(p) : j # k /\ Fold[p.slots[j].name] \in DOMAIN V
      BY <1>3, <2>1, DefinedAre DEF Describes
    <3>2. QED BY <2>3, <3>1
  <2> HIDE DEF q, k
  <2>5. p.count <= q.count /\ k <= q.count
    <3>1. p.count \in Nat /\ k \in Nat
      BY <1>1, <2>1, Sizes DEF Listed, ProcSlots
    <3>2. QED BY <2>2, <3>1
  <2>6. QED BY <1>8, <2>1, <2>2, <2>3, <2>4, <2>5
<1>11. QED BY <1>7, <1>9, <1>10

\* The names of one slot and of the slots that are not buried.
LEMMA OneProcedure ==
  ASSUME NEW p, Unique(p), NEW w \in Words
  PROVE  \A i \in Defined(p) : i \in {find_procedure(p, w)} <=> Fold[p.slots[i].name] \in {Fold[w]}
  BY ProcedureFound

LEMMA SomeProcedures ==
  ASSUME NEW p, Unique(p), NEW V, V = DefinedView(p)
  PROVE  /\ \A i \in Defined(p) : i \in Exposed(p)
                <=> Fold[p.slots[i].name] \in {n \in DOMAIN V : "buried" \notin V[n].marks}
         /\ \A i \in Defined(p) : i \in Defined(p) <=> Fold[p.slots[i].name] \in DOMAIN V
<1>1. Describes(V, p)
  BY DefinedViewDescribes
<1>2. ASSUME NEW i \in Defined(p)
      PROVE  Fold[p.slots[i].name] \in DOMAIN V /\ V[Fold[p.slots[i].name]].marks = p.slots[i].marks
  <2>1. Fold[p.slots[i].name] \in DOMAIN V /\ V[Fold[p.slots[i].name]] = Meant(p.slots[i])
    BY <1>1 DEF Describes
  <2>2. Meant(p.slots[i]).marks = p.slots[i].marks
    BY DEF Meant
  <2>3. QED BY <2>1, <2>2
<1>3. QED BY <1>2 DEF Exposed

-----------------------------------------------------------------------------
(* Aliases: the primitives registered after the built-in ones.             *)

PrimsInv ==
  /\ prims \in Seq(Words) /\ Len(Builtins) <= Len(prims)
  /\ \A i \in DOMAIN Builtins : prims[i] = Builtins[i]

\* A word that names no primitive is no name of one.
LEMMA NoPrimitive ==
  ASSUME PrimsInv, NEW w \in Words, primitive_find(w) = 0
  PROVE  Fold[w] \notin {Fold[Builtins[i]] : i \in DOMAIN Builtins} \cup AliasesView(prims)
<1> DEFINE here == {i \in DOMAIN prims : Same(prims[i], w)}
<1>1. DOMAIN prims = 1 .. Len(prims) /\ Len(prims) \in Nat
  BY LenProperties DEF PrimsInv
<1>2. here \in SUBSET Nat /\ \A i \in here : i # 0
  BY <1>1
<1>3. here # {} => First(here) \in here
  BY <1>2, FirstIs
<1>4. here = {}
  BY <1>2, <1>3 DEF primitive_find
<1>5. ASSUME NEW i \in DOMAIN prims PROVE Fold[prims[i]] # Fold[w]
  <2>1. prims[i] \in Words
    BY <1>1, ElementOfSeq DEF PrimsInv
  <2>2. QED BY <1>4, <2>1 DEF Same
<1>6. DOMAIN Builtins \subseteq DOMAIN prims
  <2>1. DOMAIN Builtins = 1 .. Len(Builtins) /\ Len(Builtins) \in Nat
    BY WorkspaceAssumption, LenProperties
  <2>2. Len(Builtins) <= Len(prims)
    BY DEF PrimsInv
  <2>3. QED BY <1>1, <2>1, <2>2
<1>7. QED BY <1>5, <1>6 DEF PrimsInv, AliasesView

LEMMA AliasView ==
  ASSUME PrimsInv, NEW w \in Words, prims' = Append(prims, w)
  PROVE  PrimsInv' /\ AliasesView(prims') = AliasesView(prims) \cup {Fold[w]}
<1>1. PICK n \in Nat : n = Len(prims) /\ DOMAIN prims = 1 .. n
  BY LenProperties DEF PrimsInv
<1>2. PICK b \in Nat : b = Len(Builtins) /\ DOMAIN Builtins = 1 .. b /\ b <= n
  BY <1>1, WorkspaceAssumption, LenProperties DEF PrimsInv
<1>3. /\ prims' \in Seq(Words) /\ Len(prims') = n + 1 /\ prims'[n + 1] = w
      /\ \A i \in 1 .. n : prims'[i] = prims[i]
  BY <1>1, AppendProperties DEF PrimsInv
<1>4. DOMAIN prims' = 1 .. (n + 1)
  BY <1>3, LenProperties
<1>5. PrimsInv'
  BY <1>1, <1>2, <1>3 DEF PrimsInv
<1>6. /\ n + 1 \in DOMAIN prims' \ DOMAIN Builtins
      /\ \A i \in DOMAIN prims' \ DOMAIN Builtins : i = n + 1 \/ (i \in DOMAIN prims \ DOMAIN Builtins /\ i \in 1 .. n)
      /\ \A i \in DOMAIN prims \ DOMAIN Builtins : i \in DOMAIN prims' \ DOMAIN Builtins /\ i \in 1 .. n
  BY <1>1, <1>2, <1>4
<1>7. \A x : x \in AliasesView(prims') <=> x \in AliasesView(prims) \/ x = Fold[w]
  <2>1. \A x : x \in AliasesView(prims) <=> \E i \in DOMAIN prims \ DOMAIN Builtins : x = Fold[prims[i]]
    BY DEF AliasesView
  <2>2. \A x : x \in AliasesView(prims') <=> \E i \in DOMAIN prims' \ DOMAIN Builtins : x = Fold[prims'[i]]
    BY DEF AliasesView
  <2>3. QED BY <1>3, <1>6, <2>1, <2>2
<1>8. QED BY <1>5, <1>7

-----------------------------------------------------------------------------
(* A property list: names at even places, each with its thing after it.    *)

Evens(x) == {i \in DOMAIN x : i % 2 = 0}

EntryOK(x) ==
  /\ x \in Seq(Words \cup Things) /\ Len(x) >= 1 /\ x[1] \in Words
  /\ \A i \in Evens(x) : x[i] \in Words /\ i + 1 \in DOMAIN x
  /\ \A i, j \in Evens(x) : Fold[x[i]] = Fold[x[j]] => i = j

LEMMA EntryPlaces ==
  ASSUME NEW x, EntryOK(x)
  PROVE  /\ DOMAIN x = 1 .. Len(x) /\ Len(x) \in Nat \ {0} /\ Evens(x) \in SUBSET Nat
         /\ Evens(x) = {i \in DOMAIN x : i > 1 /\ i % 2 = 0}
<1>1. DOMAIN x = 1 .. Len(x) /\ Len(x) \in Nat \ {0}
  BY LenProperties DEF EntryOK
<1>2. QED BY <1>1 DEF Evens

\* A dictionary has exactly the properties of an entry.
PairsAre(F, x) ==
  /\ F = [n \in DOMAIN F |-> F[n]]
  /\ \A i \in Evens(x) : Fold[x[i]] \in DOMAIN F /\ F[Fold[x[i]]] = x[i + 1]
  /\ \A n \in DOMAIN F : \E i \in Evens(x) : n = Fold[x[i]]

LEMMA PairsOfAre ==
  ASSUME NEW x, EntryOK(x)
  PROVE  PairsAre(PairsOf(x), x)
<1>1. Evens(x) \in SUBSET Nat /\ Evens(x) = {i \in DOMAIN x : i > 1 /\ i % 2 = 0}
  BY EntryPlaces
<1>2. PairsOf(x) = [p \in {Fold[x[i]] : i \in Evens(x)} |->
                      x[First({i \in DOMAIN x : i > 1 /\ i % 2 = 0 /\ Fold[x[i]] = p}) + 1]]
  <2>1. {j \in DOMAIN x : j > 1 /\ j % 2 = 0} = Evens(x)
    BY <1>1
  <2>2. QED BY <2>1 DEF PairsOf
<1>3. ASSUME NEW i \in Evens(x)
      PROVE  First({j \in DOMAIN x : j > 1 /\ j % 2 = 0 /\ Fold[x[j]] = Fold[x[i]]}) = i
  <2> DEFINE S == {j \in DOMAIN x : j > 1 /\ j % 2 = 0 /\ Fold[x[j]] = Fold[x[i]]}
  <2>1. i \in S /\ \A j \in S : j \in Evens(x) /\ Fold[x[j]] = Fold[x[i]]
    BY <1>1
  <2>2. S \in SUBSET Nat
    BY <1>1, <2>1
  <2> HIDE DEF S
  <2>3. First(S) \in S
    BY <2>1, <2>2, FirstIs
  <2>4. First(S) = i
    BY <2>1, <2>3 DEF EntryOK
  <2>5. QED BY <2>4 DEF S
<1>4. \A i \in Evens(x) : Fold[x[i]] \in DOMAIN PairsOf(x) /\ PairsOf(x)[Fold[x[i]]] = x[i + 1]
  BY <1>2, <1>3
<1>5. PairsOf(x) = [n \in DOMAIN PairsOf(x) |-> PairsOf(x)[n]]
  BY <1>2
<1>6. \A n \in DOMAIN PairsOf(x) : \E i \in Evens(x) : n = Fold[x[i]]
  BY <1>2
<1>7. QED BY <1>4, <1>5, <1>6 DEF PairsAre

\* Only one dictionary has them.
LEMMA PairsOfIs ==
  ASSUME NEW x, EntryOK(x), NEW F, PairsAre(F, x)
  PROVE  PairsOf(x) = F
<1> DEFINE G == PairsOf(x)
<1>1. PairsAre(G, x)
  BY PairsOfAre
<1> HIDE DEF G
<1>2. \A n : n \in DOMAIN F <=> n \in DOMAIN G
  BY <1>1 DEF PairsAre
<1>3. \A n \in DOMAIN F : G[n] = F[n]
  BY <1>1 DEF PairsAre
<1>4. DOMAIN G = DOMAIN F
  BY <1>2
<1>5. G = F
  BY <1>1, <1>3, <1>4 DEF PairsAre
<1>6. QED BY <1>5 DEF G

\* An entry that is no more than its name has no properties.
LEMMA NoPairs ==
  ASSUME NEW x, EntryOK(x)
  PROVE  /\ Len(x) > 1 <=> DOMAIN PairsOf(x) # {}
         /\ ~(Len(x) > 1) => PairsOf(x) = [p \in {} |-> NoThing]
<1>1. PICK n \in Nat \ {0} : n = Len(x) /\ DOMAIN x = 1 .. n
  BY EntryPlaces
<1>2. PairsAre(PairsOf(x), x)
  BY PairsOfAre
<1>3. n > 1 => 2 \in Evens(x)
  BY <1>1 DEF Evens
<1>4. ~(n > 1) => Evens(x) = {}
  BY <1>1 DEF Evens
<1>5. n > 1 <=> DOMAIN PairsOf(x) # {}
  BY <1>2, <1>3, <1>4 DEF PairsAre
<1>6. ASSUME ~(n > 1) PROVE PairsOf(x) = [p \in {} |-> NoThing]
  <2>1. DOMAIN PairsOf(x) = {}
    BY <1>5, <1>6
  <2>2. PairsOf(x) = [p \in {} |-> PairsOf(x)[p]]
    BY <1>2, <2>1 DEF PairsAre
  <2>3. QED BY <2>2
<1>7. QED BY <1>1, <1>5, <1>6

\* What a search for a property finds.
LEMMA CellIs ==
  ASSUME NEW x, EntryOK(x), NEW p \in Words
  PROVE  /\ Cell(x, p) = 0 <=> Fold[p] \notin DOMAIN PairsOf(x)
         /\ Cell(x, p) # 0 => Cell(x, p) \in Evens(x) /\ Fold[x[Cell(x, p)]] = Fold[p]
<1> DEFINE here == {i \in DOMAIN x : i % 2 = 0 /\ Same(x[i], p)}
<1>1. \A i \in Evens(x) : i # 0 /\ i \in DOMAIN x /\ i % 2 = 0 /\ x[i] \in Words
  BY EntryPlaces DEF Evens, EntryOK
<1>2. \A i : i \in here <=> i \in Evens(x) /\ Fold[x[i]] = Fold[p]
  BY <1>1 DEF Evens, Same
<1>3. here \in SUBSET Nat
  BY <1>2, EntryPlaces
<1>4. here # {} => First(here) \in here
  BY <1>3, FirstIs
<1>5. Cell(x, p) = IF here = {} THEN 0 ELSE First(here)
  BY DEF Cell
<1> HIDE DEF here
<1>6. PairsAre(PairsOf(x), x)
  BY PairsOfAre
<1>7. here = {} <=> Fold[p] \notin DOMAIN PairsOf(x)
  BY <1>2, <1>6 DEF PairsAre
<1>8. QED BY <1>1, <1>2, <1>4, <1>5, <1>7

\* A new thing for a property an entry has.
Renewed(x, c, v) == [x EXCEPT ![c + 1] = v]

LEMMA PutOldView ==
  ASSUME NEW x, EntryOK(x), NEW p \in Words, NEW v \in Things, Cell(x, p) # 0,
         NEW y, y = Renewed(x, Cell(x, p), v)
  PROVE  EntryOK(y) /\ y[1] = x[1] /\ PairsOf(y) = InScopes!With(PairsOf(x), Fold[p], v)
<1> DEFINE F == InScopes!With(PairsOf(x), Fold[p], v)
<1>1. PICK n \in Nat \ {0} : n = Len(x) /\ DOMAIN x = 1 .. n
  BY EntryPlaces
<1>2. PICK c \in 1 .. n : /\ c = Cell(x, p) /\ c \in Evens(x) /\ Fold[x[c]] = Fold[p]
                          /\ c + 1 \in 1 .. n /\ c % 2 = 0
  BY <1>1, CellIs DEF Evens, EntryOK
<1>3. x \in Seq(Words \cup Things)
  BY DEF EntryOK
<1>4. /\ y \in Seq(Words \cup Things) /\ Len(y) = n
      /\ \A i \in 1 .. n : y[i] = IF i = c + 1 THEN v ELSE x[i]
  <2>1. y = [x EXCEPT ![c + 1] = v]
    BY <1>2 DEF Renewed
  <2>2. QED BY <1>1, <1>2, <1>3, <2>1, ExceptSeq
<1>5. DOMAIN y = 1 .. n
  BY <1>4, LenProperties
<1>6. \A i \in 1 .. n : i % 2 = 0 => i # c + 1
  BY <1>2
<1>7. Evens(y) = Evens(x) /\ \A i \in Evens(x) : y[i] = x[i] /\ i \in 1 .. n
  BY <1>1, <1>4, <1>5, <1>6 DEF Evens
<1>8. y[1] = x[1]
  BY <1>2, <1>4
<1>9. EntryOK(y)
  <2>1. y \in Seq(Words \cup Things) /\ Len(y) >= 1 /\ y[1] \in Words
    BY <1>1, <1>4, <1>8 DEF EntryOK
  <2>2. \A i \in Evens(x) : x[i] \in Words /\ i + 1 \in 1 .. n
    BY <1>1 DEF EntryOK
  <2>3. \A i \in Evens(y) : y[i] \in Words /\ i + 1 \in DOMAIN y
    BY <1>5, <1>7, <2>2
  <2>4. \A i, j \in Evens(y) : Fold[y[i]] = Fold[y[j]] => i = j
    BY <1>7 DEF EntryOK
  <2>5. QED BY <2>1, <2>3, <2>4 DEF EntryOK
<1>10. PairsAre(PairsOf(x), x)
  BY PairsOfAre
<1>11. /\ F = [k \in DOMAIN F |-> F[k]] /\ DOMAIN F = DOMAIN PairsOf(x) \cup {Fold[p]}
       /\ F[Fold[p]] = v /\ \A k \in DOMAIN PairsOf(x) : k # Fold[p] => F[k] = PairsOf(x)[k]
  BY DEF InScopes!With
<1> HIDE DEF F
<1>12. ASSUME NEW i \in Evens(y) PROVE Fold[y[i]] \in DOMAIN F /\ F[Fold[y[i]]] = y[i + 1]
  <2>1. i \in Evens(x) /\ y[i] = x[i] /\ i + 1 \in 1 .. n /\ i \in Nat
    BY <1>1, <1>7 DEF EntryOK
  <2>2. CASE i = c
    BY <1>2, <1>4, <1>11, <2>1, <2>2
  <2>3. CASE i # c
    <3>1. Fold[x[i]] # Fold[p]
      BY <1>2, <2>1, <2>3 DEF EntryOK
    <3>2. y[i + 1] = x[i + 1]
      BY <1>2, <1>4, <2>1, <2>3
    <3>3. QED BY <1>10, <1>11, <2>1, <3>1, <3>2 DEF PairsAre
  <2>4. QED BY <2>2, <2>3
<1>13. \A k \in DOMAIN F : \E i \in Evens(y) : k = Fold[y[i]]
  BY <1>2, <1>7, <1>10, <1>11 DEF PairsAre
<1>14. PairsAre(F, y)
  BY <1>11, <1>12, <1>13 DEF PairsAre
<1>15. PairsOf(y) = F
  BY <1>9, <1>14, PairsOfIs
<1>16. QED BY <1>8, <1>9, <1>15 DEF F

\* A property an entry does not have goes before those it has.
Fronted(x, p, v) == <<x[1], p, v>> \o Tail(x)

LEMMA PutNewView ==
  ASSUME NEW x, EntryOK(x), NEW p \in Words, NEW v \in Things, Cell(x, p) = 0,
         NEW y, y = Fronted(x, p, v)
  PROVE  EntryOK(y) /\ y[1] = x[1] /\ PairsOf(y) = InScopes!With(PairsOf(x), Fold[p], v)
<1> DEFINE F == InScopes!With(PairsOf(x), Fold[p], v)
<1>1. PICK n \in Nat \ {0} : n = Len(x) /\ DOMAIN x = 1 .. n
  BY EntryPlaces
<1>2. x \in Seq(Words \cup Things) /\ x # << >> /\ x[1] \in Words
  BY <1>1 DEF EntryOK
<1>3. Tail(x) \in Seq(Words \cup Things) /\ Len(Tail(x)) = n - 1 /\ \A i \in 1 .. n - 1 : Tail(x)[i] = x[i + 1]
  BY <1>1, <1>2, HeadTailProperties
<1>4. /\ y \in Seq(Words \cup Things) /\ Len(y) = n + 2 /\ y[1] = x[1] /\ y[2] = p /\ y[3] = v
      /\ \A i \in 4 .. n + 2 : y[i] = x[i - 2]
  <2> DEFINE t == <<x[1], p, v>>
  <2>1. t \in Seq(Words \cup Things) /\ Len(t) = 3 /\ t[1] = x[1] /\ t[2] = p /\ t[3] = v
    BY <1>2
  <2>2. y = t \o Tail(x)
    BY DEF Fronted
  <2> HIDE DEF t
  <2>3. /\ y \in Seq(Words \cup Things) /\ Len(y) = 3 + (n - 1)
        /\ \A i \in 1 .. 3 + (n - 1) : y[i] = IF i <= 3 THEN t[i] ELSE Tail(x)[i - 3]
    <3>1. /\ t \o Tail(x) \in Seq(Words \cup Things)
          /\ Len(t \o Tail(x)) = Len(t) + Len(Tail(x))
          /\ \A i \in 1 .. Len(t) + Len(Tail(x)) :
               (t \o Tail(x))[i] = IF i <= Len(t) THEN t[i] ELSE Tail(x)[i - Len(t)]
      BY <1>3, <2>1, ConcatProperties, ZenonT(40)
    <3>2. QED BY <1>3, <2>1, <2>2, <3>1
  <2>4. \A i \in 4 .. n + 2 : i - 3 \in 1 .. n - 1 /\ (i - 3) + 1 = i - 2 /\ ~(i <= 3) /\ i \in 1 .. 3 + (n - 1)
    BY <1>1
  <2>5. 3 + (n - 1) = n + 2 /\ 1 \in 1 .. n + 2 /\ 2 \in 1 .. n + 2 /\ 3 \in 1 .. n + 2
    BY <1>1
  <2>6. QED BY <1>3, <2>1, <2>3, <2>4, <2>5
<1>5. DOMAIN y = 1 .. n + 2
  BY <1>4, LenProperties
<1>6. ASSUME NEW i \in Evens(y) PROVE i = 2 \/ (i \in 4 .. n + 2 /\ i - 2 \in Evens(x) /\ y[i] = x[i - 2])
  <2>1. i \in 1 .. n + 2 /\ i % 2 = 0
    BY <1>5 DEF Evens
  <2>2. i = 2 \/ (i \in 4 .. n + 2 /\ i - 2 \in 1 .. n /\ (i - 2) % 2 = 0)
    BY <1>1, <2>1
  <2>3. QED BY <1>1, <1>4, <2>2 DEF Evens
<1>7. ASSUME NEW i \in Evens(x) PROVE i \in Nat /\ i + 2 \in Evens(y) /\ y[i + 2] = x[i]
  <2>1. i \in 1 .. n /\ i % 2 = 0
    BY <1>1 DEF Evens
  <2>2. i + 2 \in 4 .. n + 2 /\ i + 2 \in 1 .. n + 2 /\ (i + 2) % 2 = 0 /\ (i + 2) - 2 = i
    BY <1>1, <2>1
  <2>3. y[i + 2] = x[i]
    BY <1>4, <2>2
  <2>4. QED BY <1>5, <2>1, <2>2, <2>3 DEF Evens
<1>8. 2 \in Evens(y)
  BY <1>1, <1>5 DEF Evens
<1>9. \A i \in Evens(x) : Fold[x[i]] # Fold[p]
  <2>1. PairsAre(PairsOf(x), x) /\ Fold[p] \notin DOMAIN PairsOf(x)
    BY PairsOfAre, CellIs
  <2>2. QED BY <2>1 DEF PairsAre
<1>10. EntryOK(y)
  <2>1. ASSUME NEW i \in Evens(y) PROVE y[i] \in Words /\ i + 1 \in DOMAIN y
    <3>1. CASE i = 2
      BY <1>1, <1>4, <1>5, <3>1
    <3>2. CASE i # 2
      <4>1. i \in 4 .. n + 2 /\ i - 2 \in Evens(x) /\ y[i] = x[i - 2]
        BY <1>6, <3>2
      <4>2. x[i - 2] \in Words /\ (i - 2) + 1 \in 1 .. n
        BY <1>1, <4>1 DEF EntryOK
      <4>3. QED BY <1>1, <1>5, <4>1, <4>2
    <3>3. QED BY <3>1, <3>2
  <2>2. ASSUME NEW i \in Evens(y), NEW j \in Evens(y), Fold[y[i]] = Fold[y[j]] PROVE i = j
    <3>1. CASE i = 2 \/ j = 2
      <4>1. \A k \in Evens(y) : k # 2 => Fold[y[k]] # Fold[p]
        BY <1>6, <1>9
      <4>2. Fold[y[2]] = Fold[p]
        BY <1>4
      <4>3. QED BY <2>2, <3>1, <4>1, <4>2
    <3>2. CASE i # 2 /\ j # 2
      <4>1. i \in 4 .. n + 2 /\ j \in 4 .. n + 2 /\ i - 2 \in Evens(x) /\ j - 2 \in Evens(x)
            /\ Fold[x[i - 2]] = Fold[x[j - 2]]
        BY <1>6, <2>2, <3>2
      <4>2. i - 2 = j - 2
        BY <4>1 DEF EntryOK
      <4>3. QED BY <4>1, <4>2
    <3>3. QED BY <3>1, <3>2
  <2>3. y \in Seq(Words \cup Things) /\ Len(y) >= 1 /\ y[1] \in Words
    BY <1>1, <1>2, <1>4
  <2>4. QED BY <2>1, <2>2, <2>3 DEF EntryOK
<1>11. PairsAre(PairsOf(x), x)
  BY PairsOfAre
<1>12. /\ F = [k \in DOMAIN F |-> F[k]] /\ DOMAIN F = DOMAIN PairsOf(x) \cup {Fold[p]}
       /\ F[Fold[p]] = v /\ \A k \in DOMAIN PairsOf(x) : k # Fold[p] => F[k] = PairsOf(x)[k]
  BY DEF InScopes!With
<1> HIDE DEF F
<1>13. ASSUME NEW i \in Evens(y) PROVE Fold[y[i]] \in DOMAIN F /\ F[Fold[y[i]]] = y[i + 1]
  <2>1. CASE i = 2
    <3>1. y[2] = p /\ y[2 + 1] = v
      BY <1>4
    <3>2. QED BY <1>12, <2>1, <3>1
  <2>2. CASE i # 2
    <3>1. i \in 4 .. n + 2 /\ i - 2 \in Evens(x) /\ y[i] = x[i - 2]
      BY <1>6, <2>2
    <3>2. (i - 2) + 1 \in 1 .. n
      BY <1>1, <3>1 DEF EntryOK
    <3>3. i + 1 \in 4 .. n + 2 /\ (i + 1) - 2 = (i - 2) + 1
      BY <1>1, <3>1, <3>2
    <3>4. y[i + 1] = x[(i - 2) + 1]
      BY <1>4, <3>3
    <3>5. /\ Fold[x[i - 2]] \in DOMAIN PairsOf(x) /\ PairsOf(x)[Fold[x[i - 2]]] = x[(i - 2) + 1]
          /\ Fold[x[i - 2]] # Fold[p]
      BY <1>9, <1>11, <3>1 DEF PairsAre
    <3>6. QED BY <1>12, <3>1, <3>4, <3>5
  <2>3. QED BY <2>1, <2>2
<1>14. ASSUME NEW k \in DOMAIN F PROVE \E i \in Evens(y) : k = Fold[y[i]]
  <2>1. CASE k = Fold[p]
    BY <1>4, <1>8, <2>1
  <2>2. CASE k # Fold[p]
    <3>1. PICK i \in Evens(x) : k = Fold[x[i]]
      BY <1>11, <1>12, <2>2 DEF PairsAre
    <3>2. i + 2 \in Evens(y) /\ y[i + 2] = x[i]
      BY <1>7
    <3>3. QED BY <3>1, <3>2
  <2>3. QED BY <2>1, <2>2
<1>15. PairsAre(F, y)
  BY <1>12, <1>13, <1>14 DEF PairsAre
<1>16. PairsOf(y) = F
  BY <1>10, <1>15, PairsOfIs
<1>17. QED BY <1>4, <1>10, <1>16 DEF F

\* Every other place is even.
LEMMA Parity ==
  ASSUME NEW i \in Nat, i % 2 = 0
  PROVE  /\ (i + 2) % 2 = 0 /\ (i >= 2 => (i - 2) % 2 = 0)
         /\ \A c \in Nat : c % 2 = 0 => (i < c => i + 1 < c) /\ (c < i => c + 1 < i)
  OBVIOUS

\* Removing a property takes its name and its thing out.
CutOut(x, c) == SubSeq(x, 1, c - 1) \o SubSeq(x, c + 2, Len(x))

LEMMA RemoveView ==
  ASSUME NEW x, EntryOK(x), NEW p \in Words, NEW c, c = Cell(x, p), c # 0,
         NEW y, y = CutOut(x, c)
  PROVE  EntryOK(y) /\ y[1] = x[1] /\ PairsOf(y) = InScopes!Without(PairsOf(x), {Fold[p]})
<1> DEFINE F == InScopes!Without(PairsOf(x), {Fold[p]})
<1>1. PICK n \in Nat \ {0} : n = Len(x) /\ DOMAIN x = 1 .. n
  BY EntryPlaces
<1>2. /\ c \in 2 .. n /\ c \in Evens(x) /\ Fold[x[c]] = Fold[p] /\ c + 1 \in 1 .. n /\ c % 2 = 0
  <2>1. c \in Evens(x) /\ Fold[x[c]] = Fold[p]
    BY CellIs
  <2>2. c \in 1 .. n /\ c % 2 = 0 /\ c + 1 \in 1 .. n
    BY <1>1, <2>1 DEF Evens, EntryOK
  <2>3. QED BY <1>1, <2>1, <2>2
<1>n. n \in Nat /\ c \in Nat /\ 2 <= c /\ c + 1 <= n /\ c % 2 = 0
  BY <1>1, <1>2
<1>3. x \in Seq(Words \cup Things) /\ \A i \in 1 .. n : x[i] \in Words \cup Things
  <2>1. x \in Seq(Words \cup Things)
    BY DEF EntryOK
  <2>2. QED BY <1>1, <2>1, ElementOfSeq
<1>4. /\ y \in Seq(Words \cup Things) /\ Len(y) = n - 2
      /\ \A i \in 1 .. n - 2 : y[i] = IF i < c THEN x[i] ELSE x[i + 2]
  <2> DEFINE a == SubSeq(x, 1, c - 1)
             b == SubSeq(x, c + 2, n)
  <2>1. /\ a \in Seq(Words \cup Things) /\ Len(a) = c - 1
        /\ \A i \in 1 .. c - 1 : a[i] = x[i]
    <3>1. \A i \in 1 .. c - 1 : x[i] \in Words \cup Things
      BY <1>1, <1>2, <1>3
    <3>2. 1 \in Int /\ c - 1 \in Int /\ 1 <= c - 1 /\ (c - 1) - 1 + 1 = c - 1
          /\ \A i \in 1 .. c - 1 : 1 + i - 1 = i
      BY <1>1, <1>2
    <3>3. /\ SubSeq(x, 1, c - 1) \in Seq(Words \cup Things)
          /\ Len(SubSeq(x, 1, c - 1)) = IF 1 <= c - 1 THEN (c - 1) - 1 + 1 ELSE 0
          /\ \A i \in 1 .. (c - 1) - 1 + 1 : SubSeq(x, 1, c - 1)[i] = x[1 + i - 1]
      BY <3>1, <3>2, SubSeqProperties
    <3>4. QED BY <3>2, <3>3
  <2>2. /\ b \in Seq(Words \cup Things) /\ Len(b) = n - (c + 1)
        /\ \A i \in 1 .. n - (c + 1) : b[i] = x[i + c + 1]
    <3>1. \A i \in c + 2 .. n : x[i] \in Words \cup Things
      BY <1>1, <1>2, <1>3
    <3>2. c + 2 \in Int /\ n \in Int /\ n - (c + 2) + 1 = n - (c + 1)
          /\ (IF c + 2 <= n THEN n - (c + 2) + 1 ELSE 0) = n - (c + 1)
          /\ \A i \in 1 .. n - (c + 1) : (c + 2) + i - 1 = i + c + 1
      BY <1>1, <1>2
    <3>3. /\ SubSeq(x, c + 2, n) \in Seq(Words \cup Things)
          /\ Len(SubSeq(x, c + 2, n)) = IF c + 2 <= n THEN n - (c + 2) + 1 ELSE 0
          /\ \A i \in 1 .. n - (c + 2) + 1 : SubSeq(x, c + 2, n)[i] = x[(c + 2) + i - 1]
      BY <3>1, <3>2, SubSeqProperties
    <3>4. QED BY <3>2, <3>3
  <2>3. y = a \o b
    BY <1>1 DEF CutOut
  <2> HIDE DEF a, b
  <2>4. /\ y \in Seq(Words \cup Things) /\ Len(y) = Len(a) + Len(b)
        /\ \A i \in 1 .. Len(a) + Len(b) : y[i] = IF i <= Len(a) THEN a[i] ELSE b[i - Len(a)]
    <3>1. a \in Seq(Words \cup Things) /\ b \in Seq(Words \cup Things)
      BY <2>1, <2>2
    <3>2. /\ a \o b \in Seq(Words \cup Things) /\ Len(a \o b) = Len(a) + Len(b)
          /\ \A i \in 1 .. Len(a) + Len(b) : (a \o b)[i] = IF i <= Len(a) THEN a[i] ELSE b[i - Len(a)]
      BY <3>1, ConcatProperties, Zenon
    <3>3. QED BY <2>3, <3>2
  <2>5. Len(a) + Len(b) = n - 2
    <3>1. (c - 1) + (n - (c + 1)) = n - 2
      BY <1>n
    <3>2. QED BY <2>1, <2>2, <3>1
  <2>6. ASSUME NEW i \in 1 .. n - 2 PROVE y[i] = IF i < c THEN x[i] ELSE x[i + 2]
    <3>1. y[i] = IF i <= c - 1 THEN a[i] ELSE b[i - (c - 1)]
      BY <2>1, <2>4, <2>5
    <3>2. CASE i < c
      <4>1. i <= c - 1 /\ i \in 1 .. c - 1
        BY <1>1, <1>2, <3>2
      <4>2. QED BY <2>1, <3>1, <3>2, <4>1
    <3>3. CASE ~(i < c)
      <4>0. i \in Int /\ c \in Int /\ n \in Int /\ i >= c /\ i <= n - 2
        BY <1>1, <1>2, <3>3
      <4>1. ~(i <= c - 1) /\ i - (c - 1) \in 1 .. n - (c + 1) /\ i - (c - 1) + c + 1 = i + 2
        BY <4>0
      <4>2. b[i - (c - 1)] = x[i + 2]
        BY <2>2, <4>1
      <4>3. QED BY <3>1, <3>3, <4>1, <4>2
    <3>4. QED BY <3>2, <3>3
  <2>7. QED BY <2>4, <2>5, <2>6
<1>5. DOMAIN y = 1 .. n - 2
  BY <1>1, <1>2, <1>4, LenProperties
\* Where each property of the new entry was.
<1> DEFINE was(i) == IF i < c THEN i ELSE i + 2
<1>6. ASSUME NEW i \in Evens(y)
      PROVE  /\ was(i) \in Evens(x) /\ was(i) # c /\ y[i] = x[was(i)]
             /\ i + 1 \in 1 .. n - 2 /\ y[i + 1] = x[was(i) + 1]
  <2>1. i \in 1 .. n - 2 /\ i % 2 = 0
    BY <1>5 DEF Evens
  <2>2. was(i) \in 1 .. n /\ was(i) % 2 = 0 /\ was(i) # c /\ y[i] = x[was(i)]
    <3>1. y[i] = x[was(i)]
      BY <1>4, <2>1
    <3>2. was(i) \in 1 .. n /\ was(i) # c
      BY <1>1, <1>2, <2>1
    <3>3. was(i) % 2 = 0
      <4>1. i \in Nat /\ i % 2 = 0
        BY <2>1
      <4>2. (i + 2) % 2 = 0
        BY <4>1, Parity
      <4>3. QED BY <4>1, <4>2
    <3>4. QED BY <3>1, <3>2, <3>3
  <2>3. was(i) \in Evens(x)
    BY <1>1, <2>2 DEF Evens
  <2>4. was(i) + 1 \in 1 .. n
    BY <1>1, <2>3 DEF EntryOK
  <2>5. i + 1 \in 1 .. n - 2 /\ (IF i + 1 < c THEN i + 1 ELSE i + 1 + 2) = was(i) + 1
    <3>1. CASE i < c
      <4>1. i + 1 < c
        <5>1. i \in Nat /\ i % 2 = 0
          BY <2>1
        <5>2. i + 1 < c
          BY <1>n, <3>1, <5>1, Parity
        <5>3. QED BY <5>2
      <4>2. QED BY <1>n, <2>1, <3>1, <4>1
    <3>2. CASE ~(i < c)
      <4>1. i + 2 + 1 \in 1 .. n /\ ~(i + 1 < c)
        BY <1>1, <1>2, <2>1, <2>4, <3>2
      <4>2. QED BY <1>1, <1>2, <2>1, <3>2, <4>1
    <3>3. QED BY <3>1, <3>2
  <2> HIDE DEF was
  <2>6. y[i + 1] = x[was(i) + 1]
    BY <1>4, <2>5
  <2>7. QED BY <2>2, <2>3, <2>5, <2>6
<1>7. ASSUME NEW i \in Evens(x), i # c PROVE \E j \in Evens(y) : y[j] = x[i]
  <2>1. i \in 1 .. n /\ i % 2 = 0
    BY <1>1 DEF Evens
  <2>2. i + 1 \in 1 .. n
    BY <1>1 DEF EntryOK
  <2>3. CASE i < c
    <3>1. i \in 1 .. n - 2 /\ y[i] = x[i]
      BY <1>1, <1>2, <1>4, <2>1, <2>2, <2>3
    <3>2. QED BY <1>5, <2>1, <3>1 DEF Evens
  <2>4. CASE ~(i < c)
    <3>1. i - 2 \in 1 .. n - 2 /\ (i - 2) % 2 = 0 /\ ~(i - 2 < c) /\ (i - 2) + 2 = i
      <4>1. i > c + 1 /\ i >= 2
        <5>1. i \in Nat /\ i % 2 = 0 /\ c < i
          BY <1>n, <1>7, <2>1, <2>4
        <5>2. c + 1 < i
          BY <1>n, <5>1, Parity
        <5>3. QED BY <1>n, <5>1, <5>2
      <4>2. (i - 2) % 2 = 0
        BY <2>1, <4>1, Parity
      <4>3. QED BY <1>1, <1>2, <2>1, <4>1, <4>2
    <3>2. y[i - 2] = x[i]
      BY <1>4, <3>1
    <3>3. QED BY <1>5, <3>1, <3>2 DEF Evens
  <2>5. QED BY <2>3, <2>4
<1>8. ASSUME NEW i \in Evens(y), NEW j \in Evens(y), was(i) = was(j) PROVE i = j
  <2>1. i \in 1 .. n - 2 /\ j \in 1 .. n - 2
    BY <1>5 DEF Evens
  <2>2. QED BY <1>1, <1>2, <1>8, <2>1
<1>9. y[1] = x[1] /\ n - 2 >= 1
  <2>1. 1 \in 1 .. n - 2 /\ 1 < c
    BY <1>1, <1>2
  <2>2. QED BY <1>1, <1>4, <2>1
<1> HIDE DEF was
<1>10. EntryOK(y)
  <2>1. ASSUME NEW i \in Evens(y) PROVE y[i] \in Words /\ i + 1 \in DOMAIN y
    BY <1>5, <1>6 DEF EntryOK
  <2>2. ASSUME NEW i \in Evens(y), NEW j \in Evens(y), Fold[y[i]] = Fold[y[j]] PROVE i = j
    <3>1. was(i) = was(j)
      <4>1. was(i) \in Evens(x) /\ was(j) \in Evens(x) /\ Fold[x[was(i)]] = Fold[x[was(j)]]
        BY <1>6, <2>2
      <4>2. QED BY <4>1 DEF EntryOK
    <3>2. QED BY <1>8, <3>1
  <2>3. y \in Seq(Words \cup Things) /\ Len(y) >= 1 /\ y[1] \in Words
    BY <1>4, <1>9 DEF EntryOK
  <2>4. QED BY <2>1, <2>2, <2>3 DEF EntryOK
<1>11. PairsAre(PairsOf(x), x)
  BY PairsOfAre
<1>12. /\ F = [k \in DOMAIN F |-> F[k]] /\ DOMAIN F = DOMAIN PairsOf(x) \ {Fold[p]}
       /\ \A k \in DOMAIN F : F[k] = PairsOf(x)[k]
  BY DEF InScopes!Without
<1> HIDE DEF F
<1>13. ASSUME NEW i \in Evens(y) PROVE Fold[y[i]] \in DOMAIN F /\ F[Fold[y[i]]] = y[i + 1]
  <2>1. was(i) \in Evens(x) /\ was(i) # c /\ y[i] = x[was(i)] /\ y[i + 1] = x[was(i) + 1]
    BY <1>6
  <2>2. Fold[x[was(i)]] # Fold[p]
    BY <1>2, <2>1 DEF EntryOK
  <2>3. Fold[x[was(i)]] \in DOMAIN PairsOf(x) /\ PairsOf(x)[Fold[x[was(i)]]] = x[was(i) + 1]
    BY <1>11, <2>1 DEF PairsAre
  <2>4. QED BY <1>12, <2>1, <2>2, <2>3
<1>14. ASSUME NEW k \in DOMAIN F PROVE \E i \in Evens(y) : k = Fold[y[i]]
  <2>1. PICK i \in Evens(x) : k = Fold[x[i]]
    BY <1>11, <1>12 DEF PairsAre
  <2>2. i # c
    BY <1>2, <1>12, <2>1
  <2>3. QED BY <1>7, <2>1, <2>2
<1>15. PairsAre(F, y)
  BY <1>12, <1>13, <1>14 DEF PairsAre
<1>16. PairsOf(y) = F
  BY <1>10, <1>15, PairsOfIs
<1>17. QED BY <1>9, <1>10, <1>16 DEF F

\* The entry of a name that had none.
LEMMA SingleView ==
  ASSUME NEW w \in Words, NEW p \in Words, NEW v \in Things
  PROVE  /\ EntryOK(<<w, p, v>>) /\ Len(<<w, p, v>>) > 1
         /\ PairsOf(<<w, p, v>>) = InScopes!With([k \in {} |-> NoThing], Fold[p], v)
<1>1. PICK x : x = <<w>>
  OBVIOUS
<1>2. x \in Seq(Words \cup Things) /\ Len(x) = 1 /\ x[1] = w /\ DOMAIN x = 1 .. 1
  BY <1>1
<1>3. Evens(x) = {}
  BY <1>2 DEF Evens
<1>4. EntryOK(x)
  BY <1>2, <1>3 DEF EntryOK
<1>5. PairsOf(x) = [k \in {} |-> NoThing]
  <2>1. ~(Len(x) > 1)
    BY <1>2
  <2>2. QED BY <1>4, <2>1, NoPairs
<1>6. Cell(x, p) = 0
  BY <1>4, <1>5, CellIs
<1>7. <<w, p, v>> = <<x[1], p, v>> \o Tail(x)
  <2>1. Tail(x) = << >>
    BY <1>1
  <2>2. <<w, p, v>> \in Seq(Words \cup Things)
    OBVIOUS
  <2>3. <<w, p, v>> \o << >> = <<w, p, v>>
    BY <2>2, ConcatEmptySeq
  <2>4. QED BY <1>2, <2>1, <2>3
<1>8. PICK y : y = <<w, p, v>>
  OBVIOUS
<1>9. EntryOK(y) /\ PairsOf(y) = InScopes!With(PairsOf(x), Fold[p], v)
  <2>1. y = Fronted(x, p, v)
    BY <1>7, <1>8 DEF Fronted
  <2>2. QED BY <1>4, <1>6, <2>1, PutNewView
<1>10. Len(y) > 1
  BY <1>8
<1>11. QED BY <1>5, <1>8, <1>9, <1>10

-----------------------------------------------------------------------------
(* All property lists.                                                     *)

PropsOK(l) ==
  /\ l \in Seq(Seq(Words \cup Things)) /\ \A e \in DOMAIN l : EntryOK(l[e])
  /\ \A d, e \in DOMAIN l : Fold[l[d][1]] = Fold[l[e][1]] => d = e

\* A dictionary has exactly the entries that have properties.
PlistsAre(F, l) ==
  /\ F = [n \in DOMAIN F |-> F[n]]
  /\ \A e \in DOMAIN l : Len(l[e]) > 1 => /\ Fold[l[e][1]] \in DOMAIN F
                                          /\ F[Fold[l[e][1]]] = PairsOf(l[e])
  /\ \A n \in DOMAIN F : \E e \in DOMAIN l : Len(l[e]) > 1 /\ n = Fold[l[e][1]]

LEMMA PlistsViewAre ==
  ASSUME NEW l, PropsOK(l)
  PROVE  PlistsAre(PlistsView(l), l)
<1>1. ASSUME NEW e \in DOMAIN l PROVE ListOf(l, Fold[l[e][1]]) = e
  <2>1. \A d \in DOMAIN l : Fold[l[d][1]] = Fold[l[e][1]] => d = e
    BY DEF PropsOK
  <2>2. QED BY <2>1 DEF ListOf
<1>2. QED BY <1>1 DEF PlistsView, PlistsAre

\* Only one dictionary has them.
LEMMA PlistsViewIs ==
  ASSUME NEW l, PropsOK(l), NEW F, PlistsAre(F, l)
  PROVE  PlistsView(l) = F
<1> DEFINE G == PlistsView(l)
<1>1. PlistsAre(G, l)
  BY PlistsViewAre
<1> HIDE DEF G
<1>2. \A n : n \in DOMAIN F <=> n \in DOMAIN G
  BY <1>1 DEF PlistsAre
<1>3. ASSUME NEW n \in DOMAIN F PROVE G[n] = F[n]
  <2>1. PICK e \in DOMAIN l : Len(l[e]) > 1 /\ n = Fold[l[e][1]]
    BY DEF PlistsAre
  <2>2. QED BY <1>1, <2>1 DEF PlistsAre
<1>4. DOMAIN G = DOMAIN F
  BY <1>2
<1>5. G = F
  BY <1>1, <1>3, <1>4 DEF PlistsAre
<1>6. QED BY <1>5 DEF G

\* What a search for a name finds, and what Scopes has for that name.
LEMMA EntryIs ==
  ASSUME PropsOK(props), NEW w \in Words
  PROVE  /\ Entry(w) # 0 => Entry(w) \in DOMAIN props /\ Fold[props[Entry(w)][1]] = Fold[w]
         /\ Entry(w) = 0 => \A e \in DOMAIN props : Fold[props[e][1]] # Fold[w]
<1> DEFINE here == {i \in DOMAIN props : Same(props[i][1], w)}
<1>1. DOMAIN props \in SUBSET Nat
  BY LenProperties DEF PropsOK
<1>2. \A i \in DOMAIN props : i # 0
  <2>1. DOMAIN props = 1 .. Len(props) /\ Len(props) \in Nat
    BY LenProperties DEF PropsOK
  <2>2. QED BY <2>1
<1>3. \A i \in DOMAIN props : i \in here <=> Fold[props[i][1]] = Fold[w]
  <2>1. \A i \in DOMAIN props : props[i][1] \in Words
    BY DEF PropsOK, EntryOK
  <2>2. QED BY <2>1 DEF Same
<1>4. here \in SUBSET Nat /\ (here # {} => First(here) \in here)
  BY <1>1, FirstIs
<1>5. Entry(w) = IF here = {} THEN 0 ELSE First(here)
  BY DEF Entry
<1>6. \A i \in here : i \in DOMAIN props
  OBVIOUS
<1> HIDE DEF here
<1>7. QED BY <1>2, <1>3, <1>4, <1>5, <1>6

\* An entry is replaced by one of the same name.
Replaced(l, e, y) == [l EXCEPT ![e] = y]

LEMMA ReplaceView ==
  ASSUME NEW l, PropsOK(l), NEW e \in DOMAIN l, NEW y, EntryOK(y), y[1] = l[e][1],
         NEW n, n = Fold[l[e][1]]
  PROVE  LET m == Replaced(l, e, y)
         IN  /\ PropsOK(m)
             /\ Len(y) > 1 => PlistsView(m) = InScopes!With(PlistsView(l), n, PairsOf(y))
             /\ ~(Len(y) > 1) => PlistsView(m) = InScopes!Without(PlistsView(l), {n})
<1> DEFINE m == Replaced(l, e, y)
<1>1. l \in Seq(Seq(Words \cup Things)) /\ DOMAIN l = 1 .. Len(l)
  BY LenProperties DEF PropsOK
<1>2. y \in Seq(Words \cup Things)
  BY DEF EntryOK
<1>3. /\ m \in Seq(Seq(Words \cup Things)) /\ Len(m) = Len(l)
      /\ \A j \in 1 .. Len(l) : m[j] = IF j = e THEN y ELSE l[j]
  BY <1>1, <1>2, ExceptSeq DEF Replaced
<1> HIDE DEF m
<1>4. DOMAIN m = DOMAIN l /\ \A j \in DOMAIN l : m[j] = IF j = e THEN y ELSE l[j]
  BY <1>1, <1>3, LenProperties
<1>5. \A j \in DOMAIN l : m[j][1] = l[j][1]
  BY <1>4
<1>6. PropsOK(m)
  <2>1. \A j \in DOMAIN m : EntryOK(m[j])
    BY <1>4 DEF PropsOK
  <2>2. \A i, j \in DOMAIN m : Fold[m[i][1]] = Fold[m[j][1]] => i = j
    BY <1>4, <1>5 DEF PropsOK
  <2>3. QED BY <1>3, <2>1, <2>2 DEF PropsOK
<1>7. PlistsAre(PlistsView(l), l)
  BY PlistsViewAre
<1>8. \A j \in DOMAIN l : j # e => Fold[l[j][1]] # n
  BY DEF PropsOK
<1>9. ASSUME Len(y) > 1 PROVE PlistsView(m) = InScopes!With(PlistsView(l), n, PairsOf(y))
  <2> DEFINE F == InScopes!With(PlistsView(l), n, PairsOf(y))
  <2>1. /\ F = [k \in DOMAIN F |-> F[k]] /\ DOMAIN F = DOMAIN PlistsView(l) \cup {n}
        /\ F[n] = PairsOf(y) /\ \A k \in DOMAIN PlistsView(l) : k # n => F[k] = PlistsView(l)[k]
    BY DEF InScopes!With
  <2> HIDE DEF F
  <2>2. ASSUME NEW j \in DOMAIN m, Len(m[j]) > 1
        PROVE  Fold[m[j][1]] \in DOMAIN F /\ F[Fold[m[j][1]]] = PairsOf(m[j])
    <3>1. CASE j = e
      BY <1>4, <1>5, <2>1, <3>1
    <3>2. CASE j # e
      <4>1. m[j] = l[j] /\ j \in DOMAIN l
        BY <1>4, <3>2
      <4>2. Fold[l[j][1]] \in DOMAIN PlistsView(l) /\ PlistsView(l)[Fold[l[j][1]]] = PairsOf(l[j])
        BY <1>7, <2>2, <4>1 DEF PlistsAre
      <4>3. QED BY <1>8, <2>1, <3>2, <4>1, <4>2
    <3>3. QED BY <3>1, <3>2
  <2>3. ASSUME NEW k \in DOMAIN F PROVE \E j \in DOMAIN m : Len(m[j]) > 1 /\ k = Fold[m[j][1]]
    <3>1. CASE k = n
      BY <1>4, <1>5, <1>9, <3>1
    <3>2. CASE k # n
      <4>1. PICK j \in DOMAIN l : Len(l[j]) > 1 /\ k = Fold[l[j][1]]
        BY <1>7, <2>1, <3>2 DEF PlistsAre
      <4>2. QED BY <1>4, <3>2, <4>1
    <3>3. QED BY <3>1, <3>2
  <2>4. PlistsAre(F, m)
    BY <2>1, <2>2, <2>3 DEF PlistsAre
  <2>5. PlistsView(m) = F
    BY <1>6, <2>4, PlistsViewIs
  <2>6. QED BY <2>5 DEF F
<1>10. ASSUME ~(Len(y) > 1) PROVE PlistsView(m) = InScopes!Without(PlistsView(l), {n})
  <2> DEFINE F == InScopes!Without(PlistsView(l), {n})
  <2>1. /\ F = [k \in DOMAIN F |-> F[k]] /\ DOMAIN F = DOMAIN PlistsView(l) \ {n}
        /\ \A k \in DOMAIN F : F[k] = PlistsView(l)[k]
    BY DEF InScopes!Without
  <2> HIDE DEF F
  <2>2. ASSUME NEW j \in DOMAIN m, Len(m[j]) > 1
        PROVE  Fold[m[j][1]] \in DOMAIN F /\ F[Fold[m[j][1]]] = PairsOf(m[j])
    <3>1. j # e /\ m[j] = l[j] /\ j \in DOMAIN l
      BY <1>4, <1>10, <2>2
    <3>2. Fold[l[j][1]] \in DOMAIN PlistsView(l) /\ PlistsView(l)[Fold[l[j][1]]] = PairsOf(l[j])
      BY <1>7, <2>2, <3>1 DEF PlistsAre
    <3>3. QED BY <1>8, <2>1, <3>1, <3>2
  <2>3. ASSUME NEW k \in DOMAIN F PROVE \E j \in DOMAIN m : Len(m[j]) > 1 /\ k = Fold[m[j][1]]
    <3>1. PICK j \in DOMAIN l : Len(l[j]) > 1 /\ k = Fold[l[j][1]] /\ k # n
      BY <1>7, <2>1 DEF PlistsAre
    <3>2. QED BY <1>4, <3>1
  <2>4. PlistsAre(F, m)
    BY <2>1, <2>2, <2>3 DEF PlistsAre
  <2>5. PlistsView(m) = F
    BY <1>6, <2>4, PlistsViewIs
  <2>6. QED BY <2>5 DEF F
<1>11. QED BY <1>6, <1>9, <1>10 DEF m

\* An entry for a name that has none goes before the others.
LEMMA AddView ==
  ASSUME NEW l, PropsOK(l), NEW y, EntryOK(y), Len(y) > 1, NEW n, n = Fold[y[1]],
         \A e \in DOMAIN l : Fold[l[e][1]] # n, NEW m, m = <<y>> \o l
  PROVE  PropsOK(m) /\ PlistsView(m) = InScopes!With(PlistsView(l), n, PairsOf(y))
<1> DEFINE F == InScopes!With(PlistsView(l), n, PairsOf(y))
<1>1. PICK k \in Nat : k = Len(l) /\ DOMAIN l = 1 .. k
  BY LenProperties DEF PropsOK
<1>2. /\ m \in Seq(Seq(Words \cup Things)) /\ Len(m) = k + 1 /\ m[1] = y
      /\ \A j \in 2 .. k + 1 : m[j] = l[j - 1]
  <2>1. PICK t : t = <<y>>
    OBVIOUS
  <2>2. t \in Seq(Seq(Words \cup Things)) /\ Len(t) = 1 /\ t[1] = y /\ m = t \o l
    BY <2>1 DEF EntryOK
  <2>3. /\ m \in Seq(Seq(Words \cup Things)) /\ Len(m) = Len(t) + Len(l)
        /\ \A j \in 1 .. Len(t) + Len(l) : m[j] = IF j <= Len(t) THEN t[j] ELSE l[j - Len(t)]
    <3>1. /\ t \o l \in Seq(Seq(Words \cup Things)) /\ Len(t \o l) = Len(t) + Len(l)
          /\ \A j \in 1 .. Len(t) + Len(l) : (t \o l)[j] = IF j <= Len(t) THEN t[j] ELSE l[j - Len(t)]
      <4>1. l \in Seq(Seq(Words \cup Things))
        BY DEF PropsOK
      <4>2. QED BY <2>2, <4>1, ConcatProperties, ZenonT(40)
    <3>2. QED BY <2>2, <3>1
  <2>4. QED BY <1>1, <2>2, <2>3
<1>3. DOMAIN m = 1 .. k + 1
  BY <1>2, LenProperties
<1>4. /\ 1 \in DOMAIN m /\ \A j \in DOMAIN m : j = 1 \/ (j # 1 /\ j - 1 \in DOMAIN l /\ m[j] = l[j - 1])
      /\ \A e \in DOMAIN l : e + 1 \in DOMAIN m /\ m[e + 1] = l[e]
  <2>1. /\ 1 \in 1 .. k + 1
        /\ \A j \in 1 .. k + 1 : j = 1 \/ (j # 1 /\ j - 1 \in 1 .. k /\ j \in 2 .. k + 1)
        /\ \A e \in 1 .. k : e + 1 \in 2 .. k + 1 /\ e + 1 \in 1 .. k + 1 /\ (e + 1) - 1 = e
    OBVIOUS
  <2>2. \A j \in DOMAIN m : j = 1 \/ (j # 1 /\ j - 1 \in DOMAIN l /\ m[j] = l[j - 1])
    BY <1>1, <1>2, <1>3, <2>1
  <2>3. \A e \in DOMAIN l : e + 1 \in DOMAIN m /\ m[e + 1] = l[e]
    BY <1>1, <1>2, <1>3, <2>1
  <2>4. QED BY <1>3, <2>1, <2>2, <2>3
<1>5. PropsOK(m)
  <2>1. \A j \in DOMAIN m : EntryOK(m[j])
    BY <1>2, <1>4 DEF PropsOK
  <2>2. ASSUME NEW i \in DOMAIN m, NEW j \in DOMAIN m, Fold[m[i][1]] = Fold[m[j][1]] PROVE i = j
    <3>1. CASE i = 1 \/ j = 1
      <4>1. \A h \in DOMAIN m : h # 1 => Fold[m[h][1]] # n
        BY <1>4
      <4>2. QED BY <1>2, <2>2, <3>1, <4>1
    <3>2. CASE i # 1 /\ j # 1
      <4>1. i - 1 \in DOMAIN l /\ j - 1 \in DOMAIN l /\ Fold[l[i - 1][1]] = Fold[l[j - 1][1]]
        BY <1>4, <2>2, <3>2
      <4>2. i - 1 = j - 1
        BY <4>1 DEF PropsOK
      <4>3. QED BY <1>3, <4>2
    <3>3. QED BY <3>1, <3>2
  <2>3. QED BY <1>2, <2>1, <2>2 DEF PropsOK
<1>6. PlistsAre(PlistsView(l), l)
  BY PlistsViewAre
<1>7. /\ F = [i \in DOMAIN F |-> F[i]] /\ DOMAIN F = DOMAIN PlistsView(l) \cup {n}
      /\ F[n] = PairsOf(y) /\ \A i \in DOMAIN PlistsView(l) : i # n => F[i] = PlistsView(l)[i]
  BY DEF InScopes!With
<1> HIDE DEF F
<1>8. ASSUME NEW j \in DOMAIN m, Len(m[j]) > 1
      PROVE  Fold[m[j][1]] \in DOMAIN F /\ F[Fold[m[j][1]]] = PairsOf(m[j])
  <2>1. CASE j = 1
    BY <1>2, <1>7, <2>1
  <2>2. CASE j # 1
    <3>1. j - 1 \in DOMAIN l /\ m[j] = l[j - 1]
      BY <1>4, <2>2
    <3>2. PICK e \in DOMAIN l : m[j] = l[e]
      BY <3>1
    <3>3. /\ Fold[l[e][1]] \in DOMAIN PlistsView(l) /\ PlistsView(l)[Fold[l[e][1]]] = PairsOf(l[e])
          /\ Fold[l[e][1]] # n
      BY <1>6, <1>8, <3>2 DEF PlistsAre
    <3>4. QED BY <1>7, <3>2, <3>3
  <2>3. QED BY <2>1, <2>2
<1>9. ASSUME NEW i \in DOMAIN F PROVE \E j \in DOMAIN m : Len(m[j]) > 1 /\ i = Fold[m[j][1]]
  <2>1. CASE i = n
    BY <1>2, <1>4, <2>1
  <2>2. CASE i # n
    <3>1. PICK e \in DOMAIN l : Len(l[e]) > 1 /\ i = Fold[l[e][1]]
      BY <1>6, <1>7, <2>2 DEF PlistsAre
    <3>2. QED BY <1>4, <3>1
  <2>3. QED BY <2>1, <2>2
<1>10. PlistsAre(F, m)
  BY <1>7, <1>8, <1>9 DEF PlistsAre
<1>11. PlistsView(m) = F
  BY <1>5, <1>10, PlistsViewIs
<1>12. QED BY <1>5, <1>11 DEF F

\* The properties of a name that has an entry, and of one that has none.
LEMMA PlistOfIs ==
  ASSUME PropsOK(props), NEW w \in Words
  PROVE  /\ Entry(w) # 0 => InScopes!PlistOf(Fold[w]) = PairsOf(props[Entry(w)])
         /\ Entry(w) = 0 => /\ InScopes!PlistOf(Fold[w]) = [p \in {} |-> NoThing]
                            /\ Fold[w] \notin DOMAIN PlistsView(props)
         /\ Entry(w) # 0 => (Fold[w] \in DOMAIN PlistsView(props) <=> Len(props[Entry(w)]) > 1)
<1>1. PlistsAre(PlistsView(props), props)
  BY PlistsViewAre
<1>2. InScopes!PlistOf(Fold[w]) = IF Fold[w] \in DOMAIN PlistsView(props) THEN PlistsView(props)[Fold[w]]
                                  ELSE [p \in {} |-> NoThing]
  BY DEF InScopes!PlistOf
<1>3. CASE Entry(w) = 0
  <2>1. Fold[w] \notin DOMAIN PlistsView(props)
    BY <1>1, <1>3, EntryIs DEF PlistsAre
  <2>2. QED BY <1>2, <1>3, <2>1
<1>4. CASE Entry(w) # 0
  <2>1. PICK e \in DOMAIN props : e = Entry(w) /\ Fold[props[e][1]] = Fold[w]
    BY <1>4, EntryIs
  <2>2. EntryOK(props[e]) /\ \A d \in DOMAIN props : Fold[props[d][1]] = Fold[w] => d = e
    BY <2>1 DEF PropsOK
  <2>3. CASE Len(props[e]) > 1
    <3>1. Fold[w] \in DOMAIN PlistsView(props) /\ PlistsView(props)[Fold[w]] = PairsOf(props[e])
      BY <1>1, <2>1, <2>3 DEF PlistsAre
    <3>2. QED BY <1>2, <1>4, <2>1, <2>3, <3>1
  <2>4. CASE ~(Len(props[e]) > 1)
    <3>1. Fold[w] \notin DOMAIN PlistsView(props)
      BY <1>1, <2>2, <2>4 DEF PlistsAre
    <3>2. PairsOf(props[e]) = [p \in {} |-> NoThing]
      BY <2>2, <2>4, NoPairs
    <3>3. QED BY <1>2, <1>4, <2>1, <2>4, <3>1, <3>2
  <2>5. QED BY <2>3, <2>4
<1>5. QED BY <1>3, <1>4

LEMMA prop_putView ==
  ASSUME PropsOK(props), NEW w \in Words, NEW p \in Words, NEW v \in Things, NEW made,
         NEW m, m = prop_put(w, p, v, made)
  PROVE  /\ PropsOK(m)
         /\ \/ m = props
            \/ PlistsView(m) = InScopes!With(PlistsView(props), Fold[w],
                                 InScopes!With(InScopes!PlistOf(Fold[w]), Fold[p], v))
<1>1. CASE Entry(w) = 0
  <2>1. CASE made < 4
    BY <1>1, <2>1 DEF prop_put
  <2>2. CASE ~(made < 4)
    <3>1. PICK y : y = <<w, p, v>>
      OBVIOUS
    <3>2. m = <<y>> \o props
      BY <1>1, <2>2, <3>1 DEF prop_put
    <3>3. /\ EntryOK(y) /\ Len(y) > 1 /\ Fold[w] = Fold[y[1]]
          /\ PairsOf(y) = InScopes!With([k \in {} |-> NoThing], Fold[p], v)
      BY <3>1, SingleView
    <3>4. \A e \in DOMAIN props : Fold[props[e][1]] # Fold[w]
      BY <1>1, EntryIs
    <3>5. PropsOK(m) /\ PlistsView(m) = InScopes!With(PlistsView(props), Fold[w], PairsOf(y))
      BY <3>2, <3>3, <3>4, AddView
    <3>6. QED BY <1>1, <3>3, <3>5, PlistOfIs
  <2>3. QED BY <2>1, <2>2
<1>2. CASE Entry(w) # 0
  <2>1. PICK e \in DOMAIN props : e = Entry(w) /\ Fold[props[e][1]] = Fold[w]
    BY <1>2, EntryIs
  <2>2. PICK x : x = props[e] /\ EntryOK(x)
    BY DEF PropsOK
  <2>3. InScopes!PlistOf(Fold[w]) = PairsOf(x)
    BY <1>2, <2>1, <2>2, PlistOfIs
\* The entry becomes one with the property.
  <2>4. ASSUME NEW y, EntryOK(y), y[1] = x[1], PairsOf(y) = InScopes!With(PairsOf(x), Fold[p], v),
               m = Replaced(props, e, y)
        PROVE  /\ PropsOK(m)
               /\ PlistsView(m) = InScopes!With(PlistsView(props), Fold[w],
                                    InScopes!With(InScopes!PlistOf(Fold[w]), Fold[p], v))
    <3>1. Fold[p] \in DOMAIN PairsOf(y)
      BY <2>4 DEF InScopes!With
    <3>2. Len(y) > 1
      BY <2>4, <3>1, NoPairs
    <3>3. PropsOK(m) /\ PlistsView(m) = InScopes!With(PlistsView(props), Fold[w], PairsOf(y))
      <4>1. y[1] = props[e][1] /\ Fold[w] = Fold[props[e][1]] /\ m = Replaced(props, e, y) /\ EntryOK(y)
        BY <2>1, <2>2, <2>4
      <4>2. /\ PropsOK(m)
            /\ Len(y) > 1 => PlistsView(m) = InScopes!With(PlistsView(props), Fold[w], PairsOf(y))
        BY <2>1, <4>1, ReplaceView, ZenonT(40)
      <4>3. QED BY <3>2, <4>2
    <3>4. QED BY <2>3, <2>4, <3>3
  <2>5. CASE Cell(x, p) # 0
    <3>1. PICK y : y = Renewed(x, Cell(x, p), v)
      OBVIOUS
    <3>2. m = Replaced(props, e, y)
      <4>1. m = [props EXCEPT ![e][Cell(x, p) + 1] = v]
        BY <1>2, <2>1, <2>2, <2>5 DEF prop_put
      <4>2. QED BY <2>2, <3>1, <4>1 DEF Renewed, Replaced
    <3>3. QED BY <2>2, <2>4, <2>5, <3>1, <3>2, PutOldView
  <2>6. CASE Cell(x, p) = 0 /\ made < 2
    BY <1>2, <2>1, <2>2, <2>6 DEF prop_put
  <2>7. CASE Cell(x, p) = 0 /\ ~(made < 2)
    <3>1. PICK y : y = Fronted(x, p, v)
      OBVIOUS
    <3>2. m = Replaced(props, e, y)
      <4>1. m = [props EXCEPT ![e] = <<@[1], p, v>> \o Tail(@)]
        BY <1>2, <2>1, <2>2, <2>7 DEF prop_put
      <4>2. m = [props EXCEPT ![e] = Fronted(props[e], p, v)]
        BY <4>1 DEF Fronted
      <4>3. QED BY <2>2, <3>1, <4>2 DEF Replaced
    <3>3. QED BY <2>2, <2>4, <2>7, <3>1, <3>2, PutNewView
  <2>8. QED BY <2>5, <2>6, <2>7
<1>3. QED BY <1>1, <1>2

LEMMA prop_removeView ==
  ASSUME PropsOK(props), NEW w \in Words, NEW p \in Words, NEW m, m = prop_remove(w, p),
         NEW V, V = PlistsView(props)
  PROVE  /\ PropsOK(m)
         /\ \/ m = props
            \/ PlistsView(m)
                 = [k \in {j \in DOMAIN V : j # Fold[w] \/ DOMAIN V[j] \ {Fold[p]} # {}} |->
                      IF k = Fold[w] THEN InScopes!Without(V[k], {Fold[p]}) ELSE V[k]]
<1> DEFINE R == [k \in {j \in DOMAIN V : j # Fold[w] \/ DOMAIN V[j] \ {Fold[p]} # {}} |->
                      IF k = Fold[w] THEN InScopes!Without(V[k], {Fold[p]}) ELSE V[k]]
<1>1. CASE Entry(w) = 0
  BY <1>1 DEF prop_remove
<1>2. CASE Entry(w) # 0
  <2>1. PICK e \in DOMAIN props : e = Entry(w) /\ Fold[props[e][1]] = Fold[w]
    BY <1>2, EntryIs
  <2>2. PICK x : x = props[e] /\ EntryOK(x)
    BY DEF PropsOK
  <2>3. PICK c : c = Cell(x, p)
    OBVIOUS
  <2>4. CASE c = 0
    BY <1>2, <2>1, <2>2, <2>3, <2>4 DEF prop_remove
  <2>5. CASE c # 0
    <3>1. PICK y : y = CutOut(x, c)
      OBVIOUS
    <3>2. m = Replaced(props, e, y)
      <4>1. m = [props EXCEPT ![e] = SubSeq(@, 1, c - 1) \o SubSeq(@, c + 2, Len(@))]
        BY <1>2, <2>1, <2>2, <2>3, <2>5 DEF prop_remove
      <4>2. QED BY <2>2, <3>1, <4>1 DEF CutOut, Replaced
    <3>3. EntryOK(y) /\ y[1] = x[1] /\ PairsOf(y) = InScopes!Without(PairsOf(x), {Fold[p]})
      BY <2>2, <2>3, <2>5, <3>1, RemoveView
    <3>4. Fold[p] \in DOMAIN PairsOf(x)
      BY <2>2, <2>3, <2>5, CellIs
    <3>5. Len(x) > 1 /\ PlistsAre(V, props)
      BY <2>2, <3>4, NoPairs, PlistsViewAre
    <3>6. Fold[w] \in DOMAIN V /\ V[Fold[w]] = PairsOf(x) /\ V = [k \in DOMAIN V |-> V[k]]
      BY <2>1, <2>2, <3>5 DEF PlistsAre
    <3>7. /\ PropsOK(m)
          /\ Len(y) > 1 => PlistsView(m) = InScopes!With(V, Fold[w], PairsOf(y))
          /\ ~(Len(y) > 1) => PlistsView(m) = InScopes!Without(V, {Fold[w]})
      BY <2>1, <2>2, <3>2, <3>3, ReplaceView
    <3>8. DOMAIN PairsOf(y) = DOMAIN V[Fold[w]] \ {Fold[p]}
      BY <3>3, <3>6 DEF InScopes!Without
    <3>9. CASE Len(y) > 1
      <4>1. DOMAIN V[Fold[w]] \ {Fold[p]} # {}
        BY <3>3, <3>8, <3>9, NoPairs
      <4>2. {j \in DOMAIN V : j # Fold[w] \/ DOMAIN V[j] \ {Fold[p]} # {}} = DOMAIN V
        BY <4>1
      <4>3. R = [k \in DOMAIN V |-> IF k = Fold[w] THEN PairsOf(y) ELSE V[k]]
        BY <3>3, <3>6, <4>2
      <4>4. InScopes!With(V, Fold[w], PairsOf(y)) = [k \in DOMAIN V |-> IF k = Fold[w] THEN PairsOf(y) ELSE V[k]]
        <5>1. DOMAIN V \cup {Fold[w]} = DOMAIN V
          BY <3>6
        <5>2. QED BY <5>1 DEF InScopes!With
      <4>5. QED BY <3>7, <3>9, <4>3, <4>4
    <3>10. CASE ~(Len(y) > 1)
      <4>1. DOMAIN V[Fold[w]] \ {Fold[p]} = {}
        BY <3>3, <3>8, <3>10, NoPairs
      <4>2. {j \in DOMAIN V : j # Fold[w] \/ DOMAIN V[j] \ {Fold[p]} # {}} = DOMAIN V \ {Fold[w]}
        BY <4>1
      <4>3. R = [k \in DOMAIN V \ {Fold[w]} |-> V[k]]
        BY <4>2
      <4>4. InScopes!Without(V, {Fold[w]}) = [k \in DOMAIN V \ {Fold[w]} |-> V[k]]
        BY DEF InScopes!Without
      <4>5. QED BY <3>7, <3>10, <4>3, <4>4
    <3>11. QED BY <3>9, <3>10
  <2>6. QED BY <2>4, <2>5
<1>3. QED BY <1>1, <1>2

-----------------------------------------------------------------------------
(* Scopes: a frame is the dictionary of its bindings, the first of a name   *)
(* counting, and the stack is the sequence of those.                        *)

BoundOf(b) ==
  [n \in {Fold[b[i].name] : i \in DOMAIN b} |->
     b[First({i \in DOMAIN b : Fold[b[i].name] = n})].thing]

LEMMA ScopeIs ==
  ASSUME NEW f
  PROVE  ScopeOf(f) = [bound |-> BoundOf(f.binds), test |-> f.test]
  BY DEF ScopeOf, BoundOf

\* Place i of a sequence of bindings is the first of its name.
Leads(b, i) == i \in DOMAIN b /\ \A j \in DOMAIN b : Fold[b[j].name] = Fold[b[i].name] => i <= j

\* A dictionary has exactly the names of a sequence of bindings, and says of
\* each what its first binding says.
Binds(F, b) ==
  /\ F = [n \in DOMAIN F |-> F[n]]
  /\ \A i \in DOMAIN b : Fold[b[i].name] \in DOMAIN F
  /\ \A n \in DOMAIN F : \E i \in DOMAIN b : n = Fold[b[i].name] /\ Leads(b, i) /\ F[n] = b[i].thing

LEMMA BoundOfBinds ==
  ASSUME NEW b \in Seq(BindType)
  PROVE  Binds(BoundOf(b), b)
<1> DEFINE F == BoundOf(b)
           here(n) == {i \in DOMAIN b : Fold[b[i].name] = n}
<1>1. DOMAIN b \in SUBSET Nat
  BY LenProperties
<1>2. DOMAIN F = {Fold[b[i].name] : i \in DOMAIN b} /\ \A n \in DOMAIN F : F[n] = b[First(here(n))].thing
  BY DEF BoundOf
<1>3. F = [n \in DOMAIN F |-> F[n]]
  BY DEF BoundOf
<1> HIDE DEF F
<1>4. ASSUME NEW n \in DOMAIN F
      PROVE  \E i \in DOMAIN b : n = Fold[b[i].name] /\ Leads(b, i) /\ F[n] = b[i].thing
  <2>1. here(n) # {} /\ here(n) \in SUBSET Nat
    BY <1>1, <1>2
  <2> DEFINE i == First(here(n))
  <2>2. i \in here(n) /\ \A j \in here(n) : i <= j
    BY <2>1, FirstIs
  <2> HIDE DEF i
  <2>3. Leads(b, i)
    BY <2>2 DEF Leads
  <2>4. QED BY <1>2, <2>2, <2>3 DEF i
<1>5. QED BY <1>2, <1>3, <1>4 DEF Binds, F

\* Two places that lead with one name are one place.
LEMMA OneLeads ==
  ASSUME NEW b \in Seq(BindType), NEW i, NEW j, Leads(b, i), Leads(b, j), Fold[b[i].name] = Fold[b[j].name]
  PROVE  i = j
<1>1. DOMAIN b \in SUBSET Nat
  BY LenProperties
<1>2. i \in Nat /\ j \in Nat /\ i <= j /\ j <= i
  BY <1>1 DEF Leads
<1>3. QED BY <1>2

\* Only one dictionary tells a sequence of bindings.
LEMMA BoundOfIs ==
  ASSUME NEW b \in Seq(BindType), NEW F, Binds(F, b)
  PROVE  BoundOf(b) = F
<1> DEFINE G == BoundOf(b)
<1>1. Binds(G, b)
  BY BoundOfBinds
<1> HIDE DEF G
<1>2. ASSUME NEW n PROVE n \in DOMAIN F <=> n \in DOMAIN G
  <2>1. n \in DOMAIN F <=> \E i \in DOMAIN b : n = Fold[b[i].name]
    BY DEF Binds
  <2>2. n \in DOMAIN G <=> \E i \in DOMAIN b : n = Fold[b[i].name]
    BY <1>1 DEF Binds
  <2>3. QED BY <2>1, <2>2
<1>3. ASSUME NEW n \in DOMAIN F PROVE G[n] = F[n]
  <2>1. PICK i \in DOMAIN b : n = Fold[b[i].name] /\ Leads(b, i) /\ F[n] = b[i].thing
    BY DEF Binds
  <2>2. PICK j \in DOMAIN b : n = Fold[b[j].name] /\ Leads(b, j) /\ G[n] = b[j].thing
    BY <1>1, <1>2 DEF Binds
  <2>3. i = j
    BY <2>1, <2>2, OneLeads
  <2>4. QED BY <2>1, <2>2, <2>3
<1>4. DOMAIN G = DOMAIN F
  BY <1>2
<1>5. G = F
  BY <1>1, <1>3, <1>4 DEF Binds
<1>6. QED BY <1>5 DEF G

\* What frame_find says of the dictionary.
LEMMA BindingFound ==
  ASSUME NEW f, NEW b \in Seq(BindType), f.binds = b, NEW w \in Words
  PROVE  /\ frame_find(f, w) = 0 <=> Fold[w] \notin DOMAIN BoundOf(b)
         /\ frame_find(f, w) # 0 => /\ frame_find(f, w) \in DOMAIN b /\ Leads(b, frame_find(f, w))
                                    /\ Fold[b[frame_find(f, w)].name] = Fold[w]
<1> DEFINE here == {i \in DOMAIN f.binds : Same(f.binds[i].name, w)}
           k == frame_find(f, w)
<1>1. DOMAIN b \in SUBSET (Nat \ {0}) /\ \A i \in DOMAIN b : b[i] \in BindType
  BY LenProperties, ElementOfSeq
<1>2. \A i \in DOMAIN b : b[i].name \in Words
  BY <1>1 DEF BindType
<1>3. \A i \in DOMAIN b : i \in here <=> Fold[b[i].name] = Fold[w]
  BY <1>2 DEF Same
<1>4. here \in SUBSET Nat /\ (here # {} => First(here) \in here /\ \A j \in here : First(here) <= j)
  <2>1. here \in SUBSET Nat
    BY <1>1
  <2>2. QED BY <2>1, FirstIs
<1>5. k = IF here = {} THEN 0 ELSE First(here)
  BY DEF frame_find
<1>6. \A i \in here : i \in DOMAIN b
  OBVIOUS
<1> HIDE DEF here, k
<1>7. k = 0 <=> here = {}
  BY <1>1, <1>4, <1>5, <1>6
<1>8. k # 0 => k \in DOMAIN b /\ Fold[b[k].name] = Fold[w] /\ \A j \in here : k <= j
  BY <1>3, <1>4, <1>5, <1>6
<1>9. k # 0 => Leads(b, k)
  BY <1>3, <1>8 DEF Leads
<1>10. here = {} <=> Fold[w] \notin DOMAIN BoundOf(b)
  BY <1>3, <1>6, BoundOfBinds DEF Binds
<1>11. QED BY <1>7, <1>8, <1>9, <1>10 DEF k

\* A binding of the sequence given a thing.
Given(b, i, v) == [b EXCEPT ![i].thing = v]

LEMMA GivenBound ==
  ASSUME NEW b \in Seq(BindType), NEW i, Leads(b, i), NEW v \in Things
  PROVE  /\ Given(b, i, v) \in Seq(BindType)
         /\ BoundOf(Given(b, i, v)) = [BoundOf(b) EXCEPT ![Fold[b[i].name]] = v]
<1> DEFINE c == Given(b, i, v)
           B == BoundOf(b)
           F == [B EXCEPT ![Fold[b[i].name]] = v]
<1>1. i \in DOMAIN b /\ DOMAIN b = 1 .. Len(b) /\ \A j \in DOMAIN b : b[j] \in BindType
  BY LenProperties, ElementOfSeq DEF Leads
<1>2. c = [b EXCEPT ![i] = [b[i] EXCEPT !.thing = v]]
  BY DEF Given
<1>3. [b[i] EXCEPT !.thing = v] \in BindType /\ [b[i] EXCEPT !.thing = v].name = b[i].name
      /\ [b[i] EXCEPT !.thing = v].thing = v
  BY <1>1 DEF BindType
<1>4. c \in Seq(BindType) /\ DOMAIN c = DOMAIN b
  <2>1. c \in Seq(BindType) /\ Len(c) = Len(b)
    BY <1>1, <1>2, <1>3, ExceptSeq
  <2>2. QED BY <1>1, <2>1, LenProperties
<1>5. ASSUME NEW j \in DOMAIN b
      PROVE  c[j].name = b[j].name /\ c[j].thing = IF j = i THEN v ELSE b[j].thing
  <2>1. c[j] = IF j = i THEN [b[i] EXCEPT !.thing = v] ELSE b[j]
    BY <1>2
  <2>2. QED BY <1>3, <2>1
<1> HIDE DEF c
<1>6. Binds(B, b)
  BY BoundOfBinds
<1>7. \A j : Leads(b, j) => Leads(c, j)
  BY <1>4, <1>5 DEF Leads
<1>8. /\ F = [n \in DOMAIN F |-> F[n]] /\ DOMAIN F = DOMAIN B
      /\ \A n \in DOMAIN B : F[n] = IF n = Fold[b[i].name] THEN v ELSE B[n]
  BY <1>6 DEF Binds
<1> HIDE DEF F, B
<1>9. ASSUME NEW n \in DOMAIN B
      PROVE  \E j \in DOMAIN c : n = Fold[c[j].name] /\ Leads(c, j) /\ F[n] = c[j].thing
  <2>1. PICK j \in DOMAIN b : n = Fold[b[j].name] /\ Leads(b, j) /\ B[n] = b[j].thing
    BY <1>6 DEF Binds
  <2>2. Leads(c, j) /\ j \in DOMAIN c /\ n = Fold[c[j].name]
    BY <1>4, <1>5, <1>7, <2>1
  <2>3. F[n] = c[j].thing
    <3>1. CASE n = Fold[b[i].name]
      <4>1. j = i
        BY <2>1, <3>1, OneLeads
      <4>2. QED BY <1>5, <1>8, <3>1, <4>1
    <3>2. CASE n # Fold[b[i].name]
      BY <1>5, <1>8, <2>1, <3>2
    <3>3. QED BY <3>1, <3>2
  <2>4. QED BY <2>2, <2>3
<1>10. Binds(F, c)
  BY <1>4, <1>5, <1>6, <1>8, <1>9 DEF Binds
<1>11. QED BY <1>4, <1>10, BoundOfIs DEF c, B, F

\* A new binding after the others: it counts when there was none of its name.
Added(b, w) == Append(b, [name |-> w, thing |-> NoThing])

LEMMA AddedBound ==
  ASSUME NEW b \in Seq(BindType), NEW w \in Words
  PROVE  /\ Added(b, w) \in Seq(BindType)
         /\ BoundOf(Added(b, w)) = IF Fold[w] \in DOMAIN BoundOf(b) THEN BoundOf(b)
                                   ELSE InScopes!With(BoundOf(b), Fold[w], NoThing)
<1> DEFINE c == Added(b, w)
           B == BoundOf(b)
           F == IF Fold[w] \in DOMAIN B THEN B ELSE InScopes!With(B, Fold[w], NoThing)
<1>1. PICK n \in Nat : n = Len(b)
  BY LenProperties
<1>2. DOMAIN b = 1 .. n
  BY <1>1, LenProperties
<1>3. [name |-> w, thing |-> NoThing] \in BindType
  BY DEF BindType
<1>4. /\ c \in Seq(BindType) /\ Len(c) = n + 1 /\ c[n + 1] = [name |-> w, thing |-> NoThing]
      /\ \A i \in 1 .. n : c[i] = b[i]
  BY <1>1, <1>3, AppendProperties DEF Added
<1>5. DOMAIN c = 1 .. n + 1
  BY <1>4, LenProperties
<1> HIDE DEF c
<1>6. c[n + 1].name = w /\ c[n + 1].thing = NoThing
  BY <1>4
<1>7. Binds(B, b)
  BY BoundOfBinds
<1>8. /\ F = [m \in DOMAIN F |-> F[m]] /\ DOMAIN F = DOMAIN B \cup {Fold[w]}
      /\ \A m \in DOMAIN B : F[m] = B[m]
      /\ Fold[w] \notin DOMAIN B => F[Fold[w]] = NoThing
  BY <1>7 DEF Binds, InScopes!With
<1> HIDE DEF F, B
<1>9. \A i : Leads(b, i) => Leads(c, i)
  <2>1. SUFFICES ASSUME NEW i, Leads(b, i), NEW j \in DOMAIN c, Fold[c[j].name] = Fold[c[i].name]
                 PROVE  i \in DOMAIN c /\ i <= j
    BY <1>2, <1>5 DEF Leads
  <2>2. i \in 1 .. n /\ c[i] = b[i] /\ j \in 1 .. n + 1
    BY <1>2, <1>4, <1>5, <2>1 DEF Leads
  <2>3. CASE j = n + 1
    BY <1>5, <2>2, <2>3
  <2>4. CASE j # n + 1
    <3>1. j \in 1 .. n /\ c[j] = b[j]
      BY <1>4, <2>2, <2>4
    <3>2. QED BY <1>2, <1>5, <2>1, <2>2, <3>1 DEF Leads
  <2>5. QED BY <2>3, <2>4
<1>10. ASSUME NEW m \in DOMAIN F
       PROVE  \E i \in DOMAIN c : m = Fold[c[i].name] /\ Leads(c, i) /\ F[m] = c[i].thing
  <2>1. CASE m \in DOMAIN B
    <3>1. PICK i \in DOMAIN b : m = Fold[b[i].name] /\ Leads(b, i) /\ B[m] = b[i].thing
      BY <1>7, <2>1 DEF Binds
    <3>2. i \in 1 .. n /\ i \in DOMAIN c /\ c[i] = b[i]
      BY <1>2, <1>4, <1>5, <3>1
    <3>3. QED BY <1>8, <1>9, <2>1, <3>1, <3>2
  <2>2. CASE m \notin DOMAIN B
    <3>1. m = Fold[w] /\ F[m] = NoThing
      BY <1>8, <2>2
    <3>2. ASSUME NEW j \in DOMAIN c, Fold[c[j].name] = Fold[w] PROVE j = n + 1
      <4>1. SUFFICES ASSUME j # n + 1 PROVE FALSE
        OBVIOUS
      <4>2. j \in 1 .. n /\ c[j] = b[j]
        BY <1>4, <1>5, <4>1
      <4>3. QED BY <1>2, <1>7, <2>2, <3>1, <3>2, <4>2 DEF Binds
    <3>3. Leads(c, n + 1)
      BY <1>5, <1>6, <3>2 DEF Leads
    <3>4. QED BY <1>5, <1>6, <3>1, <3>3
  <2>3. QED BY <2>1, <2>2
<1>11. ASSUME NEW i \in DOMAIN c PROVE Fold[c[i].name] \in DOMAIN F
  <2>1. CASE i = n + 1
    BY <1>6, <1>8, <2>1
  <2>2. CASE i # n + 1
    <3>1. i \in 1 .. n /\ c[i] = b[i]
      BY <1>4, <1>5, <2>2
    <3>2. QED BY <1>2, <1>7, <1>8, <3>1 DEF Binds
  <2>3. QED BY <2>1, <2>2
<1>12. Binds(F, c)
  BY <1>8, <1>10, <1>11 DEF Binds
<1>13. QED BY <1>4, <1>12, BoundOfIs DEF c, B, F

\* The bindings of a new frame: of an input named twice the first counts.
LEMMA ArgumentsBound ==
  ASSUME NEW text \in Texts, NEW T \in SUBSET Things, NEW args \in [1 .. Len(InputsOf[text]) -> T]
  PROVE  /\ InScopes!Scope(text, args)
              = [bound |-> BoundOf(Bound(InputsOf[text], args)), test |-> Untested]
         /\ args \in InScopes!Argument(text)
<1> DEFINE W == InputsOf[text]
           I == [i \in DOMAIN W |-> Fold[W[i]]]
           b == Bound(W, args)
           F == [n \in {I[i] : i \in DOMAIN args} |->
                   args[CHOOSE i \in DOMAIN I : I[i] = n /\ \A j \in 1 .. (i - 1) : I[j] # n]]
<1>1. W \in Seq(Words) /\ b \in Seq(BindType)
  BY BoundIs, WorkspaceAssumption
<1>2. PICK k \in Nat : k = Len(W)
  BY <1>1, LenProperties
<1>3. DOMAIN W = 1 .. k /\ DOMAIN args = 1 .. k /\ args \in [1 .. k -> Things]
  BY <1>1, <1>2, LenProperties
<1>4. /\ DOMAIN b = 1 .. k
      /\ \A i \in 1 .. k : b[i].name = W[i] /\ b[i].thing = args[i]
  BY <1>3 DEF Bound
<1> HIDE DEF b
<1>5. DOMAIN I = 1 .. k /\ \A i \in 1 .. k : I[i] = Fold[b[i].name]
  BY <1>3, <1>4
<1>6. InScopes!Scope(text, args) = [bound |-> F, test |-> Untested]
  BY DEF InScopes!Scope, InScopes!InputNamed, InScopes!Untested, Untested
<1> HIDE DEF I
<1>7. F = [n \in DOMAIN F |-> F[n]] /\ DOMAIN F = {I[i] : i \in DOMAIN args}
      /\ \A n \in DOMAIN F :
           F[n] = args[CHOOSE i \in DOMAIN I : I[i] = n /\ \A j \in 1 .. (i - 1) : I[j] # n]
  OBVIOUS
<1> HIDE DEF F
<1>8. ASSUME NEW n \in DOMAIN F
      PROVE  \E i \in DOMAIN b : n = Fold[b[i].name] /\ Leads(b, i) /\ F[n] = b[i].thing
  <2> DEFINE here == {i \in 1 .. k : I[i] = n}
             first(i) == I[i] = n /\ \A j \in 1 .. (i - 1) : I[j] # n
             c == CHOOSE i \in DOMAIN I : first(i)
  <2>1. here # {} /\ here \in SUBSET Nat
    BY <1>3, <1>7
  <2>2. PICK i \in here : \A j \in here : i <= j
    BY <2>1, FirstIs
  <2>3. first(i) /\ i \in DOMAIN I
    <3>1. i \in 1 .. k /\ I[i] = n
      BY <2>2
    <3>2. ASSUME NEW j \in 1 .. (i - 1) PROVE I[j] # n
      <4>1. j \in 1 .. k /\ ~ (i <= j)
        BY <1>2, <3>1
      <4>2. QED BY <2>2, <4>1
    <3>3. QED BY <1>5, <3>1, <3>2
  <2>4. first(c) /\ c \in DOMAIN I
    BY <2>3
  <2>5. F[n] = args[c]
    BY <1>7
  <2> HIDE DEF c
  <2>6. c \in 1 .. k /\ I[c] = n
    BY <1>5, <2>4
  <2>7. ASSUME NEW j \in 1 .. k, I[j] = n PROVE c <= j
    <3>1. ~ (j \in 1 .. (c - 1))
      BY <2>4, <2>7
    <3>2. QED BY <1>2, <2>6, <3>1
  <2>8. Leads(b, c)
    BY <1>4, <1>5, <2>6, <2>7 DEF Leads
  <2>9. QED BY <1>4, <1>5, <2>5, <2>6, <2>8
<1>9. \A i \in DOMAIN b : Fold[b[i].name] \in DOMAIN F
  BY <1>3, <1>4, <1>5, <1>7
<1>10. Binds(F, b)
  BY <1>7, <1>8, <1>9 DEF Binds
<1>11. BoundOf(b) = F
  BY <1>1, <1>10, BoundOfIs
<1>12. args \in InScopes!Argument(text)
  <2>1. I \in [1 .. k -> Range(I)] /\ I \in Seq(Range(I))
    <3>1. I \in [1 .. k -> Range(I)]
      BY <1>5 DEF I, Range
    <3>2. QED BY <3>1, IsASeq
  <2>2. Len(I) = k
    BY <1>5, <2>1, LenProperties
  <2>3. InScopes!Argument(text) = [1 .. Len(I) -> Things]
    BY DEF InScopes!Argument, I
  <2>4. QED BY <1>3, <2>2, <2>3
<1>13. QED BY <1>6, <1>11, <1>12 DEF b

\* A stack whose frames are frames.
Framed(s) ==
  s = [top |-> s.top, frames |-> s.frames] /\ s.top \in Nat /\ s.frames \in Seq(FrameType)

FrameScopes == {ScopeOf(f) : f \in FrameType}

LEMMA ViewIs ==
  ASSUME NEW s, Framed(s)
  PROVE  /\ Len(s.frames) \in Nat /\ DOMAIN s.frames = 1 .. Len(s.frames)
         /\ ScopesView(s) \in Seq(FrameScopes) /\ Len(ScopesView(s)) = Len(s.frames)
         /\ DOMAIN ScopesView(s) = 1 .. Len(s.frames)
         /\ \A d \in DOMAIN s.frames : /\ ScopesView(s)[d] = ScopeOf(s.frames[d])
                                       /\ s.frames[d] \in FrameType
         /\ s.frames = << >> <=> Len(s.frames) = 0
         /\ ScopesView(s) = << >> <=> s.frames = << >>
<1>1. PICK n \in Nat : n = Len(s.frames)
  BY LenProperties DEF Framed
<1>2. DOMAIN s.frames = 1 .. n /\ \A d \in 1 .. n : s.frames[d] \in FrameType
  BY <1>1, LenProperties, ElementOfSeq DEF Framed
<1>3. \A d \in 1 .. n : ScopeOf(s.frames[d]) \in FrameScopes
  BY <1>2 DEF FrameScopes
<1>4. ScopesView(s) \in [1 .. n -> FrameScopes] /\ \A d \in 1 .. n : ScopesView(s)[d] = ScopeOf(s.frames[d])
  BY <1>2, <1>3 DEF ScopesView
<1>5. ScopesView(s) \in Seq(FrameScopes)
  BY <1>4, IsASeq
<1>6. DOMAIN ScopesView(s) = 1 .. n /\ Len(ScopesView(s)) = n
  BY <1>4, <1>5, LenProperties
<1>7. (s.frames = << >> <=> n = 0) /\ (ScopesView(s) = << >> <=> n = 0)
  BY <1>1, <1>5, <1>6, EmptySeq DEF Framed
<1>8. QED BY <1>1, <1>2, <1>4, <1>5, <1>6, <1>7

\* The scopes of a stack are known by their number and each of them.
LEMMA ViewEquals ==
  ASSUME NEW s, Framed(s), NEW S, NEW q \in Seq(S), Len(q) = Len(s.frames),
         \A d \in DOMAIN s.frames : q[d] = ScopeOf(s.frames[d])
  PROVE  ScopesView(s) = q
<1>1. DOMAIN q = DOMAIN s.frames /\ q = [d \in DOMAIN q |-> q[d]]
  BY ViewIs, LenProperties
<1>2. QED BY <1>1 DEF ScopesView

LEMMA EmptyView ==
  Framed(NoFrames) /\ ScopesView(NoFrames) = << >> /\ NoFrames.frames = << >>
<1>1. NoFrames.frames = << >> /\ NoFrames.top = 0 /\ << >> \in Seq(FrameType)
  BY EmptySeq DEF NoFrames
<1>2. Framed(NoFrames)
  BY <1>1 DEF Framed, NoFrames
<1>3. QED BY <1>1, <1>2, ViewIs

\* A frame changed in its place.
Changed(s, top, d, f) == [top |-> top, frames |-> [s.frames EXCEPT ![d] = f]]

LEMMA ChangedView ==
  ASSUME NEW s, Framed(s), NEW top \in Nat, NEW d \in DOMAIN s.frames, NEW f \in FrameType
  PROVE  /\ Framed(Changed(s, top, d, f)) /\ Len(Changed(s, top, d, f).frames) = Len(s.frames)
         /\ ScopesView(Changed(s, top, d, f)) = Replaced(ScopesView(s), d, ScopeOf(f))
<1> DEFINE t == Changed(s, top, d, f)
           n == Len(s.frames)
<1>1. t.top = top /\ t.frames = [s.frames EXCEPT ![d] = f] /\ t = [top |-> t.top, frames |-> t.frames]
  BY DEF Changed
<1>2. n \in Nat /\ DOMAIN s.frames = 1 .. n /\ s.frames \in Seq(FrameType)
  BY ViewIs DEF Framed
<1> HIDE DEF t
<1>3. t.frames \in Seq(FrameType) /\ Len(t.frames) = n
  BY <1>1, <1>2, ExceptSeq
<1>4. Framed(t)
  BY <1>1, <1>3 DEF Framed
<1> DEFINE q == [ScopesView(s) EXCEPT ![d] = ScopeOf(f)]
<1>5. ScopesView(s) \in Seq(FrameScopes) /\ Len(ScopesView(s)) = n /\ ScopeOf(f) \in FrameScopes
  BY ViewIs DEF FrameScopes
<1>6. q \in Seq(FrameScopes) /\ Len(q) = n
  BY <1>2, <1>5, ExceptSeq
<1>7. DOMAIN t.frames = 1 .. n /\ DOMAIN ScopesView(s) = 1 .. n
  BY <1>2, <1>3, <1>4, ViewIs
<1>8. ASSUME NEW e \in DOMAIN t.frames PROVE q[e] = ScopeOf(t.frames[e])
  <2>1. e \in DOMAIN s.frames /\ e \in DOMAIN ScopesView(s) /\ ScopesView(s)[e] = ScopeOf(s.frames[e])
    BY <1>2, <1>7, ViewIs
  <2>2. QED BY <1>1, <2>1
<1> HIDE DEF q
<1>9. ScopesView(t) = q
  BY <1>3, <1>4, <1>6, <1>8, ViewEquals
<1>10. QED BY <1>3, <1>4, <1>9 DEF t, q, Replaced

LEMMA FrameIs ==
  ASSUME NEW f \in FrameType, NEW b \in Seq(BindType)
  PROVE  /\ f.binds \in Seq(BindType) /\ f.size \in Nat /\ f.at \in Nat
         /\ [f EXCEPT !.binds = b] \in FrameType
         /\ [f EXCEPT !.binds = b].binds = b /\ [f EXCEPT !.binds = b].test = f.test
  BY DEF FrameType

\* A binding given a thing, and what its scope becomes.
Revalued(V, d, n, v) == [V EXCEPT ![d].bound[n] = v]

LEMMA SetBindingView ==
  ASSUME NEW s, Framed(s), NEW d \in DOMAIN s.frames, NEW w \in Words, NEW v \in Things,
         frame_find(s.frames[d], w) # 0
  PROVE  /\ Framed(SetBinding(s, d, w, v)) /\ Len(SetBinding(s, d, w, v).frames) = Len(s.frames)
         /\ ScopesView(SetBinding(s, d, w, v)) = Revalued(ScopesView(s), d, Fold[w], v)
<1> DEFINE g == s.frames[d]
           i == frame_find(g, w)
           c == Given(g.binds, i, v)
           f == [g EXCEPT !.binds = c]
           B == BoundOf(g.binds)
<1>1. g \in FrameType /\ s.top \in Nat
  BY ViewIs DEF Framed
<1>2. g.binds \in Seq(BindType)
  BY <1>1 DEF FrameType
<1>3. Leads(g.binds, i) /\ Fold[g.binds[i].name] = Fold[w]
  BY <1>2, BindingFound
<1>4. SetBinding(s, d, w, v) = [s EXCEPT !.frames[d] = [g EXCEPT !.binds[i].thing = v]]
  BY DEF SetBinding
<1> HIDE DEF i
<1>5. c \in Seq(BindType) /\ BoundOf(c) = [B EXCEPT ![Fold[w]] = v]
  BY <1>2, <1>3, GivenBound
<1>6. [g EXCEPT !.binds[i].thing = v] = f
  BY DEF Given
<1> HIDE DEF c
<1>7. f \in FrameType /\ f.binds = c /\ f.test = g.test
  BY <1>1, <1>5, FrameIs
<1>8. SetBinding(s, d, w, v) = Changed(s, s.top, d, f)
  <2>1. s = [top |-> s.top, frames |-> s.frames]
    BY DEF Framed
  <2>2. [s EXCEPT !.frames[d] = f] = [top |-> s.top, frames |-> [s.frames EXCEPT ![d] = f]]
    BY <2>1
  <2>3. QED BY <1>4, <1>6, <2>2 DEF Changed
<1> HIDE DEF f
<1>9. ScopeOf(f) = [bound |-> [B EXCEPT ![Fold[w]] = v], test |-> g.test]
  BY <1>5, <1>7, ScopeIs
<1>10. d \in DOMAIN ScopesView(s) /\ ScopesView(s)[d] = [bound |-> B, test |-> g.test]
  BY ViewIs, ScopeIs
<1>11. Revalued(ScopesView(s), d, Fold[w], v) = Replaced(ScopesView(s), d, ScopeOf(f))
  <2> DEFINE r == [bound |-> B, test |-> g.test]
  <2>1. [r EXCEPT !.bound[Fold[w]] = v] = [bound |-> [B EXCEPT ![Fold[w]] = v], test |-> g.test]
    OBVIOUS
  <2> HIDE DEF r, B
  <2>2. ScopesView(s)[d] = r
    BY <1>10 DEF r
  <2>3. [ScopesView(s) EXCEPT ![d].bound[Fold[w]] = v]
          = [ScopesView(s) EXCEPT ![d] = [r EXCEPT !.bound[Fold[w]] = v]]
    BY <1>10, <2>2
  <2>4. QED BY <1>9, <2>1, <2>3 DEF Revalued, Replaced
<1>12. /\ Framed(Changed(s, s.top, d, f)) /\ Len(Changed(s, s.top, d, f).frames) = Len(s.frames)
       /\ ScopesView(Changed(s, s.top, d, f)) = Replaced(ScopesView(s), d, ScopeOf(f))
  BY <1>1, <1>7, ChangedView
<1>13. QED BY <1>8, <1>11, <1>12

\* A scope whose bindings change keeps its test, and the other way round.
Rebound(V, d, X)  == [V EXCEPT ![d].bound = X]
Retested(V, d, b) == [V EXCEPT ![d].test = b]

LEMMA Rescoped ==
  ASSUME NEW V, NEW d \in DOMAIN V, V[d] = [bound |-> V[d].bound, test |-> V[d].test], NEW X
  PROVE  /\ Rebound(V, d, X) = Replaced(V, d, [bound |-> X, test |-> V[d].test])
         /\ Retested(V, d, X) = Replaced(V, d, [bound |-> V[d].bound, test |-> X])
<1> DEFINE r == [bound |-> V[d].bound, test |-> V[d].test]
<1>1. /\ [r EXCEPT !.bound = X] = [bound |-> X, test |-> V[d].test]
      /\ [r EXCEPT !.test = X] = [bound |-> V[d].bound, test |-> X]
  OBVIOUS
<1> HIDE DEF r
<1>2. V[d] = r
  BY DEF r
<1>3. /\ Rebound(V, d, X) = Replaced(V, d, [r EXCEPT !.bound = X])
      /\ Retested(V, d, X) = Replaced(V, d, [r EXCEPT !.test = X])
  BY <1>2 DEF Rebound, Retested, Replaced
<1>4. QED BY <1>1, <1>3

\* What is written twice is what is written last.
LEMMA ReplacedIs ==
  ASSUME NEW V, NEW d \in DOMAIN V, NEW r
  PROVE  /\ d \in DOMAIN Replaced(V, d, r) /\ Replaced(V, d, r)[d] = r
         /\ \A q : Replaced(Replaced(V, d, r), d, q) = Replaced(V, d, q)
  BY DEF Replaced

\* The local that finds room to be counted ...
LEMMA AddLocalView ==
  ASSUME NEW s, Framed(s), s.frames # << >>, ~ NoRoomToCount(s.frames[1]), NEW w \in Words
  PROVE  LET n == Fold[w]
             t == frame_add_local(s, w)
             B == ScopesView(s)[1].bound
         IN  /\ Framed(t) /\ Len(t.frames) = Len(s.frames)
             /\ 1 \in DOMAIN t.frames /\ frame_find(t.frames[1], w) # 0
             /\ ScopesView(t) = Rebound(ScopesView(s), 1, IF n \in DOMAIN B THEN B
                                                          ELSE InScopes!With(B, n, NoThing))
<1> DEFINE g == s.frames[1]
           n == Fold[w]
           more == IF Free(g) < BINDING_WORDS THEN BINDING_WORDS ELSE 0
           h == [g EXCEPT !.size = g.size + more]
           c == Added(g.binds, w)
           f == [h EXCEPT !.binds = c]
           B == BoundOf(g.binds)
           X == IF n \in DOMAIN B THEN B ELSE InScopes!With(B, n, NoThing)
<1>1. 1 \in DOMAIN s.frames /\ Len(s.frames) \in Nat \ {0}
  BY ViewIs
<1>2. g \in FrameType /\ s.top \in Nat
  BY <1>1, ViewIs DEF Framed
<1>3. g.binds \in Seq(BindType) /\ g.size \in Nat
  BY <1>2 DEF FrameType
<1>4. more \in Nat /\ s.top + more \in Nat /\ g.size + more \in Nat
  BY <1>2, <1>3, Sizes
<1> DEFINE top == s.top + more
           t == Changed(s, top, 1, f)
<1>5. frame_add_local(s, w) = t
  BY DEF frame_add_local, Grown, Changed, Added, NoRoomToCount
<1> HIDE DEF more
<1>6. c \in Seq(BindType) /\ BoundOf(c) = X
  BY <1>3, AddedBound
<1>7. n \in DOMAIN X
  BY DEF InScopes!With
<1> HIDE DEF c, X
<1>8. h \in FrameType /\ h.test = g.test
  BY <1>2, <1>4 DEF FrameType
<1> HIDE DEF h
<1>9. f \in FrameType /\ f.binds = c /\ f.test = g.test
  BY <1>6, <1>8, FrameIs
<1> HIDE DEF f
<1>10. t.frames = [s.frames EXCEPT ![1] = f] /\ top \in Nat
  BY <1>4 DEF Changed
<1> HIDE DEF top
<1>11. Framed(t) /\ Len(t.frames) = Len(s.frames) /\ ScopesView(t) = Replaced(ScopesView(s), 1, ScopeOf(f))
  BY <1>1, <1>9, <1>10, ChangedView
<1> HIDE DEF t
<1>12. 1 \in DOMAIN t.frames /\ t.frames[1] = f
  BY <1>1, <1>10
<1>13. frame_find(t.frames[1], w) # 0
  BY <1>6, <1>7, <1>9, <1>12, BindingFound
<1>14. /\ 1 \in DOMAIN ScopesView(s) /\ ScopesView(s)[1] = [bound |-> B, test |-> g.test]
       /\ ScopesView(s)[1] = [bound |-> ScopesView(s)[1].bound, test |-> ScopesView(s)[1].test]
       /\ ScopesView(s)[1].test = g.test
  BY <1>1, ViewIs, ScopeIs
<1>15. ScopeOf(f) = [bound |-> X, test |-> g.test]
  BY <1>6, <1>9, ScopeIs
<1>16. ScopesView(s)[1].bound = B
  BY <1>14
<1>17. ScopesView(t) = Rebound(ScopesView(s), 1, X)
  <2>1. Rebound(ScopesView(s), 1, X) = Replaced(ScopesView(s), 1, [bound |-> X, test |-> ScopesView(s)[1].test])
    BY <1>14, Rescoped, ZenonT(40)
  <2>2. QED BY <1>11, <1>14, <1>15, <2>1
<1>18. QED BY <1>5, <1>11, <1>12, <1>13, <1>16, <1>17 DEF X, t, top

\* ... and the one that does not.
LEMMA NoRoomView ==
  ASSUME NEW s, Framed(s), s.frames # << >>, NoRoomToCount(s.frames[1]), NEW w \in Words
  PROVE  Framed(frame_add_local(s, w)) /\ Len(frame_add_local(s, w).frames) = Len(s.frames)
<1> DEFINE g == s.frames[1]
           more == IF Free(g) < BINDING_WORDS THEN BINDING_WORDS ELSE 0
           h == [g EXCEPT !.size = g.size + more]
           c == SubSeq(g.binds, 1, g.inputs)
           f == [h EXCEPT !.binds = c]
           top == s.top + more
<1>1. 1 \in DOMAIN s.frames
  BY ViewIs
<1>2. g \in FrameType /\ s.top \in Nat
  BY <1>1, ViewIs DEF Framed
<1>3. g.binds \in Seq(BindType) /\ g.size \in Nat /\ g.inputs \in Nat
  BY <1>2 DEF FrameType
<1>4. more \in Nat /\ top \in Nat /\ g.size + more \in Nat
  BY <1>2, <1>3, Sizes
<1>5. frame_add_local(s, w) = Changed(s, top, 1, f)
  BY DEF frame_add_local, Grown, Changed
<1> HIDE DEF more, top
<1>6. c \in Seq(BindType)
  <2>1. PICK m \in Nat : m = Len(g.binds) /\ DOMAIN g.binds = 1 .. m
    BY <1>3, LenProperties
  <2>2. PICK k \in Nat : k = g.inputs
    BY <1>3
  <2>3. k <= m
    BY <2>1, <2>2, WorkspaceAssumption DEF NoRoomToCount
  <2>4. \A i \in 1 .. k : g.binds[i] \in BindType
    BY <1>3, <2>1, <2>3, ElementOfSeq
  <2>5. QED BY <1>3, <2>1, <2>2, <2>3, <2>4, SubSeqProperties
<1> HIDE DEF c
<1>7. h \in FrameType
  BY <1>2, <1>4 DEF FrameType
<1> HIDE DEF h
<1>8. f \in FrameType
  BY <1>6, <1>7, FrameIs
<1> HIDE DEF f
<1>9. QED BY <1>1, <1>4, <1>5, <1>8, ChangedView

\* The scope that binds a name is one of the stack's.
LEMMA BinderFramed ==
  ASSUME NEW s, Framed(s), NEW w, BinderOf(s, w) # 0
  PROVE  /\ BinderOf(s, w) \in DOMAIN s.frames /\ frame_find(s.frames[BinderOf(s, w)], w) # 0
         /\ \A e \in DOMAIN s.frames : frame_find(s.frames[e], w) # 0 => BinderOf(s, w) <= e
<1> DEFINE binding == {e \in DOMAIN s.frames : frame_find(s.frames[e], w) # 0}
<1>1. DOMAIN s.frames \in SUBSET Nat
  BY ViewIs
<1>2. binding # {} => First(binding) \in binding /\ \A e \in binding : First(binding) <= e
  BY <1>1, FirstIs
<1>3. BinderOf(s, w) \in binding /\ \A e \in binding : BinderOf(s, w) <= e
  BY <1>2 DEF BinderOf
<1>4. QED BY <1>3

LEMMA BoundFirst ==
  ASSUME NEW s, Framed(s), s.frames # << >>, NEW w, frame_find(s.frames[1], w) # 0
  PROVE  BinderOf(s, w) = 1
<1> DEFINE binding == {e \in DOMAIN s.frames : frame_find(s.frames[e], w) # 0}
<1>1. 1 \in DOMAIN s.frames /\ DOMAIN s.frames \in SUBSET (Nat \ {0})
  BY ViewIs
<1>2. 1 \in binding /\ binding \in SUBSET (Nat \ {0})
  BY <1>1
<1>3. BinderOf(s, w) = First(binding)
  BY <1>2 DEF BinderOf
<1>4. First(binding) \in binding /\ First(binding) <= 1
  BY <1>2, FirstIs
<1> HIDE DEF binding
<1>5. PICK d \in Nat \ {0} : d = First(binding) /\ d <= 1
  BY <1>2, <1>4
<1>6. QED BY <1>3, <1>5

LEMMA AssignedView ==
  ASSUME NEW s, Framed(s), NEW w \in Words, NEW v \in Things
  PROVE  Framed(Assigned(s, w, v)) /\ Len(Assigned(s, w, v).frames) = Len(s.frames)
<1>1. CASE BinderOf(s, w) = 0
  BY <1>1 DEF Assigned
<1>2. CASE BinderOf(s, w) # 0
  <2>1. Assigned(s, w, v) = SetBinding(s, BinderOf(s, w), w, v)
    BY <1>2 DEF Assigned
  <2>2. QED BY <1>2, <2>1, BinderFramed, SetBindingView
<1>3. QED BY <1>1, <1>2

\* local, then make.
LEMMA LocalmakeView ==
  ASSUME NEW s, Framed(s), s.frames # << >>, ~ NoRoomToCount(s.frames[1]),
         NEW w \in Words, NEW v \in Things
  PROVE  LET n == Fold[w]
             u == SetBinding(frame_add_local(s, w), 1, w, v)
         IN  /\ Framed(u) /\ Len(u.frames) = Len(s.frames)
             /\ ScopesView(u) = Rebound(ScopesView(s), 1, InScopes!With(ScopesView(s)[1].bound, n, v))
<1> DEFINE n == Fold[w]
           t == frame_add_local(s, w)
           u == SetBinding(t, 1, w, v)
           g == s.frames[1]
           B == BoundOf(g.binds)
           X == IF n \in DOMAIN B THEN B ELSE InScopes!With(B, n, NoThing)
           Y == [X EXCEPT ![n] = v]
           V == ScopesView(s)
           T == ScopesView(t)
<1>1. /\ 1 \in DOMAIN V /\ V[1] = [bound |-> V[1].bound, test |-> V[1].test]
      /\ V[1].bound = B /\ V[1].test = g.test
  BY ViewIs, ScopeIs
<1>2. /\ Framed(t) /\ Len(t.frames) = Len(s.frames)
      /\ 1 \in DOMAIN t.frames /\ frame_find(t.frames[1], w) # 0
      /\ T = Rebound(V, 1, X)
  BY <1>1, AddLocalView
<1> HIDE DEF t
<1>3. /\ Framed(u) /\ Len(u.frames) = Len(s.frames)
      /\ ScopesView(u) = Revalued(T, 1, n, v)
  BY <1>2, SetBindingView, ZenonT(40)
<1>4. Y = InScopes!With(B, n, v)
  <2>1. Binds(B, g.binds)
    <3>1. g \in FrameType
      BY ViewIs
    <3>2. g.binds \in Seq(BindType)
      BY <3>1 DEF FrameType
    <3>3. QED BY <3>2, BoundOfBinds
  <2>2. B = [m \in DOMAIN B |-> B[m]]
    BY <2>1 DEF Binds
  <2> HIDE DEF B
  <2>3. CASE n \in DOMAIN B
    BY <2>2, <2>3 DEF InScopes!With
  <2>4. CASE n \notin DOMAIN B
    BY <2>2, <2>4 DEF InScopes!With
  <2>5. QED BY <2>3, <2>4
<1> HIDE DEF u, V, B, T
<1> HIDE DEF X, Y
<1>5. T = Replaced(V, 1, [bound |-> X, test |-> g.test])
  <2>1. Rebound(V, 1, X) = Replaced(V, 1, [bound |-> X, test |-> V[1].test])
    BY <1>1, Rescoped
  <2>2. QED BY <1>1, <1>2, <2>1
<1>6. /\ 1 \in DOMAIN T /\ T[1] = [bound |-> T[1].bound, test |-> T[1].test]
      /\ T[1].bound = X /\ T[1].test = g.test
  BY <1>1, <1>5, ReplacedIs
<1>7. Revalued(T, 1, n, v) = Rebound(T, 1, Y)
  <2>1. T[1].bound = X
    BY <1>6
  <2>2. QED BY <1>6, <2>1 DEF Revalued, Rebound, Y
<1>8. ScopesView(u) = Replaced(T, 1, [bound |-> Y, test |-> g.test])
  <2>1. Rebound(T, 1, Y) = Replaced(T, 1, [bound |-> Y, test |-> T[1].test])
    BY <1>6, Rescoped
  <2>2. QED BY <1>3, <1>6, <1>7, <2>1
<1>9. ScopesView(u) = Replaced(V, 1, [bound |-> Y, test |-> g.test])
  BY <1>1, <1>5, <1>8, ReplacedIs
<1>10. ScopesView(u) = Rebound(V, 1, Y)
  <2>1. Rebound(V, 1, Y) = Replaced(V, 1, [bound |-> Y, test |-> V[1].test])
    BY <1>1, Rescoped
  <2>2. QED BY <1>1, <1>9, <2>1
<1>11. QED BY <1>1, <1>3, <1>4, <1>10 DEF u, V, t

LEMMA TestView ==
  ASSUME NEW s, Framed(s), s.frames # << >>, NEW b \in Outcomes
  PROVE  /\ Framed([s EXCEPT !.frames[1].test = b]) /\ Len([s EXCEPT !.frames[1].test = b].frames) = Len(s.frames)
         /\ ScopesView([s EXCEPT !.frames[1].test = b]) = Retested(ScopesView(s), 1, b)
<1> DEFINE g == s.frames[1]
           f == [g EXCEPT !.test = b]
           V == ScopesView(s)
<1>1. 1 \in DOMAIN s.frames /\ 1 \in DOMAIN V
  BY ViewIs
<1>2. g \in FrameType /\ s.top \in Nat /\ s = [top |-> s.top, frames |-> s.frames]
  BY <1>1, ViewIs DEF Framed
<1>3. f \in FrameType /\ f.binds = g.binds /\ f.test = b
  BY <1>2 DEF FrameType
<1>4. [s EXCEPT !.frames[1].test = b] = Changed(s, s.top, 1, f)
  <2>1. [s EXCEPT !.frames[1].test = b] = [s EXCEPT !.frames[1] = f]
    OBVIOUS
  <2> HIDE DEF f
  <2>2. [s EXCEPT !.frames[1] = f] = [top |-> s.top, frames |-> [s.frames EXCEPT ![1] = f]]
    BY <1>2
  <2>3. QED BY <2>1, <2>2 DEF Changed
<1> HIDE DEF f
<1>5. /\ Framed(Changed(s, s.top, 1, f)) /\ Len(Changed(s, s.top, 1, f).frames) = Len(s.frames)
      /\ ScopesView(Changed(s, s.top, 1, f)) = Replaced(V, 1, ScopeOf(f))
  BY <1>1, <1>2, <1>3, ChangedView
<1>6. V[1] = [bound |-> V[1].bound, test |-> V[1].test] /\ V[1].bound = BoundOf(g.binds)
  BY <1>1, ViewIs, ScopeIs
<1>7. Retested(V, 1, b) = Replaced(V, 1, [bound |-> V[1].bound, test |-> b])
  BY <1>1, <1>6, Rescoped
<1>8. ScopeOf(f) = [bound |-> V[1].bound, test |-> b]
  BY <1>3, <1>6, ScopeIs
<1>9. QED BY <1>4, <1>5, <1>7, <1>8

\* A frame on top of the others.
Topped(s, top, f) == [top |-> top, frames |-> <<f>> \o s.frames]

LEMMA ToppedView ==
  ASSUME NEW s, Framed(s), NEW top \in Nat, NEW f \in FrameType
  PROVE  /\ Framed(Topped(s, top, f)) /\ Len(Topped(s, top, f).frames) = Len(s.frames) + 1
         /\ ScopesView(Topped(s, top, f)) = <<ScopeOf(f)>> \o ScopesView(s)
<1> DEFINE t == Topped(s, top, f)
           V == ScopesView(s)
           q == <<ScopeOf(f)>> \o V
<1>1. PICK n \in Nat : n = Len(s.frames)
  BY ViewIs
<1>2. s.frames \in Seq(FrameType) /\ DOMAIN s.frames = 1 .. n
  BY <1>1, ViewIs DEF Framed
<1>3. <<f>> \in Seq(FrameType) /\ Len(<<f>>) = 1 /\ <<f>>[1] = f
  OBVIOUS
<1>4. /\ <<f>> \o s.frames \in Seq(FrameType) /\ Len(<<f>> \o s.frames) = 1 + n
      /\ \A i \in 1 .. 1 + n : (<<f>> \o s.frames)[i] = IF i <= 1 THEN <<f>>[i] ELSE s.frames[i - 1]
  <2>1. /\ <<f>> \o s.frames \in Seq(FrameType) /\ Len(<<f>> \o s.frames) = Len(<<f>>) + Len(s.frames)
        /\ \A i \in 1 .. Len(<<f>>) + Len(s.frames) :
             (<<f>> \o s.frames)[i] = IF i <= Len(<<f>>) THEN <<f>>[i] ELSE s.frames[i - Len(<<f>>)]
    BY <1>2, <1>3, ConcatProperties
  <2>2. QED BY <1>1, <1>3, <2>1
<1>5. t.top = top /\ t.frames = <<f>> \o s.frames /\ t = [top |-> t.top, frames |-> t.frames]
  BY DEF Topped
<1> HIDE DEF t
<1>6. Framed(t) /\ Len(t.frames) = n + 1 /\ DOMAIN t.frames = 1 .. n + 1
  <2>1. Framed(t) /\ Len(t.frames) = n + 1
    BY <1>4, <1>5 DEF Framed
  <2>2. QED BY <2>1, ViewIs
<1>7. t.frames[1] = f /\ \A i \in 1 .. n + 1 : i # 1 => t.frames[i] = s.frames[i - 1]
  BY <1>3, <1>4, <1>5
<1>8. /\ V \in Seq(FrameScopes) /\ Len(V) = n /\ DOMAIN V = 1 .. n
      /\ \A d \in 1 .. n : V[d] = ScopeOf(s.frames[d])
  BY <1>1, <1>2, ViewIs
<1> DEFINE x == ScopeOf(f)
<1>9. x \in FrameScopes
  BY DEF FrameScopes
<1> HIDE DEF x, V
<1>10. <<x>> \in Seq(FrameScopes) /\ Len(<<x>>) = 1 /\ <<x>>[1] = x
  BY <1>9
<1>11. /\ q \in Seq(FrameScopes) /\ Len(q) = n + 1 /\ q[1] = x
       /\ \A i \in 1 .. n + 1 : i # 1 => q[i] = V[i - 1]
  <2>1. /\ <<x>> \o V \in Seq(FrameScopes) /\ Len(<<x>> \o V) = Len(<<x>>) + Len(V)
        /\ \A i \in 1 .. Len(<<x>>) + Len(V) :
             (<<x>> \o V)[i] = IF i <= Len(<<x>>) THEN <<x>>[i] ELSE V[i - Len(<<x>>)]
    BY <1>8, <1>10, ConcatProperties
  <2>2. q = <<x>> \o V
    BY DEF x
  <2> HIDE DEF q
  <2>3. QED BY <1>8, <1>10, <2>1, <2>2
<1> HIDE DEF q
<1>12. ASSUME NEW d \in DOMAIN t.frames PROVE q[d] = ScopeOf(t.frames[d])
  <2>1. CASE d = 1
    BY <1>7, <1>11, <2>1 DEF x
  <2>2. CASE d # 1
    <3>1. d \in 1 .. n + 1 /\ d - 1 \in 1 .. n
      BY <1>6, <2>2
    <3>2. QED BY <1>7, <1>8, <1>11, <2>2, <3>1
  <2>3. QED BY <2>1, <2>2
<1>13. ScopesView(t) = q
  BY <1>6, <1>11, <1>12, ViewEquals
<1>14. QED BY <1>1, <1>6, <1>13 DEF t, q, V

\* The frames but for the innermost m.
Left(s, top, m) == [top |-> top, frames |-> SubSeq(s.frames, m + 1, Len(s.frames))]

LEMMA LeftView ==
  ASSUME NEW s, Framed(s), NEW top \in Nat, NEW m \in 0 .. Len(s.frames)
  PROVE  /\ Framed(Left(s, top, m)) /\ Len(Left(s, top, m).frames) = Len(s.frames) - m
         /\ ScopesView(Left(s, top, m)) = SubSeq(ScopesView(s), m + 1, Len(ScopesView(s)))
<1> DEFINE t == Left(s, top, m)
           V == ScopesView(s)
           q == SubSeq(V, m + 1, Len(V))
<1>1. PICK n \in Nat : n = Len(s.frames) /\ Len(V) = n
  BY ViewIs
<1>2. DOMAIN s.frames = 1 .. n /\ \A d \in 1 .. n : s.frames[d] \in FrameType /\ V[d] = ScopeOf(s.frames[d])
  BY <1>1, ViewIs
<1>3. m \in 0 .. n /\ m \in Nat /\ m + 1 \in Int /\ \A i \in m + 1 .. n : i \in 1 .. n
  BY <1>1
<1>4. \A i \in m + 1 .. n : s.frames[i] \in FrameType /\ V[i] \in FrameScopes
  BY <1>2, <1>3 DEF FrameScopes
<1>5. t.top = top /\ t.frames = SubSeq(s.frames, m + 1, n) /\ t = [top |-> t.top, frames |-> t.frames]
  BY <1>1 DEF Left
<1>6. q = SubSeq(V, m + 1, n)
  BY <1>1
<1> HIDE DEF t, q, V
<1>7. n - (m + 1) + 1 = n - m /\ (IF m + 1 <= n THEN n - (m + 1) + 1 ELSE 0) = n - m
      /\ \A i \in 1 .. n - m : (m + 1) + i - 1 = m + i
  BY <1>3
<1>8. /\ t.frames \in Seq(FrameType) /\ Len(t.frames) = n - m
      /\ \A i \in 1 .. n - m : t.frames[i] = s.frames[m + i]
  <2>1. /\ SubSeq(s.frames, m + 1, n) \in Seq(FrameType)
        /\ Len(SubSeq(s.frames, m + 1, n)) = IF m + 1 <= n THEN n - (m + 1) + 1 ELSE 0
        /\ \A i \in 1 .. n - (m + 1) + 1 : SubSeq(s.frames, m + 1, n)[i] = s.frames[(m + 1) + i - 1]
    BY <1>3, <1>4, SubSeqProperties
  <2>2. QED BY <1>5, <1>7, <2>1
<1>9. /\ q \in Seq(FrameScopes) /\ Len(q) = n - m
      /\ \A i \in 1 .. n - m : q[i] = V[m + i]
  <2>1. /\ SubSeq(V, m + 1, n) \in Seq(FrameScopes)
        /\ Len(SubSeq(V, m + 1, n)) = IF m + 1 <= n THEN n - (m + 1) + 1 ELSE 0
        /\ \A i \in 1 .. n - (m + 1) + 1 : SubSeq(V, m + 1, n)[i] = V[(m + 1) + i - 1]
    BY <1>3, <1>4, SubSeqProperties
  <2>2. QED BY <1>6, <1>7, <2>1
<1>10. Framed(t)
  BY <1>5, <1>8 DEF Framed
<1>11. DOMAIN t.frames = 1 .. n - m
  BY <1>8, <1>10, ViewIs
<1>12. ASSUME NEW d \in DOMAIN t.frames PROVE q[d] = ScopeOf(t.frames[d])
  <2>1. d \in 1 .. n - m /\ m + d \in 1 .. n
    BY <1>3, <1>11
  <2>2. QED BY <1>2, <1>8, <1>9, <2>1
<1>13. ScopesView(t) = q
  BY <1>8, <1>9, <1>10, <1>12, ViewEquals
<1>14. QED BY <1>1, <1>8, <1>10, <1>13 DEF t, q, V

\* Writing over the first of a sequence is dropping it and putting another.
LEMMA OverFirst ==
  ASSUME NEW S, NEW q \in Seq(S), q # << >>, NEW x \in S
  PROVE  Replaced(q, 1, x) = <<x>> \o Tail(q)
<1> DEFINE r == Replaced(q, 1, x)
           y == <<x>> \o Tail(q)
<1>1. PICK n \in Nat \ {0} : n = Len(q)
  BY LenProperties, EmptySeq
<1>2. DOMAIN q = 1 .. n /\ r = [q EXCEPT ![1] = x]
  BY <1>1, LenProperties DEF Replaced
<1>3. r \in Seq(S) /\ Len(r) = n /\ r[1] = x /\ \A i \in 1 .. n : i # 1 => r[i] = q[i]
  BY <1>1, <1>2, ExceptSeq
<1>4. Tail(q) \in Seq(S) /\ Len(Tail(q)) = n - 1 /\ \A i \in 1 .. n - 1 : Tail(q)[i] = q[i + 1]
  BY <1>1, HeadTailProperties
<1>5. <<x>> \in Seq(S) /\ Len(<<x>>) = 1 /\ <<x>>[1] = x
  OBVIOUS
<1>6. /\ y \in Seq(S) /\ Len(y) = n
      /\ \A i \in 1 .. n : y[i] = IF i <= 1 THEN x ELSE Tail(q)[i - 1]
  <2>1. /\ <<x>> \o Tail(q) \in Seq(S) /\ Len(<<x>> \o Tail(q)) = Len(<<x>>) + Len(Tail(q))
        /\ \A i \in 1 .. Len(<<x>>) + Len(Tail(q)) :
             (<<x>> \o Tail(q))[i] = IF i <= Len(<<x>>) THEN <<x>>[i] ELSE Tail(q)[i - Len(<<x>>)]
    BY <1>4, <1>5, ConcatProperties
  <2>2. Len(<<x>>) + Len(Tail(q)) = n
    BY <1>4, <1>5
  <2>3. QED BY <1>5, <2>1, <2>2
<1> HIDE DEF r, y
<1>7. ASSUME NEW i \in 1 .. n PROVE r[i] = y[i]
  <2>1. CASE i = 1
    BY <1>3, <1>6, <2>1
  <2>2. CASE i # 1
    <3>1. i - 1 \in 1 .. n - 1 /\ (i - 1) + 1 = i /\ ~ (i <= 1)
      BY <2>2
    <3>2. y[i] = Tail(q)[i - 1] /\ Tail(q)[i - 1] = q[i]
      BY <1>4, <1>6, <3>1
    <3>3. QED BY <1>3, <2>2, <3>2
  <2>3. QED BY <2>1, <2>2
<1>8. r = y
  BY <1>3, <1>6, <1>7, SeqEqual
<1>9. QED BY <1>8 DEF r, y

\* A frame made for a call is the scope of the call.
LEMMA NewFrameScope ==
  ASSUME NEW at \in Nat, NEW size \in Nat, NEW text \in Texts, NEW T \in SUBSET Things,
         NEW args \in [1 .. Len(InputsOf[text]) -> T]
  PROVE  /\ NewFrame(at, size, text, args) \in FrameType
         /\ ScopeOf(NewFrame(at, size, text, args)) = InScopes!Scope(text, args)
<1> DEFINE f == NewFrame(at, size, text, args)
           b == Bound(InputsOf[text], args)
<1>1. b \in Seq(BindType) /\ Len(args) \in Nat
  BY BoundIs
<1>2. f = [at |-> at, size |-> size, inputs |-> Len(args), binds |-> b, test |-> Untested]
  BY DEF NewFrame
<1> HIDE DEF b
<1>3. f \in FrameType /\ f.binds = b /\ f.test = Untested
  BY <1>1, <1>2 DEF FrameType
<1> HIDE DEF f
<1>4. ScopeOf(f) = [bound |-> BoundOf(b), test |-> Untested]
  BY <1>3, ScopeIs
<1>5. QED BY <1>3, <1>4, ArgumentsBound DEF f, b

LEMMA PushView ==
  ASSUME NEW s, Framed(s), NEW text \in Texts, NEW T \in SUBSET Things,
         NEW args \in [1 .. Len(InputsOf[text]) -> T]
  PROVE  \/ frame_push(s, text, args) = s
         \/ /\ Framed(frame_push(s, text, args))
            /\ Len(frame_push(s, text, args).frames) = Len(s.frames) + 1
            /\ ScopesView(frame_push(s, text, args)) = <<InScopes!Scope(text, args)>> \o ScopesView(s)
<1> DEFINE size == FRAME_HEADER_WORDS + Len(args) * BINDING_WORDS + SpareWords
           top  == s.top + size
           f    == NewFrame(s.top, size, text, args)
<1>1. PICK n \in Nat : n = Len(args)
  BY BoundIs
<1>2. PICK room \in Nat : room = n * BINDING_WORDS
  BY Times
<1>3. s.top \in Nat
  BY DEF Framed
<1>4. size \in Nat /\ top \in Nat
  <2>1. size = FRAME_HEADER_WORDS + room + SpareWords
    BY <1>1, <1>2
  <2>2. QED BY <1>3, <2>1, Sizes
<1>5. frame_push(s, text, args) = s \/ frame_push(s, text, args) = Topped(s, top, f)
  BY DEF frame_push, Topped
<1> HIDE DEF size, top
<1>6. f \in FrameType /\ ScopeOf(f) = InScopes!Scope(text, args)
  BY <1>3, <1>4, NewFrameScope
<1> HIDE DEF f
<1>7. /\ Framed(Topped(s, top, f)) /\ Len(Topped(s, top, f).frames) = Len(s.frames) + 1
      /\ ScopesView(Topped(s, top, f)) = <<ScopeOf(f)>> \o ScopesView(s)
  BY <1>4, <1>6, ToppedView
<1>8. QED BY <1>5, <1>6, <1>7

LEMMA ReuseView ==
  ASSUME NEW s, Framed(s), s.frames # << >>, NEW text \in Texts, NEW T \in SUBSET Things,
         NEW args \in [1 .. Len(InputsOf[text]) -> T]
  PROVE  /\ Framed(frame_reuse(s, text, args))
         /\ Len(frame_reuse(s, text, args).frames) = Len(s.frames)
         /\ ScopesView(frame_reuse(s, text, args)) = <<InScopes!Scope(text, args)>> \o Tail(ScopesView(s))
<1> DEFINE g == s.frames[1]
           f == NewFrame(g.at, g.size, text, args)
           V == ScopesView(s)
<1>1. 1 \in DOMAIN s.frames /\ V \in Seq(FrameScopes) /\ V # << >>
  BY ViewIs
<1>2. g.at \in Nat /\ g.size \in Nat
  <2>1. g \in FrameType
    BY <1>1, ViewIs
  <2>2. QED BY <2>1 DEF FrameType
<1>3. s.top \in Nat /\ s = [top |-> s.top, frames |-> s.frames]
  BY DEF Framed
<1>4. f \in FrameType /\ ScopeOf(f) = InScopes!Scope(text, args)
  BY <1>2, NewFrameScope
<1>5. frame_reuse(s, text, args) = Changed(s, s.top, 1, f)
  <2>1. frame_reuse(s, text, args) = [s EXCEPT !.frames[1] = f]
    BY DEF frame_reuse
  <2> HIDE DEF f
  <2>2. [s EXCEPT !.frames[1] = f] = [top |-> s.top, frames |-> [s.frames EXCEPT ![1] = f]]
    BY <1>3
  <2>3. QED BY <2>1, <2>2 DEF Changed
<1> HIDE DEF f
<1>6. /\ Framed(Changed(s, s.top, 1, f)) /\ Len(Changed(s, s.top, 1, f).frames) = Len(s.frames)
      /\ ScopesView(Changed(s, s.top, 1, f)) = Replaced(V, 1, ScopeOf(f))
  BY <1>1, <1>3, <1>4, ChangedView
<1>7. ScopeOf(f) \in FrameScopes
  BY <1>4 DEF FrameScopes
<1>8. Replaced(V, 1, ScopeOf(f)) = <<ScopeOf(f)>> \o Tail(V)
  BY <1>1, <1>7, OverFirst
<1>9. QED BY <1>4, <1>5, <1>6, <1>8

LEMMA PopView ==
  ASSUME NEW s, Framed(s), s.frames # << >>
  PROVE  /\ Framed(frame_pop(s)) /\ Len(frame_pop(s).frames) = Len(s.frames) - 1
         /\ ScopesView(frame_pop(s)) = Tail(ScopesView(s))
         /\ ScopesView(frame_pop(s)) = SubSeq(ScopesView(s), 1 + 1, Len(ScopesView(s)))
<1> DEFINE V == ScopesView(s)
           t == Left(s, s.frames[1].at, 1)
<1>1. PICK n \in Nat \ {0} : n = Len(s.frames)
  BY ViewIs
<1>2. 1 \in DOMAIN s.frames /\ V \in Seq(FrameScopes) /\ V # << >> /\ s.frames \in Seq(FrameType)
  BY ViewIs DEF Framed
<1>3. s.frames[1].at \in Nat /\ 1 \in 0 .. Len(s.frames)
  <2>1. s.frames[1] \in FrameType
    BY <1>2, ViewIs
  <2>2. QED BY <1>1, <2>1 DEF FrameType
<1>4. Tail(s.frames) = SubSeq(s.frames, 2, Len(s.frames)) /\ Tail(V) = SubSeq(V, 2, Len(V))
  BY <1>2, TailIsSubSeq
<1>5. frame_pop(s) = t
  <2>1. 1 + 1 = 2
    OBVIOUS
  <2>2. t = [top |-> s.frames[1].at, frames |-> SubSeq(s.frames, 2, Len(s.frames))]
    BY <2>1 DEF Left
  <2>3. QED BY <1>4, <2>2 DEF frame_pop
<1>6. /\ Framed(t) /\ Len(t.frames) = Len(s.frames) - 1
      /\ ScopesView(t) = SubSeq(V, 1 + 1, Len(V))
  BY <1>3, LeftView
<1>7. QED BY <1>4, <1>5, <1>6

LEMMA RestoreView ==
  ASSUME NEW s, Framed(s), NEW snap, snap.depth \in 0 .. Len(s.frames), snap.top \in Nat
  PROVE  LET t == frame_stack_restore(s, snap)
             m == Len(s.frames) - snap.depth
         IN  /\ Framed(t) /\ m \in 0 .. Len(s.frames)
             /\ ScopesView(t) = SubSeq(ScopesView(s), m + 1, Len(ScopesView(s)))
<1> DEFINE top == IF snap.top <= s.top THEN snap.top ELSE s.top
           m == Len(s.frames) - snap.depth
<1>1. top \in Nat /\ m \in 0 .. Len(s.frames)
  <2>1. Len(s.frames) \in Nat /\ s.top \in Nat
    BY ViewIs DEF Framed
  <2>2. QED BY <2>1
<1>2. frame_stack_restore(s, snap) = Left(s, top, m)
  BY DEF frame_stack_restore, Outermost, Left
<1> HIDE DEF top, m
<1>3. /\ Framed(Left(s, top, m))
      /\ ScopesView(Left(s, top, m)) = SubSeq(ScopesView(s), m + 1, Len(ScopesView(s)))
  BY <1>1, LeftView
<1>4. QED BY <1>1, <1>2, <1>3 DEF m

\* Both look for the innermost scope that binds a name.
LEMMA BinderView ==
  ASSUME Framed(stack), NEW w \in Words
  PROVE  /\ InScopes!BinderOf(Fold[w]) = BinderOf(stack, w)
         /\ BinderOf(stack, w) # 0 => /\ BinderOf(stack, w) \in DOMAIN stack.frames
                                      /\ frame_find(stack.frames[BinderOf(stack, w)], w) # 0
<1> DEFINE V == ScopesView(stack)
           mine == {d \in DOMAIN stack.frames : frame_find(stack.frames[d], w) # 0}
           theirs == {i \in 1 .. Len(V) : Fold[w] \in DOMAIN V[i].bound}
<1>1. /\ DOMAIN stack.frames = 1 .. Len(V) /\ Len(V) \in Nat
      /\ \A d \in DOMAIN stack.frames : V[d] = ScopeOf(stack.frames[d]) /\ stack.frames[d] \in FrameType
  BY ViewIs
<1>2. ASSUME NEW d \in DOMAIN stack.frames
      PROVE  frame_find(stack.frames[d], w) # 0 <=> Fold[w] \in DOMAIN V[d].bound
  <2>1. stack.frames[d].binds \in Seq(BindType)
    BY <1>1 DEF FrameType
  <2>2. V[d].bound = BoundOf(stack.frames[d].binds)
    BY <1>1, ScopeIs
  <2>3. QED BY <2>1, <2>2, BindingFound
<1>3. mine = theirs
  BY <1>1, <1>2
<1>4. mine \in SUBSET Nat
  BY <1>1
<1>5. mine # {} => First(mine) \in mine
  BY <1>4, FirstIs
<1>6. InScopes!BinderOf(Fold[w]) = IF theirs = {} THEN 0 ELSE First(theirs)
  BY DEF InScopes!BinderOf, First
<1>7. BinderOf(stack, w) = IF mine = {} THEN 0 ELSE First(mine)
  BY DEF BinderOf
<1> HIDE DEF theirs
<1>8. QED BY <1>3, <1>5, <1>6, <1>7

-----------------------------------------------------------------------------
(* Every step.  What a step leaves alone, its view leaves alone.           *)

\* A pause remembers how many frames there were, and they are still there.
SnapOK == paused # << >> => paused[1].depth \in 0 .. Len(stack.frames) /\ paused[1].top \in Nat

ViewsInv  == Unique(procs) /\ PrimsInv /\ PropsOK(props) /\ Framed(stack) /\ SnapOK
ScopesInv == GlobalsInv /\ NamesInv /\ ViewsInv /\ PendingInv

ScopesStep == ViewsInv' /\ [InScopes!Next \/ ForgetsLocals]_(InScopes!vars)

LEMMA Folded ==
  ASSUME ScopesInv
  PROVE  /\ \A w \in program.words : w \in Words /\ Fold[w] \in FoldedWords(Words)
         /\ \A v \in program.things : v \in Things
         /\ program.things \in SUBSET Things
  BY Speaks DEF ScopesInv, GlobalsInv, FoldedWords

LEMMA Stutters ==
  ASSUME ScopesInv, UNCHANGED <<globals, stack, paused, topTest, procs, prims, props>>
  PROVE  ScopesStep
<1>1. ViewsInv'
  BY DEF ScopesInv, ViewsInv, PrimsInv, SnapOK
<1>2. UNCHANGED InScopes!vars
  BY DEF InScopes!vars
<1>3. QED BY <1>1, <1>2 DEF ScopesStep

\* A step of the globals alone.
GlobalsStep(g) == globals' = g /\ UNCHANGED <<stack, paused, topTest, procs, prims, props>>

LEMMA GlobalsViews ==
  ASSUME ScopesInv, NEW g, GlobalsStep(g)
  PROVE  /\ ViewsInv' /\ GlobalsView(globals)' = GlobalsView(g)
         /\ UNCHANGED <<ScopesView(stack), topTest, DefinedView(procs), AliasesView(prims), PlistsView(props)>>
<1>1. ViewsInv'
  BY DEF GlobalsStep, ScopesInv, ViewsInv, PrimsInv, SnapOK
<1>2. QED BY <1>1 DEF GlobalsStep

\* A step of the frames alone.
FramesStep(s) == stack' = s /\ UNCHANGED <<globals, paused, topTest, procs, prims, props>>

LEMMA FramesViews ==
  ASSUME ScopesInv, NEW s, FramesStep(s), Framed(s),
         Len(s.frames) >= Len(stack.frames) \/ (Own /\ Len(s.frames) >= Len(stack.frames) - 1)
  PROVE  /\ ViewsInv' /\ ScopesView(stack)' = ScopesView(s)
         /\ UNCHANGED <<GlobalsView(globals), topTest, DefinedView(procs), AliasesView(prims), PlistsView(props)>>
<1>1. Len(s.frames) \in Nat /\ Len(stack.frames) \in Nat /\ SnapOK
  BY ViewIs DEF ScopesInv, ViewsInv
<1>2. SnapOK'
  <2>1. SUFFICES ASSUME paused # << >>
                 PROVE  paused[1].depth \in 0 .. Len(s.frames) /\ paused[1].top \in Nat
    BY DEF SnapOK, FramesStep
  <2>2. PICK d \in Nat : d = paused[1].depth /\ d <= Len(stack.frames) /\ paused[1].top \in Nat
    BY <1>1, <2>1 DEF SnapOK
  <2>3. Own => Len(stack.frames) > d
    BY <2>1, <2>2 DEF Own
  <2>4. d <= Len(s.frames)
    BY <1>1, <2>2, <2>3
  <2>5. QED BY <1>1, <2>2, <2>4
<1>3. ViewsInv'
  BY <1>2 DEF FramesStep, ScopesInv, ViewsInv, PrimsInv
<1>4. QED BY <1>3 DEF FramesStep

LEMMA MakeStep ==
  ASSUME ScopesInv, NEW w \in program.words, NEW v \in program.things, Make(w, v)
  PROVE  ScopesStep
<1> DEFINE d == BinderOf(stack, w)
<1>1. w \in Words /\ v \in Things /\ Fold[w] \in FoldedWords(Words)
  BY Folded
<1>2. Framed(stack) /\ Shaped(globals) /\ Indexed(globals)
  BY DEF ScopesInv, ViewsInv, GlobalsInv
<1>3. InScopes!BinderOf(Fold[w]) = d
      /\ (d # 0 => d \in DOMAIN stack.frames /\ frame_find(stack.frames[d], w) # 0)
  BY <1>1, <1>2, BinderView
<1> HIDE DEF d
<1>4. CASE d # 0
  <2> DEFINE s == SetBinding(stack, d, w, v)
  <2>1. FramesStep(s)
    BY <1>4 DEF Make, Locals, FramesStep, d
  <2>2. Framed(s) /\ Len(s.frames) = Len(stack.frames) /\ Len(stack.frames) \in Nat
        /\ ScopesView(s) = [ScopesView(stack) EXCEPT ![d].bound[Fold[w]] = v]
    BY <1>1, <1>2, <1>3, <1>4, SetBindingView, ViewIs DEF Revalued
  <2> HIDE DEF s
  <2>3. /\ ViewsInv' /\ ScopesView(stack)' = ScopesView(s)
        /\ UNCHANGED <<GlobalsView(globals), topTest, DefinedView(procs), AliasesView(prims), PlistsView(props)>>
    BY <2>1, <2>2, FramesViews
  <2>4. InScopes!Make(Fold[w], v)
    BY <1>3, <1>4, <2>2, <2>3 DEF InScopes!Make
  <2>5. InScopes!Next
    BY <1>1, <2>4 DEF InScopes!Next
  <2>6. QED BY <2>3, <2>5 DEF ScopesStep
<1>5. CASE d = 0
  <2> DEFINE g == GlobalSet(globals, w, v)
  <2>1. GlobalsStep(g)
    BY <1>5 DEF Make, Globals, GlobalsStep, d
  <2>2. \/ GlobalsView(g) = GlobalsView(globals)
        \/ GlobalsView(g) = InScopes!With(GlobalsView(globals), Fold[w],
                              [thing |-> v, buried |-> Fold[w] \in DOMAIN GlobalsView(globals)
                                                       /\ GlobalsView(globals)[Fold[w]].buried])
    BY <1>1, <1>2, GlobalSetView
  <2> HIDE DEF g
  <2>3. /\ ViewsInv' /\ GlobalsView(globals)' = GlobalsView(g)
        /\ UNCHANGED <<ScopesView(stack), topTest, DefinedView(procs), AliasesView(prims), PlistsView(props)>>
    BY <2>1, GlobalsViews
  <2>4. UNCHANGED InScopes!vars \/ InScopes!Make(Fold[w], v)
    BY <1>3, <1>5, <2>2, <2>3 DEF InScopes!vars, InScopes!Make, InScopes!GlobalThing
  <2>5. [InScopes!Next]_(InScopes!vars)
    BY <1>1, <2>4 DEF InScopes!Next
  <2>6. QED BY <2>3, <2>5 DEF ScopesStep
<1>6. QED BY <1>4, <1>5

LEMMA LocalStep ==
  ASSUME ScopesInv, NEW w \in program.words, Local(w)
  PROVE  ScopesStep
<1>1. w \in Words /\ Fold[w] \in FoldedWords(Words)
  BY Folded
<1>2. Framed(stack) /\ Shaped(globals) /\ Indexed(globals)
  BY DEF ScopesInv, ViewsInv, GlobalsInv
<1>3. ScopesView(stack) = << >> <=> ~InProcedure
  BY <1>2, ViewIs DEF InProcedure
<1>4. CASE InProcedure /\ NoRoomToCount(stack.frames[1])
  <2> DEFINE s == frame_add_local(stack, w)
  <2>1. FramesStep(s) /\ stack.frames # << >>
    BY <1>4 DEF Local, Locals, FramesStep, InProcedure
  <2>2. Framed(s) /\ Len(s.frames) = Len(stack.frames) /\ Len(stack.frames) \in Nat
    BY <1>1, <1>2, <1>4, <2>1, NoRoomView, ViewIs
  <2> HIDE DEF s
  <2>3. ViewsInv'
    BY <2>1, <2>2, FramesViews
  <2>4. ForgetsLocals
    BY <1>4 DEF ForgetsLocals
  <2>5. QED BY <2>3, <2>4 DEF ScopesStep
<1>5. CASE InProcedure /\ ~ NoRoomToCount(stack.frames[1])
  <2> DEFINE s == frame_add_local(stack, w)
             B == ScopesView(stack)[1].bound
  <2>1. FramesStep(s) /\ stack.frames # << >>
    BY <1>5 DEF Local, Locals, FramesStep, InProcedure
  <2>2. /\ Framed(s) /\ Len(s.frames) = Len(stack.frames) /\ Len(stack.frames) \in Nat
        /\ ScopesView(s) = Rebound(ScopesView(stack), 1, IF Fold[w] \in DOMAIN B THEN B
                                     ELSE InScopes!With(B, Fold[w], NoThing))
    BY <1>1, <1>2, <1>5, <2>1, AddLocalView, ViewIs
  <2> HIDE DEF s
  <2>3. /\ ViewsInv' /\ ScopesView(stack)' = ScopesView(s)
        /\ UNCHANGED <<GlobalsView(globals), topTest, DefinedView(procs), AliasesView(prims), PlistsView(props)>>
    BY <2>1, <2>2, FramesViews
  <2>4. InScopes!Local(Fold[w])
    BY <1>3, <1>5, <2>2, <2>3 DEF InScopes!Local, Rebound
  <2>5. InScopes!Next
    BY <1>1, <2>4 DEF InScopes!Next
  <2>6. QED BY <2>3, <2>5 DEF ScopesStep
<1>6. CASE ~InProcedure
  <2> DEFINE g == GlobalDeclare(globals, w)
  <2>1. GlobalsStep(g)
    BY <1>6 DEF Local, Globals, GlobalsStep
  <2>2. \/ GlobalsView(g) = GlobalsView(globals)
        \/ /\ Fold[w] \notin DOMAIN GlobalsView(globals)
           /\ GlobalsView(g) = InScopes!With(GlobalsView(globals), Fold[w], [thing |-> NoThing, buried |-> FALSE])
    BY <1>1, <1>2, GlobalDeclareView
  <2> HIDE DEF g
  <2>3. /\ ViewsInv' /\ GlobalsView(globals)' = GlobalsView(g)
        /\ UNCHANGED <<ScopesView(stack), topTest, DefinedView(procs), AliasesView(prims), PlistsView(props)>>
    BY <2>1, GlobalsViews
  <2>4. UNCHANGED InScopes!vars \/ InScopes!Local(Fold[w])
    BY <1>3, <1>6, <2>2, <2>3 DEF InScopes!vars, InScopes!Local
  <2>5. [InScopes!Next]_(InScopes!vars)
    BY <1>1, <2>4 DEF InScopes!Next
  <2>6. QED BY <2>3, <2>5 DEF ScopesStep
<1>7. QED BY <1>4, <1>5, <1>6

LEMMA LocalmakeStep ==
  ASSUME ScopesInv, NEW w \in program.words, NEW v \in program.things, Localmake(w, v)
  PROVE  ScopesStep
<1>1. w \in Words /\ v \in Things /\ Fold[w] \in FoldedWords(Words)
  BY Folded
<1>2. Framed(stack) /\ Shaped(globals) /\ Indexed(globals)
  BY DEF ScopesInv, ViewsInv, GlobalsInv
<1>3. ScopesView(stack) = << >> <=> ~InProcedure
  BY <1>2, ViewIs DEF InProcedure
<1>4. CASE InProcedure /\ NoRoomToCount(stack.frames[1])
  <2> DEFINE t == frame_add_local(stack, w)
             s == Assigned(t, w, v)
  <2>1. stack' = s /\ UNCHANGED <<paused, procs, prims, props>> /\ stack.frames # << >>
    BY <1>4 DEF Localmake, InProcedure
  <2>2. Framed(t) /\ Len(t.frames) = Len(stack.frames)
    BY <1>1, <1>2, <1>4, <2>1, NoRoomView
  <2> HIDE DEF t
  <2>3. Framed(s) /\ Len(s.frames) = Len(stack.frames)
    BY <1>1, <2>2, AssignedView
  <2> HIDE DEF s
  <2>4. SnapOK'
    BY <2>1, <2>3 DEF SnapOK, ScopesInv, ViewsInv
  <2>5. ViewsInv'
    BY <2>1, <2>3, <2>4 DEF ScopesInv, ViewsInv, PrimsInv
  <2>6. ForgetsLocals
    BY <1>4 DEF ForgetsLocals
  <2>7. QED BY <2>5, <2>6 DEF ScopesStep
<1>5. CASE InProcedure /\ ~ NoRoomToCount(stack.frames[1])
  <2> DEFINE t == frame_add_local(stack, w)
             s == SetBinding(t, 1, w, v)
             B == ScopesView(stack)[1].bound
  <2>1. stack.frames # << >> /\ UNCHANGED <<paused, topTest, procs, prims, props>>
        /\ stack' = Assigned(t, w, v)
        /\ globals' = IF BinderOf(t, w) # 0 THEN globals ELSE GlobalSet(globals, w, v)
    BY <1>5 DEF Localmake, InProcedure
  <2>2. Framed(t) /\ Len(t.frames) = Len(stack.frames) /\ 1 \in DOMAIN t.frames
        /\ frame_find(t.frames[1], w) # 0
    BY <1>1, <1>2, <1>5, <2>1, AddLocalView
  <2>3. t.frames # << >>
    BY <2>2, ViewIs
  <2>4. BinderOf(t, w) = 1
    BY <2>2, <2>3, BoundFirst
  <2>5. FramesStep(s) /\ stack.frames # << >>
    BY <2>1, <2>4 DEF Assigned, FramesStep
  <2>6. /\ Framed(s) /\ Len(s.frames) = Len(stack.frames) /\ Len(stack.frames) \in Nat
        /\ ScopesView(s) = Rebound(ScopesView(stack), 1, InScopes!With(B, Fold[w], v))
    BY <1>1, <1>2, <1>5, <2>5, LocalmakeView, ViewIs
  <2> HIDE DEF s
  <2>7. /\ ViewsInv' /\ ScopesView(stack)' = ScopesView(s)
        /\ UNCHANGED <<GlobalsView(globals), topTest, DefinedView(procs), AliasesView(prims), PlistsView(props)>>
    BY <2>5, <2>6, FramesViews
  <2>8. InScopes!LocalMake(Fold[w], v)
    BY <1>3, <1>5, <2>6, <2>7 DEF InScopes!LocalMake, Rebound
  <2>9. InScopes!Next
    BY <1>1, <2>8 DEF InScopes!Next
  <2>10. QED BY <2>7, <2>9 DEF ScopesStep
<1>6. CASE ~InProcedure
  <2> DEFINE g == GlobalSet(globals, w, v)
  <2>1. GlobalsStep(g)
    BY <1>6 DEF Localmake, Globals, GlobalsStep
  <2>2. \/ GlobalsView(g) = GlobalsView(globals)
        \/ GlobalsView(g) = InScopes!With(GlobalsView(globals), Fold[w],
                              [thing |-> v, buried |-> Fold[w] \in DOMAIN GlobalsView(globals)
                                                       /\ GlobalsView(globals)[Fold[w]].buried])
    BY <1>1, <1>2, GlobalSetView
  <2> HIDE DEF g
  <2>3. /\ ViewsInv' /\ GlobalsView(globals)' = GlobalsView(g)
        /\ UNCHANGED <<ScopesView(stack), topTest, DefinedView(procs), AliasesView(prims), PlistsView(props)>>
    BY <2>1, GlobalsViews
  <2>4. UNCHANGED InScopes!vars \/ InScopes!LocalMake(Fold[w], v)
    BY <1>3, <1>6, <2>2, <2>3 DEF InScopes!vars, InScopes!LocalMake, InScopes!GlobalThing
  <2>5. [InScopes!Next]_(InScopes!vars)
    BY <1>1, <2>4 DEF InScopes!Next
  <2>6. QED BY <2>3, <2>5 DEF ScopesStep
<1>7. QED BY <1>4, <1>5, <1>6

\* ern, erns
LEMMA ErnStep ==
  ASSUME ScopesInv, NEW w \in program.words, Ern(w)
  PROVE  ScopesStep
<1>1. w \in Words /\ Fold[w] \in FoldedWords(Words)
  BY Folded
<1>2. Shaped(globals) /\ Indexed(globals)
  BY DEF ScopesInv, GlobalsInv
<1> DEFINE g == EraseGlobals(globals, {find_global(globals, w)})
<1>3. GlobalsStep(g)
  BY DEF Ern, Globals, GlobalsStep
<1>4. GlobalsView(g) = InScopes!Without(GlobalsView(globals), {Fold[w]})
  BY <1>1, <1>2, OneName, EraseGlobalsView
<1> HIDE DEF g
<1>5. /\ ViewsInv' /\ GlobalsView(globals)' = GlobalsView(g)
      /\ UNCHANGED <<ScopesView(stack), topTest, DefinedView(procs), AliasesView(prims), PlistsView(props)>>
  BY <1>3, GlobalsViews
<1>6. InScopes!EraseNames({Fold[w]})
  BY <1>4, <1>5 DEF InScopes!EraseNames
<1>7. InScopes!Next
  BY <1>1, <1>6 DEF InScopes!Next
<1>8. QED BY <1>5, <1>7 DEF ScopesStep

LEMMA ErnsStep ==
  ASSUME ScopesInv, Erns
  PROVE  ScopesStep
<1>1. Shaped(globals) /\ Indexed(globals)
  BY DEF ScopesInv, GlobalsInv
<1> DEFINE gone == {i \in Active(globals) : ~globals.slots[i].buried}
           g == EraseGlobals(globals, gone)
<1>2. GlobalsStep(g)
  BY DEF Erns, Globals, GlobalsStep
<1>3. \A i \in Active(globals) : i \in gone <=> Fold[globals.slots[i].name] \in InScopes!Unburied
  BY <1>1, SomeNames DEF InScopes!Unburied
<1> HIDE DEF gone
<1>4. GlobalsView(g) = InScopes!Without(GlobalsView(globals), InScopes!Unburied)
  BY <1>1, <1>3, EraseGlobalsView
<1> HIDE DEF g
<1>5. /\ ViewsInv' /\ GlobalsView(globals)' = GlobalsView(g)
      /\ UNCHANGED <<ScopesView(stack), topTest, DefinedView(procs), AliasesView(prims), PlistsView(props)>>
  BY <1>2, GlobalsViews
<1>6. InScopes!EraseNames(InScopes!Unburied)
  BY <1>4, <1>5 DEF InScopes!EraseNames
<1>7. InScopes!Next
  BY <1>6 DEF InScopes!Next
<1>8. QED BY <1>5, <1>7 DEF ScopesStep

LEMMA BurynameStep ==
  ASSUME ScopesInv, NEW w \in program.words, NEW way \in BOOLEAN, Buryname(w, way)
  PROVE  ScopesStep
<1>1. w \in Words /\ Fold[w] \in FoldedWords(Words)
  BY Folded
<1>2. Shaped(globals) /\ Indexed(globals)
  BY DEF ScopesInv, GlobalsInv
<1> DEFINE g == BuryGlobals(globals, {find_global(globals, w)}, way)
           V == GlobalsView(globals)
<1>3. GlobalsStep(g)
  BY DEF Buryname, Globals, GlobalsStep
<1>4. GlobalsView(g) = Laid(V, {Fold[w]}, way)
  BY <1>1, <1>2, OneName, BuryGlobalsView
<1> HIDE DEF g
<1>5. /\ ViewsInv' /\ GlobalsView(globals)' = GlobalsView(g)
      /\ UNCHANGED <<ScopesView(stack), topTest, DefinedView(procs), AliasesView(prims), PlistsView(props)>>
  BY <1>3, GlobalsViews
<1>6. InScopes!BuryNames({Fold[w]}, way)
  BY <1>4, <1>5 DEF InScopes!BuryNames, Laid
<1>7. InScopes!Next
  BY <1>1, <1>6 DEF InScopes!Next
<1>8. QED BY <1>5, <1>7 DEF ScopesStep

\* A step of globals, procedures and property lists.
LEMMA TablesViews ==
  ASSUME ScopesInv, NEW g, NEW p, NEW l, globals' = g, procs' = p, props' = l,
         Unique(p), PropsOK(l), UNCHANGED <<stack, paused, topTest, prims>>
  PROVE  /\ ViewsInv' /\ GlobalsView(globals)' = GlobalsView(g)
         /\ DefinedView(procs)' = DefinedView(p) /\ PlistsView(props)' = PlistsView(l)
         /\ UNCHANGED <<ScopesView(stack), topTest, AliasesView(prims)>>
<1>1. ViewsInv'
  BY DEF ScopesInv, ViewsInv, PrimsInv, SnapOK
<1>2. QED BY <1>1

\* What buryall and unburyall make of the globals.
LaidWith(V, H) == [n \in DOMAIN V |-> [V[n] EXCEPT !.buried = @ \/ n \in H]]

LEMMA LaidIs ==
  ASSUME NEW g, Shaped(g), NEW H
  PROVE  /\ Laid(GlobalsView(g), H, TRUE) = LaidWith(GlobalsView(g), H)
         /\ LET V == GlobalsView(g)
            IN  Laid(V, DOMAIN V, FALSE) = [n \in DOMAIN V |-> [V[n] EXCEPT !.buried = FALSE]]
<1> DEFINE V == GlobalsView(g)
<1>1. ASSUME NEW n \in DOMAIN V
      PROVE  (IF n \in H THEN [V[n] EXCEPT !.buried = TRUE] ELSE V[n])
               = [V[n] EXCEPT !.buried = V[n].buried \/ n \in H]
  <2>1. PICK e \in BOOLEAN : e = V[n].buried
    BY ShownIs
  <2>2. PICK r : r = V[n] /\ r = [thing |-> r.thing, buried |-> r.buried] /\ r.buried = e
    BY <2>1, ShownIs
  <2>3. [r EXCEPT !.buried = e] = r
    BY <2>2
  <2>4. CASE n \in H
    <3>1. (V[n].buried \/ n \in H) = TRUE
      BY <2>4
    <3>2. QED BY <2>4, <3>1
  <2>5. CASE n \notin H
    <3>1. (V[n].buried \/ n \in H) = e
      BY <2>1, <2>5
    <3>2. QED BY <2>2, <2>3, <2>5, <3>1
  <2>6. QED BY <2>4, <2>5
<1> HIDE DEF V
<1>2. QED BY <1>1 DEF Laid, LaidWith, V

LEMMA BuryallStep ==
  ASSUME ScopesInv, Buryall
  PROVE  ScopesStep
<1>1. Shaped(globals) /\ Indexed(globals) /\ Unique(procs) /\ PropsOK(props)
  BY DEF ScopesInv, GlobalsInv, ViewsInv
<1> DEFINE g == BuryGlobals(globals, Valued(globals), TRUE)
           p == MarkProcs(procs, Defined(procs), "buried", TRUE)
           V == GlobalsView(globals)
           D == DefinedView(procs)
<1>2. globals' = g /\ procs' = p /\ props' = props /\ UNCHANGED <<stack, paused, topTest, prims>>
  BY DEF Buryall
<1>3. \A i \in Active(globals) : i \in Valued(globals) <=> Fold[globals.slots[i].name] \in InScopes!HasThing
  BY <1>1, SomeNames DEF InScopes!HasThing
<1>4. GlobalsView(g) = Laid(V, InScopes!HasThing, TRUE)
  BY <1>1, <1>3, BuryGlobalsView
<1>5. \A i \in Defined(procs) : i \in Defined(procs) <=> Fold[procs.slots[i].name] \in DOMAIN D
  BY <1>1, SomeProcedures
<1>6. Unique(p) /\ DefinedView(p) = Worn(D, DOMAIN D, "buried", TRUE)
  <2>1. "buried" \in Marks
    BY WorkspaceAssumption
  <2>2. QED BY <1>1, <1>5, <2>1, MarkProcsView
<1> HIDE DEF g, p
<1>7. /\ ViewsInv' /\ GlobalsView(globals)' = GlobalsView(g)
      /\ DefinedView(procs)' = DefinedView(p) /\ PlistsView(props)' = PlistsView(props)
      /\ UNCHANGED <<ScopesView(stack), topTest, AliasesView(prims)>>
  BY <1>1, <1>2, <1>6, TablesViews
<1>8. Worn(D, DOMAIN D, "buried", TRUE) = [n \in DOMAIN D |-> [D[n] EXCEPT !.marks = @ \cup {"buried"}]]
  BY DEF Worn
<1>9. Laid(V, InScopes!HasThing, TRUE) = LaidWith(V, InScopes!HasThing)
  BY <1>1, LaidIs
<1>10. InScopes!BuryAll
  BY <1>4, <1>6, <1>7, <1>8, <1>9 DEF InScopes!BuryAll, LaidWith
<1>11. InScopes!Next
  BY <1>10 DEF InScopes!Next
<1>12. QED BY <1>7, <1>11 DEF ScopesStep

LEMMA UnburyallStep ==
  ASSUME ScopesInv, Unburyall
  PROVE  ScopesStep
<1>1. Shaped(globals) /\ Indexed(globals) /\ Unique(procs) /\ PropsOK(props)
  BY DEF ScopesInv, GlobalsInv, ViewsInv
<1> DEFINE g == BuryGlobals(globals, Active(globals), FALSE)
           p == MarkProcs(procs, Defined(procs), "buried", FALSE)
           V == GlobalsView(globals)
           D == DefinedView(procs)
<1>2. globals' = g /\ procs' = p /\ props' = props /\ UNCHANGED <<stack, paused, topTest, prims>>
  BY DEF Unburyall
<1>3. \A i \in Active(globals) : i \in Active(globals) <=> Fold[globals.slots[i].name] \in DOMAIN V
  BY <1>1, SomeNames
<1>4. GlobalsView(g) = Laid(V, DOMAIN V, FALSE)
  BY <1>1, <1>3, BuryGlobalsView
<1>5. \A i \in Defined(procs) : i \in Defined(procs) <=> Fold[procs.slots[i].name] \in DOMAIN D
  BY <1>1, SomeProcedures
<1>6. Unique(p) /\ DefinedView(p) = Worn(D, DOMAIN D, "buried", FALSE)
  <2>1. "buried" \in Marks
    BY WorkspaceAssumption
  <2>2. QED BY <1>1, <1>5, <2>1, MarkProcsView
<1> HIDE DEF g, p
<1>7. /\ ViewsInv' /\ GlobalsView(globals)' = GlobalsView(g)
      /\ DefinedView(procs)' = DefinedView(p) /\ PlistsView(props)' = PlistsView(props)
      /\ UNCHANGED <<ScopesView(stack), topTest, AliasesView(prims)>>
  BY <1>1, <1>2, <1>6, TablesViews
<1>8. Worn(D, DOMAIN D, "buried", FALSE) = [n \in DOMAIN D |-> [D[n] EXCEPT !.marks = @ \ {"buried"}]]
  BY DEF Worn
<1>9. Laid(V, DOMAIN V, FALSE) = [n \in DOMAIN V |-> [V[n] EXCEPT !.buried = FALSE]]
  BY <1>1, LaidIs
<1>10. InScopes!UnburyAll
  BY <1>4, <1>6, <1>7, <1>8, <1>9 DEF InScopes!UnburyAll
<1>11. InScopes!Next
  BY <1>10 DEF InScopes!Next
<1>12. QED BY <1>7, <1>11 DEF ScopesStep

LEMMA NoPlists == PropsOK(<< >>) /\ PlistsView(<< >>) = [n \in {} |-> << >>]
<1>1. DOMAIN << >> = {}
  OBVIOUS
<1>2. PropsOK(<< >>)
  BY <1>1, EmptySeq DEF PropsOK
<1>3. PlistsAre([n \in {} |-> << >>], << >>)
  BY <1>1 DEF PlistsAre
<1>4. QED BY <1>2, <1>3, PlistsViewIs

LEMMA ErallStep ==
  ASSUME ScopesInv, Erall
  PROVE  ScopesStep
<1>1. Shaped(globals) /\ Indexed(globals) /\ Unique(procs)
  BY DEF ScopesInv, GlobalsInv, ViewsInv
<1> DEFINE gone == {i \in Active(globals) : ~globals.slots[i].buried}
           g == EraseGlobals(globals, gone)
           p == EraseProcs(procs, Exposed(procs))
<1>2. globals' = g /\ procs' = p /\ props' = << >> /\ UNCHANGED <<stack, paused, topTest, prims>>
  BY DEF Erall
<1>3. \A i \in Active(globals) : i \in gone <=> Fold[globals.slots[i].name] \in InScopes!Unburied
  BY <1>1, SomeNames DEF InScopes!Unburied
<1> HIDE DEF gone
<1>4. GlobalsView(g) = InScopes!Without(GlobalsView(globals), InScopes!Unburied)
  BY <1>1, <1>3, EraseGlobalsView
<1>5. \A i \in Defined(procs) : i \in Exposed(procs) <=> Fold[procs.slots[i].name] \in InScopes!Exposed
  BY <1>1, SomeProcedures DEF InScopes!Exposed
<1>6. Unique(p) /\ DefinedView(p) = InScopes!Without(DefinedView(procs), InScopes!Exposed)
  BY <1>1, <1>5, EraseProcsView
<1> HIDE DEF g, p
<1>7. /\ ViewsInv' /\ GlobalsView(globals)' = GlobalsView(g)
      /\ DefinedView(procs)' = DefinedView(p) /\ PlistsView(props)' = PlistsView(<< >>)
      /\ UNCHANGED <<ScopesView(stack), topTest, AliasesView(prims)>>
  BY <1>2, <1>6, NoPlists, TablesViews
<1>8. InScopes!EraseAll
  BY <1>4, <1>6, <1>7, NoPlists DEF InScopes!EraseAll
<1>9. InScopes!Next
  BY <1>8 DEF InScopes!Next
<1>10. QED BY <1>7, <1>9 DEF ScopesStep

\* A procedure that is called has a text.
LEMMA Callable ==
  ASSUME ScopesInv, NEW w \in program.words, find_procedure(procs, w) # 0
  PROVE  procs.slots[find_procedure(procs, w)].text \in Texts
<1>1. w \in Words /\ Unique(procs)
  BY Folded DEF ScopesInv, ViewsInv
<1>2. QED BY <1>1, ProcedureFound

\* The innermost frame is left.
LEMMA LeaveOne ==
  ASSUME ScopesInv, Own, FramesStep(frame_pop(stack))
  PROVE  ScopesStep
<1> DEFINE s == frame_pop(stack)
<1>1. Framed(stack) /\ Len(stack.frames) \in Nat
  BY ViewIs DEF ScopesInv, ViewsInv
<1>2. stack.frames # << >> /\ Len(stack.frames) >= 1
  <2>1. (IF paused = << >> THEN 0 ELSE paused[1].depth) \in Nat
    BY <1>1 DEF ScopesInv, ViewsInv, SnapOK
  <2>2. Len(stack.frames) # 0
    BY <1>1, <2>1 DEF Own
  <2>3. QED BY <1>1, <2>2, ViewIs
<1>3. /\ Framed(s) /\ Len(s.frames) = Len(stack.frames) - 1
      /\ ScopesView(s) = SubSeq(ScopesView(stack), 1 + 1, Len(ScopesView(stack)))
  BY <1>1, <1>2, PopView
<1> HIDE DEF s
<1>4. /\ ViewsInv' /\ ScopesView(stack)' = ScopesView(s)
      /\ UNCHANGED <<GlobalsView(globals), topTest, DefinedView(procs), AliasesView(prims), PlistsView(props)>>
  BY <1>1, <1>3, FramesViews DEF s
<1>5. InScopes!Leave(1)
  BY <1>3, <1>4 DEF InScopes!Leave
<1>6. 1 \in 1 .. Len(ScopesView(stack))
  BY <1>1, <1>2, ViewIs
<1>7. InScopes!Next
  BY <1>5, <1>6 DEF InScopes!Next
<1>8. QED BY <1>4, <1>7 DEF ScopesStep

\* A call that has its inputs pushes a frame ...
LEMMA PushStep ==
  ASSUME ScopesInv, NEW at, procs.slots[at].text \in Texts, eval_push_proc_call(at),
         UNCHANGED <<globals, paused, topTest, procs, prims, props>>
  PROVE  ScopesStep
<1>1. program.things \in SUBSET Things /\ Framed(stack)
  BY Folded DEF ScopesInv, ViewsInv
<1>2. PICK text \in Texts : text = procs.slots[at].text
  OBVIOUS
<1>3. PICK args \in [1 .. Len(InputsOf[text]) -> program.things] : stack' = frame_push(stack, text, args)
  BY <1>2 DEF eval_push_proc_call, Inputs
<1> DEFINE s == frame_push(stack, text, args)
<1>4. \/ s = stack
      \/ /\ Framed(s) /\ Len(s.frames) = Len(stack.frames) + 1
         /\ ScopesView(s) = <<InScopes!Scope(text, args)>> \o ScopesView(stack)
  BY <1>1, PushView
<1>5. FramesStep(s)
  BY <1>3 DEF FramesStep
<1> HIDE DEF s
<1>6. CASE s = stack
  BY <1>5, <1>6, Stutters DEF FramesStep
<1>7. CASE s # stack
  <2>1. Len(stack.frames) \in Nat
    BY <1>1, ViewIs
  <2>2. Framed(s) /\ Len(s.frames) >= Len(stack.frames)
    BY <1>4, <1>7, <2>1
  <2>3. /\ ViewsInv' /\ ScopesView(stack)' = ScopesView(s)
        /\ UNCHANGED <<GlobalsView(globals), topTest, DefinedView(procs), AliasesView(prims), PlistsView(props)>>
    BY <1>5, <2>2, FramesViews
  <2>4. InScopes!Call(text, args)
    BY <1>4, <1>7, <2>3 DEF InScopes!Call
  <2>5. args \in InScopes!Argument(text)
    BY <1>1, ArgumentsBound
  <2>6. InScopes!Next
    BY <2>4, <2>5 DEF InScopes!Next
  <2>7. QED BY <2>3, <2>6 DEF ScopesStep
<1>8. QED BY <1>6, <1>7

\* ... or takes its caller's.
LEMMA TailCallStep ==
  ASSUME ScopesInv, NEW at, procs.slots[at].text \in Texts, Own, step_proc_call(at),
         UNCHANGED <<globals, paused, topTest, procs, prims, props>>
  PROVE  ScopesStep
<1>1. program.things \in SUBSET Things /\ Framed(stack) /\ Len(stack.frames) \in Nat
  BY Folded, ViewIs DEF ScopesInv, ViewsInv
<1>3. stack.frames # << >> /\ ScopesView(stack) # << >> /\ Len(stack.frames) >= 1
  <2>1. (IF paused = << >> THEN 0 ELSE paused[1].depth) \in Nat
    BY <1>1 DEF ScopesInv, ViewsInv, SnapOK
  <2>2. Len(stack.frames) # 0
    BY <1>1, <2>1 DEF Own
  <2>3. QED BY <1>1, <2>2, ViewIs
<1>4. PICK text \in Texts : text = procs.slots[at].text
  OBVIOUS
<1> DEFINE outer == frame_pop(stack)
<1>5. PICK args \in [1 .. Len(InputsOf[text]) -> program.things] :
        stack' = IF Len(args) <= stack.frames[1].inputs THEN frame_reuse(stack, text, args)
                 ELSE frame_push(outer, text, args)
  BY <1>4 DEF step_proc_call, Inputs
<1>7. args \in InScopes!Argument(text)
  BY <1>1, ArgumentsBound
<1>8. ASSUME NEW s, stack' = s, Framed(s), Len(s.frames) = Len(stack.frames),
             ScopesView(s) = <<InScopes!Scope(text, args)>> \o Tail(ScopesView(stack))
      PROVE  ScopesStep
  <2>1. FramesStep(s) /\ Len(s.frames) >= Len(stack.frames)
    BY <1>1, <1>8 DEF FramesStep
  <2>2. /\ ViewsInv' /\ ScopesView(stack)' = ScopesView(s)
        /\ UNCHANGED <<GlobalsView(globals), topTest, DefinedView(procs), AliasesView(prims), PlistsView(props)>>
    BY <1>8, <2>1, FramesViews
  <2>3. InScopes!TailCall(text, args)
    BY <1>3, <1>8, <2>2 DEF InScopes!TailCall
  <2>4. InScopes!Next
    BY <1>7, <2>3 DEF InScopes!Next
  <2>5. QED BY <2>2, <2>4 DEF ScopesStep
<1>9. CASE Len(args) <= stack.frames[1].inputs
  <2> DEFINE s == frame_reuse(stack, text, args)
  <2>1. /\ Framed(s) /\ Len(s.frames) = Len(stack.frames)
        /\ ScopesView(s) = <<InScopes!Scope(text, args)>> \o Tail(ScopesView(stack))
    BY <1>1, <1>3, ReuseView
  <2>2. stack' = s
    BY <1>5, <1>9
  <2> HIDE DEF s
  <2>3. QED BY <1>8, <2>1, <2>2
<1>10. CASE ~(Len(args) <= stack.frames[1].inputs)
  <2> DEFINE s == frame_push(outer, text, args)
  <2>1. /\ Framed(outer) /\ Len(outer.frames) = Len(stack.frames) - 1
        /\ ScopesView(outer) = Tail(ScopesView(stack))
    BY <1>1, <1>3, PopView
  <2> HIDE DEF outer
  <2>2. \/ s = outer
        \/ /\ Framed(s) /\ Len(s.frames) = Len(outer.frames) + 1
           /\ ScopesView(s) = <<InScopes!Scope(text, args)>> \o ScopesView(outer)
    BY <1>1, <2>1, PushView
  <2>3. stack' = s
    BY <1>5, <1>10
  <2> HIDE DEF s
  <2>4. CASE s = outer
    <3>1. FramesStep(frame_pop(stack))
      BY <2>3, <2>4 DEF FramesStep, outer
    <3>2. QED BY <3>1, LeaveOne
  <2>5. CASE s # outer
    <3>1. Len(s.frames) = Len(stack.frames)
      BY <1>1, <2>1, <2>2, <2>5
    <3>2. QED BY <1>8, <2>1, <2>2, <2>3, <2>5, <3>1
  <2>6. QED BY <2>4, <2>5
<1>11. QED BY <1>9, <1>10

LEMMA EnterStep ==
  ASSUME ScopesInv, NEW at, procs.slots[at].text \in Texts, Enter(at),
         UNCHANGED <<globals, paused, topTest, procs, prims, props>>
  PROVE  ScopesStep
  BY PushStep, TailCallStep DEF Enter

LEMMA CallStep ==
  ASSUME ScopesInv, NEW w \in program.words, Call(w)
  PROVE  ScopesStep
<1>1. w \in Words /\ NamesInv
  BY Folded DEF ScopesInv
<1>2. UNCHANGED <<globals, paused, topTest, procs, prims, props>>
  BY DEF Call
<1>3. CASE UNCHANGED stack
  BY <1>2, <1>3, Stutters
<1>4. CASE Enter(resolve_word(w).at)
  <2>1. procs.slots[resolve_word(w).at].text \in Texts
    BY <1>1, ResolvedIs DEF Call
  <2>2. QED BY <1>2, <1>4, <2>1, EnterStep
<1>5. QED BY <1>3, <1>4 DEF Call

LEMMA CallEntersStep ==
  ASSUME ScopesInv, CallEnters
  PROVE  ScopesStep
<1>1. pending[1].at \in ProcSlots
  BY WaitingIs DEF ScopesInv, CallEnters
<1>2. procs.slots[pending[1].at].text \in Texts
  BY <1>1 DEF ScopesInv, NamesInv, Listed, CallEnters
<1>3. QED BY <1>2, EnterStep DEF CallEnters

LEMMA TestStep ==
  ASSUME ScopesInv, NEW b \in Outcomes, Test(b)
  PROVE  ScopesStep
<1>1. Framed(stack) /\ (ScopesView(stack) = << >> <=> ~InProcedure)
  BY ViewIs DEF ScopesInv, ViewsInv, InProcedure
<1>2. UNCHANGED <<globals, paused, procs, prims, props>>
  BY DEF Test
<1>3. CASE InProcedure
  <2> DEFINE s == [stack EXCEPT !.frames[1].test = b]
  <2>1. stack' = s /\ topTest' = topTest /\ stack.frames # << >>
    BY <1>3 DEF Test, InProcedure
  <2>2. /\ Framed(s) /\ Len(s.frames) = Len(stack.frames) /\ Len(stack.frames) \in Nat
        /\ ScopesView(s) = Retested(ScopesView(stack), 1, b)
    BY <1>1, <2>1, TestView, ViewIs
  <2> HIDE DEF s
  <2>3. FramesStep(s) /\ Len(s.frames) >= Len(stack.frames)
    BY <1>2, <2>1, <2>2 DEF FramesStep
  <2>4. /\ ViewsInv' /\ ScopesView(stack)' = ScopesView(s)
        /\ UNCHANGED <<GlobalsView(globals), topTest, DefinedView(procs), AliasesView(prims), PlistsView(props)>>
    BY <2>2, <2>3, FramesViews
  <2>5. InScopes!Test(b)
    BY <1>1, <1>3, <2>2, <2>4 DEF InScopes!Test, Retested
  <2>6. b \in InScopes!Outcomes
    BY DEF Outcomes, InScopes!Outcomes
  <2>7. InScopes!Next
    BY <2>5, <2>6 DEF InScopes!Next
  <2>8. QED BY <2>4, <2>7 DEF ScopesStep
<1>4. CASE ~InProcedure
  <2>1. topTest' = b /\ stack' = stack
    BY <1>4 DEF Test
  <2>2. ViewsInv'
    BY <1>2, <2>1 DEF ScopesInv, ViewsInv, PrimsInv, SnapOK
  <2>3. UNCHANGED <<GlobalsView(globals), ScopesView(stack), DefinedView(procs), AliasesView(prims), PlistsView(props)>>
    BY <1>2, <2>1
  <2>4. InScopes!Test(b)
    BY <1>1, <1>4, <2>1, <2>3 DEF InScopes!Test
  <2>5. b \in InScopes!Outcomes
    BY DEF Outcomes, InScopes!Outcomes
  <2>6. InScopes!Next
    BY <2>4, <2>5 DEF InScopes!Next
  <2>7. QED BY <2>2, <2>6 DEF ScopesStep
<1>5. QED BY <1>3, <1>4

LEMMA ReturnStep ==
  ASSUME ScopesInv, Return
  PROVE  ScopesStep
<1>1. Own /\ FramesStep(frame_pop(stack))
  BY DEF Return, FramesStep
<1>2. QED BY <1>1, LeaveOne

\* A step of the frames and of what a pause remembers.
LEMMA LeaveSome ==
  ASSUME ScopesInv, NEW s, Framed(s), stack' = s, UNCHANGED <<globals, topTest, procs, prims, props>>,
         paused' = << >>, NEW k \in 0 .. Len(stack.frames),
         ScopesView(s) = SubSeq(ScopesView(stack), k + 1, Len(ScopesView(stack)))
  PROVE  ScopesStep
<1>1. ViewsInv'
  BY DEF ScopesInv, ViewsInv, PrimsInv, SnapOK
<1>2. /\ ScopesView(stack)' = ScopesView(s)
      /\ UNCHANGED <<GlobalsView(globals), topTest, DefinedView(procs), AliasesView(prims), PlistsView(props)>>
  OBVIOUS
<1>3. ScopesView(stack) \in Seq(FrameScopes) /\ Len(ScopesView(stack)) = Len(stack.frames)
      /\ Len(stack.frames) \in Nat
  BY ViewIs DEF ScopesInv, ViewsInv
<1>4. CASE k = 0
  <2>1. SubSeq(ScopesView(stack), 1, Len(ScopesView(stack))) = ScopesView(stack)
    BY <1>3, SubSeqFull
  <2>2. k + 1 = 1
    BY <1>4
  <2>3. UNCHANGED InScopes!vars
    BY <1>2, <2>1, <2>2 DEF InScopes!vars
  <2>4. QED BY <1>1, <2>3 DEF ScopesStep
<1>5. CASE k # 0
  <2>1. k \in 1 .. Len(ScopesView(stack))
    BY <1>3, <1>5
  <2>2. InScopes!Leave(k)
    BY <1>2 DEF InScopes!Leave
  <2>3. InScopes!Next
    BY <2>1, <2>2 DEF InScopes!Next
  <2>4. QED BY <1>1, <2>3 DEF ScopesStep
<1>6. QED BY <1>4, <1>5

LEMMA ResetStep ==
  ASSUME ScopesInv, proc_reset_execution_state
  PROVE  ScopesStep
<1> DEFINE V == ScopesView(stack)
<1>1. PICK n \in Nat : n = Len(stack.frames) /\ Len(V) = n /\ V \in Seq(FrameScopes)
  BY ViewIs DEF ScopesInv, ViewsInv
<1>2. n \in 0 .. Len(stack.frames)
  BY <1>1
<1>3. SubSeq(V, n + 1, n) = << >>
  BY <1>1, SubSeqEmpty
<1>4. SubSeq(V, n + 1, Len(V)) = << >>
  BY <1>1, <1>3
<1>5. /\ stack' = NoFrames /\ paused' = << >> /\ UNCHANGED <<globals, topTest, procs, prims, props>>
  BY DEF proc_reset_execution_state
<1> HIDE DEF V
<1>6. Framed(NoFrames) /\ ScopesView(NoFrames) = SubSeq(V, n + 1, Len(V))
  BY <1>4, EmptyView
<1>7. QED BY <1>2, <1>5, <1>6, LeaveSome DEF V

LEMMA PauseStep ==
  ASSUME ScopesInv, PauseLine \/ PauseLineEnds
  PROVE  ScopesStep
<1>1. UNCHANGED <<globals, stack, topTest, procs, prims, props>>
  BY DEF PauseLine, PauseLineEnds
<1>2. Len(stack.frames) \in Nat /\ stack.top \in Nat
  BY ViewIs DEF ScopesInv, ViewsInv, Framed
<1>3. \/ paused' = << >>
      \/ paused' = <<[depth |-> Len(stack.frames), top |-> stack.top, names |-> current,
                     pending |-> pending]>>
  BY DEF PauseLine, PauseLineEnds
<1>4. SnapOK'
  BY <1>1, <1>2, <1>3 DEF SnapOK
<1>5. ViewsInv'
  BY <1>1, <1>4 DEF ScopesInv, ViewsInv, PrimsInv
<1>6. UNCHANGED InScopes!vars
  BY <1>1 DEF InScopes!vars
<1>7. QED BY <1>5, <1>6 DEF ScopesStep

LEMMA PauseFailsStep ==
  ASSUME ScopesInv, PauseLineFails
  PROVE  ScopesStep
<1> DEFINE s == frame_stack_restore(stack, paused[1])
           k == Len(stack.frames) - paused[1].depth
<1>1. /\ stack' = s /\ paused' = << >> /\ UNCHANGED <<globals, topTest, procs, prims, props>>
      /\ paused # << >>
  BY DEF PauseLineFails
<1>2. Framed(stack) /\ paused[1].depth \in 0 .. Len(stack.frames) /\ paused[1].top \in Nat
  BY <1>1 DEF ScopesInv, ViewsInv, SnapOK
<1>3. /\ Framed(s) /\ k \in 0 .. Len(stack.frames)
      /\ ScopesView(s) = SubSeq(ScopesView(stack), k + 1, Len(ScopesView(stack)))
  BY <1>2, RestoreView
<1> HIDE DEF s, k
<1>4. QED BY <1>1, <1>3, LeaveSome

-----------------------------------------------------------------------------
(* Steps of procedures, primitives and property lists.                     *)

ProcsStep(p) == procs' = p /\ UNCHANGED <<globals, stack, paused, topTest, prims, props>>

LEMMA ProcsViews ==
  ASSUME ScopesInv, NEW p, ProcsStep(p), Unique(p)
  PROVE  /\ ViewsInv' /\ DefinedView(procs)' = DefinedView(p)
         /\ UNCHANGED <<GlobalsView(globals), ScopesView(stack), topTest, AliasesView(prims), PlistsView(props)>>
<1>1. ViewsInv'
  BY DEF ProcsStep, ScopesInv, ViewsInv, PrimsInv, SnapOK
<1>2. QED BY <1>1 DEF ProcsStep

\* A definition of a name that is no primitive's.
LEMMA Defines ==
  ASSUME ScopesInv, NEW w \in program.words, NEW text \in Texts, primitive_find(w) = 0,
         ProcsStep(proc_define(procs, w, text))
  PROVE  ScopesStep
<1> DEFINE p == proc_define(procs, w, text)
           D == DefinedView(procs)
<1>1. w \in Words /\ Fold[w] \in FoldedWords(Words) /\ Unique(procs) /\ PrimsInv
  BY Folded DEF ScopesInv, ViewsInv
<1>2. /\ Unique(p)
      /\ \/ DefinedView(p) = D
         \/ DefinedView(p) = InScopes!With(D, Fold[w], [text |-> text,
              marks |-> IF Fold[w] \in DOMAIN D THEN D[Fold[w]].marks ELSE {}])
  BY <1>1, proc_defineView
<1> HIDE DEF p
<1>3. /\ ViewsInv' /\ DefinedView(procs)' = DefinedView(p)
      /\ UNCHANGED <<GlobalsView(globals), ScopesView(stack), topTest, AliasesView(prims), PlistsView(props)>>
  BY <1>2, ProcsViews DEF p
<1>4. Fold[w] \notin {Fold[Builtins[i]] : i \in DOMAIN Builtins} \cup AliasesView(prims)
  BY <1>1, NoPrimitive
<1>5. UNCHANGED InScopes!vars \/ InScopes!Define(Fold[w], text)
  BY <1>2, <1>3, <1>4 DEF InScopes!vars, InScopes!Define
<1>6. [InScopes!Next]_(InScopes!vars)
  BY <1>1, <1>5 DEF InScopes!Next
<1>7. QED BY <1>3, <1>6 DEF ScopesStep

LEMMA DefineStep ==
  ASSUME ScopesInv, NEW w \in program.words, NEW text \in Texts, Define(w, text)
  PROVE  ScopesStep
<1>1. primitive_find(w) = 0 /\ ProcsStep(proc_define(procs, w, text))
  BY DEF Define, Procs, ProcsStep
<1>2. QED BY <1>1, Defines

LEMMA CopydefStep ==
  ASSUME ScopesInv, NEW w \in program.words, NEW new \in program.words, Copydef(w, new)
  PROVE  ScopesStep
<1>1. primitive_find(new) = 0 /\ new \in Words /\ Fold[new] \in FoldedWords(Words) /\ PrimsInv
  BY Folded DEF Copydef, ScopesInv, ViewsInv
<1>2. CASE Alias(new)
  <2>1. prims' = Append(prims, new) /\ UNCHANGED <<globals, stack, paused, topTest, procs, props>>
    BY <1>2 DEF Alias
  <2>2. PrimsInv' /\ AliasesView(prims)' = AliasesView(prims) \cup {Fold[new]}
    BY <1>1, <2>1, AliasView
  <2>3. ViewsInv'
    BY <2>1, <2>2 DEF ScopesInv, ViewsInv, SnapOK
  <2>4. UNCHANGED <<GlobalsView(globals), ScopesView(stack), topTest, DefinedView(procs), PlistsView(props)>>
    BY <2>1
  <2>5. Fold[new] \notin {Fold[Builtins[i]] : i \in DOMAIN Builtins} \cup AliasesView(prims)
    BY <1>1, NoPrimitive
  <2>6. InScopes!Alias(Fold[new])
    BY <2>2, <2>4, <2>5 DEF InScopes!Alias
  <2>7. InScopes!Next
    BY <1>1, <2>6 DEF InScopes!Next
  <2>8. QED BY <2>3, <2>7 DEF ScopesStep
<1>3. CASE /\ find_procedure(procs, w) # 0
           /\ Procs(proc_define(procs, new, procs.slots[find_procedure(procs, w)].text))
  <2>1. PICK text \in Texts : text = procs.slots[find_procedure(procs, w)].text
    BY <1>3, Callable
  <2>2. ProcsStep(proc_define(procs, new, text))
    BY <1>3, <2>1 DEF Procs, ProcsStep
  <2>3. QED BY <1>1, <2>2, Defines
<1>4. QED BY <1>2, <1>3 DEF Copydef

LEMMA EraseStep ==
  ASSUME ScopesInv, NEW w \in program.words, Erase(w)
  PROVE  ScopesStep
<1>1. w \in Words /\ Fold[w] \in FoldedWords(Words) /\ Unique(procs)
  BY Folded DEF ScopesInv, ViewsInv
<1> DEFINE p == EraseProcs(procs, {find_procedure(procs, w)})
<1>2. ProcsStep(p)
  BY DEF Erase, Procs, ProcsStep
<1>3. Unique(p) /\ DefinedView(p) = InScopes!Without(DefinedView(procs), {Fold[w]})
  <2>1. \A i \in Defined(procs) : i \in {find_procedure(procs, w)} <=> Fold[procs.slots[i].name] \in {Fold[w]}
    BY <1>1, OneProcedure
  <2>2. QED BY <1>1, <2>1, EraseProcsView
<1> HIDE DEF p
<1>4. /\ ViewsInv' /\ DefinedView(procs)' = DefinedView(p)
      /\ UNCHANGED <<GlobalsView(globals), ScopesView(stack), topTest, AliasesView(prims), PlistsView(props)>>
  BY <1>2, <1>3, ProcsViews
<1>5. InScopes!EraseProcedures({Fold[w]})
  BY <1>3, <1>4 DEF InScopes!EraseProcedures
<1>6. InScopes!Next
  BY <1>1, <1>5 DEF InScopes!Next
<1>7. QED BY <1>4, <1>6 DEF ScopesStep

LEMMA ErpsStep ==
  ASSUME ScopesInv, Erps
  PROVE  ScopesStep
<1>1. Unique(procs)
  BY DEF ScopesInv, ViewsInv
<1> DEFINE p == EraseProcs(procs, Exposed(procs))
<1>2. ProcsStep(p)
  BY DEF Erps, Procs, ProcsStep
<1>3. \A i \in Defined(procs) : i \in Exposed(procs) <=> Fold[procs.slots[i].name] \in InScopes!Exposed
  BY <1>1, SomeProcedures DEF InScopes!Exposed
<1>4. Unique(p) /\ DefinedView(p) = InScopes!Without(DefinedView(procs), InScopes!Exposed)
  BY <1>1, <1>3, EraseProcsView
<1> HIDE DEF p
<1>5. /\ ViewsInv' /\ DefinedView(procs)' = DefinedView(p)
      /\ UNCHANGED <<GlobalsView(globals), ScopesView(stack), topTest, AliasesView(prims), PlistsView(props)>>
  BY <1>2, <1>4, ProcsViews
<1>6. InScopes!EraseProcedures(InScopes!Exposed)
  BY <1>4, <1>5 DEF InScopes!EraseProcedures
<1>7. InScopes!Next
  BY <1>6 DEF InScopes!Next
<1>8. QED BY <1>5, <1>7 DEF ScopesStep

LEMMA SetMarkStep ==
  ASSUME ScopesInv, NEW w \in program.words, NEW mark \in Marks, NEW on \in BOOLEAN, SetMark(w, mark, on)
  PROVE  ScopesStep
<1>1. w \in Words /\ Fold[w] \in FoldedWords(Words) /\ Unique(procs)
  BY Folded DEF ScopesInv, ViewsInv
<1> DEFINE p == MarkProcs(procs, {find_procedure(procs, w)}, mark, on)
<1>2. ProcsStep(p)
  BY DEF SetMark, ProcsStep
<1>3. Unique(p) /\ DefinedView(p) = Worn(DefinedView(procs), {Fold[w]}, mark, on)
  BY <1>1, OneProcedure, MarkProcsView
<1> HIDE DEF p
<1>4. /\ ViewsInv' /\ DefinedView(procs)' = DefinedView(p)
      /\ UNCHANGED <<GlobalsView(globals), ScopesView(stack), topTest, AliasesView(prims), PlistsView(props)>>
  BY <1>2, <1>3, ProcsViews
<1>5. InScopes!Mark({Fold[w]}, mark, on)
  BY <1>3, <1>4 DEF InScopes!Mark, Worn
<1>6. InScopes!Next
  BY <1>1, <1>5 DEF InScopes!Next
<1>7. QED BY <1>4, <1>6 DEF ScopesStep

LEMMA PropsViews ==
  ASSUME ScopesInv, NEW l, Props(l), PropsOK(l)
  PROVE  /\ ViewsInv' /\ PlistsView(props)' = PlistsView(l)
         /\ UNCHANGED <<GlobalsView(globals), ScopesView(stack), topTest, DefinedView(procs), AliasesView(prims)>>
<1>1. ViewsInv'
  BY DEF Props, ScopesInv, ViewsInv, PrimsInv, SnapOK
<1>2. QED BY <1>1 DEF Props

LEMMA PpropStep ==
  ASSUME ScopesInv, NEW w \in program.words, NEW p \in program.words, NEW v \in program.things, Pprop(w, p, v)
  PROVE  ScopesStep
<1>1. /\ w \in Words /\ Fold[w] \in FoldedWords(Words) /\ p \in Words /\ Fold[p] \in FoldedWords(Words)
      /\ v \in Things /\ PropsOK(props)
  BY Folded DEF ScopesInv, ViewsInv
<1>2. PICK made : Props(prop_put(w, p, v, made))
  BY DEF Pprop
<1> DEFINE l == prop_put(w, p, v, made)
<1>3. /\ PropsOK(l)
      /\ \/ l = props
         \/ PlistsView(l) = InScopes!With(PlistsView(props), Fold[w],
                              InScopes!With(InScopes!PlistOf(Fold[w]), Fold[p], v))
  BY <1>1, prop_putView
<1> HIDE DEF l
<1>4. /\ ViewsInv' /\ PlistsView(props)' = PlistsView(l)
      /\ UNCHANGED <<GlobalsView(globals), ScopesView(stack), topTest, DefinedView(procs), AliasesView(prims)>>
  BY <1>2, <1>3, PropsViews DEF l
<1>5. UNCHANGED InScopes!vars \/ InScopes!Put(Fold[w], Fold[p], v)
  BY <1>3, <1>4 DEF InScopes!vars, InScopes!Put
<1>6. [InScopes!Next]_(InScopes!vars)
  BY <1>1, <1>5 DEF InScopes!Next
<1>7. QED BY <1>4, <1>6 DEF ScopesStep

LEMMA RempropStep ==
  ASSUME ScopesInv, NEW w \in program.words, NEW p \in program.words, Remprop(w, p)
  PROVE  ScopesStep
<1>1. /\ w \in Words /\ Fold[w] \in FoldedWords(Words) /\ p \in Words /\ Fold[p] \in FoldedWords(Words)
      /\ PropsOK(props)
  BY Folded DEF ScopesInv, ViewsInv
<1> DEFINE l == prop_remove(w, p)
           V == PlistsView(props)
<1>2. Props(l)
  BY DEF Remprop
<1>3. /\ PropsOK(l)
      /\ \/ l = props
         \/ PlistsView(l) = [k \in {j \in DOMAIN V : j # Fold[w] \/ DOMAIN V[j] \ {Fold[p]} # {}} |->
                               IF k = Fold[w] THEN InScopes!Without(V[k], {Fold[p]}) ELSE V[k]]
  BY <1>1, prop_removeView
<1> HIDE DEF l
<1>4. /\ ViewsInv' /\ PlistsView(props)' = PlistsView(l)
      /\ UNCHANGED <<GlobalsView(globals), ScopesView(stack), topTest, DefinedView(procs), AliasesView(prims)>>
  BY <1>2, <1>3, PropsViews
<1>5. UNCHANGED InScopes!vars \/ InScopes!Remove(Fold[w], Fold[p])
  BY <1>3, <1>4 DEF InScopes!vars, InScopes!Remove
<1>6. [InScopes!Next]_(InScopes!vars)
  BY <1>1, <1>5 DEF InScopes!Next
<1>7. QED BY <1>4, <1>6 DEF ScopesStep

LEMMA ErpropsStep ==
  ASSUME ScopesInv, Erprops
  PROVE  ScopesStep
<1>1. /\ ViewsInv' /\ PlistsView(props)' = PlistsView(<< >>)
      /\ UNCHANGED <<GlobalsView(globals), ScopesView(stack), topTest, DefinedView(procs), AliasesView(prims)>>
  BY NoPlists, PropsViews DEF Erprops
<1>2. InScopes!EraseProperties
  BY <1>1, NoPlists DEF InScopes!EraseProperties
<1>3. InScopes!Next
  BY <1>2 DEF InScopes!Next
<1>4. QED BY <1>1, <1>3 DEF ScopesStep

LEMMA EveryStepIsAScopesStep == ScopesInv /\ [Next]_vars => ScopesStep
<1> SUFFICES ASSUME ScopesInv, [Next]_vars PROVE ScopesStep
  OBVIOUS
<1>1. ASSUME NEW w \in program.words, NEW v \in program.things, Make(w, v) \/ Localmake(w, v)
      PROVE  ScopesStep
  BY <1>1, MakeStep, LocalmakeStep
<1>2. ASSUME NEW w \in program.words, Local(w) \/ Ern(w) PROVE ScopesStep
  BY <1>2, LocalStep, ErnStep
<1>3. ASSUME NEW w \in program.words, NEW way \in BOOLEAN, Buryname(w, way) PROVE ScopesStep
  BY <1>3, BurynameStep
<1>4. ASSUME Erns \/ Buryall \/ Unburyall \/ Erall PROVE ScopesStep
  BY <1>4, ErnsStep, BuryallStep, UnburyallStep, ErallStep
<1>5. ASSUME NEW w \in program.words, Call(w) \/ Mention(w) \/ Erase(w) PROVE ScopesStep
  <2>1. CASE Mention(w)
    BY <2>1, Stutters DEF Mention
  <2>2. QED BY <1>5, <2>1, CallStep, EraseStep
<1>6. ASSUME CallEnters \/ CallFails PROVE ScopesStep
  <2>1. CASE CallFails
    BY <2>1, Stutters DEF CallFails
  <2>2. QED BY <1>6, <2>1, CallEntersStep
<1>7. ASSUME Return \/ proc_reset_execution_state \/ PauseLine \/ PauseLineEnds \/ PauseLineFails
      PROVE  ScopesStep
  BY <1>7, ReturnStep, ResetStep, PauseStep, PauseFailsStep
<1>8. ASSUME NEW b \in Outcomes, Test(b) PROVE ScopesStep
  BY <1>8, TestStep
<1>9. ASSUME NEW w \in program.words, NEW text \in Texts, Define(w, text) PROVE ScopesStep
  BY <1>9, DefineStep
<1>10. ASSUME NEW w \in program.words, NEW new \in program.words, Copydef(w, new) PROVE ScopesStep
  BY <1>10, CopydefStep
<1>11. ASSUME Erps PROVE ScopesStep
  BY <1>11, ErpsStep
<1>12. ASSUME NEW w \in program.words, NEW mark \in Marks, NEW on \in BOOLEAN, SetMark(w, mark, on)
       PROVE  ScopesStep
  BY <1>12, SetMarkStep
<1>13. ASSUME NEW w \in program.words, NEW p \in program.words, NEW v \in program.things, Pprop(w, p, v)
       PROVE  ScopesStep
  BY <1>13, PpropStep
<1>14. ASSUME NEW w \in program.words, NEW p \in program.words, Remprop(w, p) PROVE ScopesStep
  BY <1>14, RempropStep
<1>15. ASSUME Erprops PROVE ScopesStep
  BY <1>15, ErpropsStep
<1>16. ASSUME UNCHANGED vars PROVE ScopesStep
  BY <1>16, Stutters DEF vars
<1>17. QED BY <1>1, <1>2, <1>3, <1>4, <1>5, <1>6, <1>7, <1>8, <1>9, <1>10, <1>11, <1>12, <1>13,
              <1>14, <1>15, <1>16 DEF Next

-----------------------------------------------------------------------------
(* The start: a library, and nothing else.                                 *)

LEMMA NoGlobals ==
  ASSUME Init
  PROVE  GlobalsView(globals) = [n \in {} |-> << >>]
<1>1. Shaped(globals)
  BY GlobalsInit DEF GlobalsInv
<1>2. \A i \in Slots : ~globals.slots[i].active
  BY DEF Init, Slots
<1>3. Active(globals) = {}
  BY <1>1, <1>2, ActiveAre
<1>4. Tells([n \in {} |-> << >>], globals)
  BY <1>3 DEF Tells
<1>5. QED BY <1>1, <1>4, GlobalsViewIs

LEMMA LibraryView ==
  ASSUME Init
  PROVE  /\ Unique(procs)
         /\ \A n \in DOMAIN DefinedView(procs) : DefinedView(procs)[n].marks = {}
<1> DEFINE L == program.library
<1>1. PICK k \in Nat : k = Len(L) /\ k <= MAX_PROCEDURES
  <2>1. program \in Programs
    BY DEF Init
  <2>2. L \in Seq(Words \X Texts) /\ Len(L) <= MAX_PROCEDURES
    BY <2>1, WorkspaceAssumption
  <2>3. QED BY <2>2, LenProperties
<1>2. /\ DOMAIN L = 1 .. k
      /\ \A i, j \in DOMAIN L : Fold[L[i][1]] = Fold[L[j][1]] => i = j
  <2>1. program \in Programs
    BY DEF Init
  <2>2. L \in Seq(Words \X Texts) /\ \A i, j \in DOMAIN L : Fold[L[i][1]] = Fold[L[j][1]] => i = j
    BY <2>1, WorkspaceAssumption
  <2>3. QED BY <1>1, <2>2, LenProperties
<1>3. Listed(procs)
  BY NamesInit DEF NamesInv
<1>4. /\ procs.count = k
      /\ \A i \in ProcSlots : /\ i <= k => procs.slots[i].name = L[i][1]
                              /\ ~(i <= k) => procs.slots[i].name = NoWord
                              /\ procs.slots[i].marks = {}
  <2>1. procs = Library
    BY DEF Init
  <2> HIDE DEF L
  <2>2. procs.count = k
    BY <1>1, <2>1 DEF Library, L
  <2>3. procs.slots = [i \in ProcSlots |->
                         IF i <= k THEN [name |-> L[i][1], text |-> L[i][2], marks |-> {}]
                         ELSE [name |-> NoWord, text |-> NoWord, marks |-> {}]]
    BY <1>1, <2>1 DEF Library, L, ProcSlots
  <2>4. QED BY <2>2, <2>3
<1> HIDE DEF L
<1>5. \A i \in ProcSlots : procs.slots[i].name # NoWord => i <= k /\ i \in DOMAIN L
  <2>1. ASSUME NEW i \in ProcSlots, procs.slots[i].name # NoWord PROVE i <= k /\ i \in DOMAIN L
    <3>1. i <= k
      BY <1>4, <2>1
    <3>2. i \in 1 .. k
      BY <1>1, <3>1, Sizes DEF ProcSlots
    <3>3. QED BY <1>2, <3>1, <3>2
  <2>2. QED BY <2>1
<1>6. Unique(procs)
  BY <1>2, <1>3, <1>4, <1>5 DEF Unique
<1>7. Describes(DefinedView(procs), procs)
  BY <1>6, DefinedViewDescribes
<1>8. ASSUME NEW n \in DOMAIN DefinedView(procs) PROVE DefinedView(procs)[n].marks = {}
  <2>1. PICK i \in Defined(procs) : DefinedView(procs)[n] = Meant(procs.slots[i])
    BY <1>7 DEF Describes
  <2>2. i \in ProcSlots
    BY <1>6, DefinedAre
  <2>3. QED BY <1>4, <2>1, <2>2 DEF Meant
<1>9. QED BY <1>6, <1>8

LEMMA ScopesInit == Init => ScopesInv /\ InScopes!Init
<1> SUFFICES ASSUME Init PROVE ScopesInv /\ InScopes!Init
  OBVIOUS
<1>1. stack = NoFrames /\ paused = << >> /\ prims = Builtins /\ props = << >> /\ topTest = Untested
  BY DEF Init
<1>2. PrimsInv
  <2>1. Builtins \in Seq(Words) /\ Len(Builtins) \in Nat
    BY WorkspaceAssumption, LenProperties
  <2>2. QED BY <1>1, <2>1 DEF PrimsInv
<1>3. AliasesView(prims) = {}
  BY <1>1 DEF AliasesView
<1>4. ViewsInv
  BY <1>1, <1>2, LibraryView, EmptyView, NoPlists DEF ViewsInv, SnapOK
<1>5. ScopesInv
  BY <1>4, GlobalsInit, NamesInit, PendingInit DEF ScopesInv
<1>6. InScopes!Init
  BY <1>1, <1>3, NoGlobals, LibraryView, EmptyView, NoPlists DEF InScopes!Init, Untested, InScopes!Untested
<1>7. QED BY <1>5, <1>6

LEMMA ScopesKept ==
  ScopesInv /\ [Next]_vars => ScopesInv' /\ [InScopes!Next \/ ForgetsLocals]_(InScopes!vars)
<1> SUFFICES ASSUME ScopesInv, [Next]_vars
             PROVE  ScopesInv' /\ [InScopes!Next \/ ForgetsLocals]_(InScopes!vars)
  OBVIOUS
<1>1. ScopesStep
  BY EveryStepIsAScopesStep
<1>2. GlobalsInv' /\ NamesInv'
  BY GlobalsKept, NamesKept DEF ScopesInv
<1>3. PendingInv'
  <2>1. Len(stack.frames) \in Nat
    BY ViewIs DEF ScopesInv, ViewsInv
  <2>2. QED BY <2>1, PendingKept DEF ScopesInv
<1>4. QED BY <1>1, <1>2, <1>3 DEF ScopesInv, ScopesStep

\* The workspace implements Scopes, but for the local that a frame has no
\* room to count: at every other step, whatever a program says and however
\* full its tables and arena are, a name means what a stack of scopes and four
\* dictionaries say, in whatever case it is written (variables.c, frame.c,
\* procedures.c, properties.c).  With that local the frame forgets the locals
\* it had (frame.h), and its scope is what is left from then on.
THEOREM WorkspaceImplementsScopes == Spec => ImplementsScopes
<1>1. Init => ScopesInv /\ InScopes!Init
  BY ScopesInit
<1>2. ScopesInv /\ [Next]_vars => ScopesInv' /\ [InScopes!Next \/ ForgetsLocals]_(InScopes!vars)
  BY ScopesKept
<1>3. QED BY <1>1, <1>2, PTL DEF Spec, ImplementsScopes
=============================================================================
