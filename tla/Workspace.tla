----------------------------- MODULE Workspace -----------------------------
(***************************************************************************)
(* The tables behind a Logo name (core/variables.c, frame.c,               *)
(* frame_arena.c, procedures.c, properties.c, primitives.c and the         *)
(* primitives that work on them):                                          *)
(*                                                                         *)
(*   - globals: slots that are never moved, found through a hash index     *)
(*     with linear probing that is rebuilt when one is erased;             *)
(*   - frames: an arena of words that frames grow in, innermost at its     *)
(*     end, reused by a tail call whose inputs fit;                        *)
(*   - procedures: slots, and what each word was last found to name, kept  *)
(*     on its atom until a table changes;                                  *)
(*   - property lists: a list of lists of cells.                           *)
(*                                                                         *)
(* A word is an atom, and two words with the same letters in different     *)
(* case are two atoms and one name (Fold).  A primitive that takes a list  *)
(* of names does them in turn up to the first error; one name at a time is *)
(* modelled.  An operation that reports an error before it changes         *)
(* anything is no step.                                                    *)
(***************************************************************************)
EXTENDS Integers, Sequences, FiniteSets

CONSTANTS Words, Fold,        \* words; the name each spells
          Home,               \* name -> where its probes of the index start
          Things, NoThing,    \* what can be stored; VALUE_NONE
          Texts, InputsOf,    \* bodies of procedures; the words of their inputs
          Marks,              \* buried, stepped, traced
          Builtins,           \* the words of the registered primitives, a sequence
          NoWord,             \* an empty slot's name
          MAX_GLOBAL_VARIABLES, GLOBAL_HASH_SIZE, MAX_PROCEDURES, MAX_PRIMITIVES,
          MAX_CURRENT_PROC_DEPTH,
          ArenaWords, FRAME_HEADER_WORDS, BINDING_WORDS,
          LOCAL_COUNTS,       \* how many values local_count, a uint8_t, can have
          PendingCalls,       \* bound: how many calls wait for their inputs
          SpareWords,         \* the room a new frame has for values
          Programs,           \* what programs are made of: [verbs, words, things, library]
          PausedLocals        \* may a line at the prompt of a pause say local itself?

ASSUME WorkspaceAssumption ==
  /\ MAX_GLOBAL_VARIABLES \in Nat \ {0} /\ MAX_PROCEDURES \in Nat \ {0}
  /\ GLOBAL_HASH_SIZE \in Nat /\ GLOBAL_HASH_SIZE > MAX_GLOBAL_VARIABLES
  /\ FRAME_HEADER_WORDS \in Nat \ {0} /\ BINDING_WORDS \in Nat \ {0}
  /\ ArenaWords \in Nat /\ SpareWords \in Nat /\ MAX_CURRENT_PROC_DEPTH \in Nat
  /\ LOCAL_COUNTS \in Nat \ {0} /\ PendingCalls \in Nat
  /\ \A w \in Words : Home[Fold[w]] \in 0..(GLOBAL_HASH_SIZE - 1)
  /\ NoWord \notin Words /\ NoThing \notin Things /\ PausedLocals \in BOOLEAN
  /\ "buried" \in Marks /\ Builtins \in Seq(Words)
  /\ \A text \in Texts : InputsOf[text] \in Seq(Words)
  /\ \A p \in Programs : /\ p.words \subseteq Words /\ p.things \subseteq Things
                         /\ p.library \in Seq(Words \X Texts) /\ Len(p.library) <= MAX_PROCEDURES
                         /\ \A i, j \in DOMAIN p.library :     \* a name is defined once
                              Fold[p.library[i][1]] = Fold[p.library[j][1]] => i = j

VARIABLES globals,    \* [slots, count, hash]
          stack,      \* [top, frames], innermost frame first
          current,    \* current_proc_depth: how many names current_proc_stack holds
          paused,     \* << >>, or the snapshot a line at a pause began with
          pending,    \* the calls whose inputs are still being evaluated: the slot
                      \* of each and the frames there were, innermost first
          topTest,    \* global_test_valid and global_test_value
          procs,      \* [slots, count]
          prims,      \* the words of the primitives: built in, then aliases
          memo,       \* word -> [kind, at]: the binding its atom remembers
          props,      \* property_lists: <<name, property, thing, ...>> each
          program     \* what this program is made of

vars == <<globals, stack, current, paused, pending, topTest, procs, prims, memo, props, program>>

Untested == "untested"
Outcomes == {"true", "false"}
Same(w, x) == w \in Words /\ x \in Words /\ Fold[w] = Fold[x]
First(S)   == CHOOSE i \in S : \A j \in S : i <= j
Says(verb) == verb \in program.verbs

-----------------------------------------------------------------------------
(* Globals.  A probe of the index ends at an empty entry or at the name.    *)

Probe(w, p) == (Home[Fold[w]] + p) % GLOBAL_HASH_SIZE

FoundAt(g, w, p) ==
  LET i == g.hash[Probe(w, p)] IN i # 0 /\ g.slots[i].active /\ Same(g.slots[i].name, w)

find_global(g, w) ==
  LET ends == {p \in 0..(GLOBAL_HASH_SIZE - 1) : g.hash[Probe(w, p)] = 0 \/ FoundAt(g, w, p)}
  IN  IF ends = {} THEN 0 ELSE g.hash[Probe(w, First(ends))]

HashInsert(hash, w, i) ==
  [hash EXCEPT ![Probe(w, First({p \in 0..(GLOBAL_HASH_SIZE - 1) :
                                   hash[Probe(w, p)] \in {0, i}}))] = i]

EmptyHash == [p \in 0..(GLOBAL_HASH_SIZE - 1) |-> 0]

Rebuilt(g) ==
  LET upTo[i \in 0..g.count] ==
        IF i = 0 THEN EmptyHash
        ELSE IF g.slots[i].active THEN HashInsert(upTo[i - 1], g.slots[i].name, i)
        ELSE upTo[i - 1]
  IN  [g EXCEPT !.hash = upTo[g.count]]

\* The first free slot, or nothing when the table is full.
NewGlobal(g, w, v) ==
  LET free == {i \in 1..MAX_GLOBAL_VARIABLES : ~g.slots[i].active}
  IN  IF free = {} THEN g
      ELSE [slots |-> [g.slots EXCEPT ![First(free)] = [name |-> w, thing |-> v, active |-> TRUE,
                                                        buried |-> FALSE]],
            count |-> IF First(free) > g.count THEN First(free) ELSE g.count,
            hash  |-> HashInsert(g.hash, w, First(free))]

GlobalSet(g, w, v) ==
  LET i == find_global(g, w)
  IN  IF i # 0 THEN [g EXCEPT !.slots[i].thing = v] ELSE NewGlobal(g, w, v)

GlobalDeclare(g, w) == IF find_global(g, w) # 0 THEN g ELSE NewGlobal(g, w, NoThing)

EraseGlobals(g, gone) ==
  Rebuilt([g EXCEPT !.slots = [i \in DOMAIN @ |-> IF i \in gone
                                                  THEN [@[i] EXCEPT !.active = FALSE, !.thing = NoThing]
                                                  ELSE @[i]]])

BuryGlobals(g, some, way) ==
  [g EXCEPT !.slots = [i \in DOMAIN @ |-> IF i \in some THEN [@[i] EXCEPT !.buried = way] ELSE @[i]]]

Active(g) == {i \in 1..g.count : g.slots[i].active}

-----------------------------------------------------------------------------
(* Frames.  A frame is its header, its bindings, inputs first, and what is  *)
(* left of the room it was given for values.  The evaluator never pushes a  *)
(* value on a frame, so the bindings can have all of it.                    *)

NoFrames == [top |-> 0, frames |-> << >>]

Bound(words, things) == [i \in DOMAIN things |-> [name |-> words[i], thing |-> things[i]]]

NewFrame(at, size, text, args) ==
  [at |-> at, size |-> size, inputs |-> Len(args), binds |-> Bound(InputsOf[text], args), test |-> Untested]

frame_push(s, text, args) ==
  LET size == FRAME_HEADER_WORDS + Len(args) * BINDING_WORDS + SpareWords
  IN  IF s.top + size > ArenaWords THEN s
      ELSE [top |-> s.top + size, frames |-> <<NewFrame(s.top, size, text, args)>> \o s.frames]

frame_pop(s) == [top |-> s.frames[1].at, frames |-> Tail(s.frames)]

\* Mutant: keep the locals of the caller.
ReuseKeepingLocals(s, text, args) ==
  [s EXCEPT !.frames[1].inputs = Len(args), !.frames[1].test = Untested,
            !.frames[1].binds = Bound(InputsOf[text], args)
                                  \o SubSeq(@, s.frames[1].inputs + 1, Len(@))]

\* Only for no more inputs than the frame has.  Its place and size stay.
frame_reuse(s, text, args) == [s EXCEPT !.frames[1] = NewFrame(@.at, @.size, text, args)]

\* The place of a word in a frame's bindings, or 0: the first wins.
frame_find(f, w) ==
  LET here == {i \in DOMAIN f.binds : Same(f.binds[i].name, w)}
  IN  IF here = {} THEN 0 ELSE First(here)

\* How many frames out the innermost one that binds a word is, or 0.
BinderOf(s, w) ==
  LET binding == {d \in DOMAIN s.frames : frame_find(s.frames[d], w) # 0}
  IN  IF binding = {} THEN 0 ELSE First(binding)

SetBinding(s, d, w, v) ==
  [s EXCEPT !.frames[d] = [@ EXCEPT !.binds[frame_find(s.frames[d], w)].thing = v]]

Free(f) == f.size - FRAME_HEADER_WORDS - Len(f.binds) * BINDING_WORDS

CanAdd(s) == /\ s.frames[1].at + s.frames[1].size = s.top
             /\ Free(s.frames[1]) >= BINDING_WORDS \/ s.top + BINDING_WORDS <= ArenaWords

NoRoomToCount(f) == Len(f.binds) - f.inputs = LOCAL_COUNTS - 1

\* The count of locals is as wide as a uint8_t: one too many makes it 0, and
\* the frame has its inputs and the room it grew to, and no locals.
Grown(f, more, w) ==
  [f EXCEPT !.size = @ + more,
            !.binds = IF NoRoomToCount(f) THEN SubSeq(@, 1, f.inputs)
                      ELSE Append(@, [name |-> w, thing |-> NoThing])]

frame_add_local(s, w) ==
  LET more == IF Free(s.frames[1]) < BINDING_WORDS THEN BINDING_WORDS ELSE 0
  IN  [top |-> s.top + more, frames |-> [s.frames EXCEPT ![1] = Grown(@, more, w)]]

Outermost(s, n) == SubSeq(s.frames, Len(s.frames) - n + 1, Len(s.frames))

frame_stack_restore(s, snap) ==
  [top |-> IF snap.top <= s.top THEN snap.top ELSE s.top, frames |-> Outermost(s, snap.depth)]

InProcedure == stack.frames # << >>

\* Frames that a line at the prompt of a pause did not find there: what it
\* called, it also leaves.
Own == Len(stack.frames) > IF paused = << >> THEN 0 ELSE paused[1].depth

\* Where var_exists and its kin find a word.
var_exists(w) ==
  \/ BinderOf(stack, w) # 0
  \/ LET i == find_global(globals, w) IN i # 0 /\ globals.slots[i].thing # NoThing

-----------------------------------------------------------------------------
(* Procedures, primitives and what a word names.                            *)

find_procedure(p, w) ==
  LET here == {i \in 1..p.count : Same(p.slots[i].name, w)}
  IN  IF here = {} THEN 0 ELSE First(here)

primitive_find(w) ==
  LET here == {i \in DOMAIN prims : Same(prims[i], w)} IN IF here = {} THEN 0 ELSE First(here)

Unresolved == [w \in Words |-> [kind |-> "unresolved", at |-> 0]]

proc_define(p, w, text) ==
  LET i    == find_procedure(p, w)
      free == {k \in 1..MAX_PROCEDURES : p.slots[k].name = NoWord}
  IN  IF i # 0 THEN [p EXCEPT !.slots[i].text = text]
      ELSE IF free = {} THEN p
      ELSE [slots |-> [p.slots EXCEPT ![First(free)] = [name |-> w, text |-> text, marks |-> {}]],
            count |-> IF First(free) > p.count THEN First(free) ELSE p.count]

EraseProcs(p, gone) ==
  [p EXCEPT !.slots = [i \in DOMAIN @ |-> IF i \in gone THEN [@[i] EXCEPT !.name = NoWord] ELSE @[i]]]

Marked(slot, mark, on) == [slot EXCEPT !.marks = IF on THEN @ \cup {mark} ELSE @ \ {mark}]

MarkProcs(p, some, mark, on) ==
  [p EXCEPT !.slots = [i \in DOMAIN @ |->
                               IF i \in some THEN Marked(@[i], mark, on) ELSE @[i]]]

Defined(p) == {i \in 1..p.count : p.slots[i].name # NoWord}
Exposed(p) == {i \in Defined(p) : "buried" \notin p.slots[i].marks}

\* What a word names: from its atom, else from the tables, primitives first.
Looked(w) ==
  IF primitive_find(w) # 0 THEN [kind |-> "primitive", at |-> primitive_find(w)]
  ELSE IF find_procedure(procs, w) # 0 THEN [kind |-> "procedure", at |-> find_procedure(procs, w)]
  ELSE [kind |-> "none", at |-> 0]

resolve_word(w) ==
  IF \/ memo[w].kind \in {"primitive", "none"}
     \/ memo[w].kind = "procedure" /\ procs.slots[memo[w].at].name # NoWord
  THEN memo[w] ELSE Looked(w)

-----------------------------------------------------------------------------
(* Property lists.                                                          *)

Entry(w) == LET here == {i \in DOMAIN props : Same(props[i][1], w)}
            IN  IF here = {} THEN 0 ELSE First(here)

\* The cell of a property in an entry, or 0.  Names are at even places.
Cell(entry, p) ==
  LET here == {i \in DOMAIN entry : i % 2 = 0 /\ Same(entry[i], p)}
  IN  IF here = {} THEN 0 ELSE First(here)

\* `made` is the number of cells there still were.
prop_put(w, p, v, made) ==
  LET e == Entry(w)
      c == IF e = 0 THEN 0 ELSE Cell(props[e], p)
  IN  IF e = 0 THEN IF made < 4 THEN props ELSE << <<w, p, v>> >> \o props
      ELSE IF c # 0 THEN [props EXCEPT ![e][c + 1] = v]
      ELSE IF made < 2 THEN props
      ELSE [props EXCEPT ![e] = <<@[1], p, v>> \o Tail(@)]

prop_remove(w, p) ==
  LET e == Entry(w)
      c == IF e = 0 THEN 0 ELSE Cell(props[e], p)
  IN  IF c = 0 THEN props
      ELSE [props EXCEPT ![e] = SubSeq(@, 1, c - 1) \o SubSeq(@, c + 2, Len(@))]

-----------------------------------------------------------------------------
(* What the program says.                                                   *)

Library == [slots |-> [i \in 1..MAX_PROCEDURES |->
                         IF i <= Len(program.library)
                         THEN [name |-> program.library[i][1], text |-> program.library[i][2],
                               marks |-> {}]
                         ELSE [name |-> NoWord, text |-> NoWord, marks |-> {}]],
            count |-> Len(program.library)]

Init == /\ program \in Programs
        /\ globals = [slots |-> [i \in 1..MAX_GLOBAL_VARIABLES |->
                                   [name |-> NoWord, thing |-> NoThing, active |-> FALSE,
                                    buried |-> FALSE]],
                      count |-> 0, hash |-> EmptyHash]
        /\ stack = NoFrames /\ current = 0 /\ paused = << >> /\ pending = << >> /\ topTest = Untested
        /\ procs = Library /\ prims = Builtins /\ memo = Unresolved /\ props = << >>

Locals(s) ==
  stack' = s /\ UNCHANGED <<globals, current, paused, pending, topTest, procs, prims, memo, props, program>>
Globals(g) ==
  globals' = g /\ UNCHANGED <<stack, current, paused, pending, topTest, procs, prims, memo, props, program>>
\* A change of the procedures drops every remembered binding.
Procs(p) == /\ procs' = p /\ memo' = Unresolved
            /\ UNCHANGED <<globals, stack, current, paused, pending, topTest, prims, props, program>>
Props(l) ==
  props' = l /\ UNCHANGED <<globals, stack, current, paused, pending, topTest, procs, prims, memo, program>>

\* make and name
Make(w, v) ==
  /\ Says("make")
  /\ LET d == BinderOf(stack, w)
     IN  IF d # 0 THEN Locals(SetBinding(stack, d, w, v)) ELSE Globals(GlobalSet(globals, w, v))

Local(w) ==
  /\ Says("local") /\ (paused # << >> => Own \/ PausedLocals)
  /\ IF ~InProcedure THEN Globals(GlobalDeclare(globals, w))
     ELSE CanAdd(stack) /\ Locals(frame_add_local(stack, w))

Assigned(s, w, v) ==
  LET d == BinderOf(s, w) IN IF d # 0 THEN SetBinding(s, d, w, v) ELSE s

\* localmake: local, then make; with no room for the declaration nothing is
\* made.  A declaration that finds no room to count leaves make to find some
\* other binding of the name.
Localmake(w, v) ==
  /\ Says("localmake") /\ (paused # << >> => Own \/ PausedLocals)
  /\ IF ~InProcedure THEN Globals(GlobalSet(globals, w, v))
     ELSE /\ CanAdd(stack)
          /\ LET s == frame_add_local(stack, w)
             IN  /\ stack' = Assigned(s, w, v)
                 /\ globals' = IF BinderOf(s, w) # 0 THEN globals ELSE GlobalSet(globals, w, v)
          /\ UNCHANGED <<current, paused, pending, topTest, procs, prims, memo, props, program>>

\* ern: a local of that name passes the test, and the global goes.
Ern(w) == Says("ern") /\ var_exists(w)
          /\ Globals(EraseGlobals(globals, {find_global(globals, w)}))

Erns == Says("ern") /\ Globals(EraseGlobals(globals, {i \in Active(globals) : ~globals.slots[i].buried}))

Buryname(w, way) ==
  Says("buryname") /\ var_exists(w) /\ Globals(BuryGlobals(globals, {find_global(globals, w)}, way))

Valued(g) == {i \in Active(g) : g.slots[i].thing # NoThing}

Buryall == /\ Says("buryname") \/ Says("mark")
           /\ procs' = MarkProcs(procs, Defined(procs), "buried", TRUE)
           /\ globals' = BuryGlobals(globals, Valued(globals), TRUE)
           /\ UNCHANGED <<stack, current, paused, pending, topTest, prims, memo, props, program>>

Unburyall == /\ Says("buryname") \/ Says("mark")
             /\ procs' = MarkProcs(procs, Defined(procs), "buried", FALSE)
             /\ globals' = BuryGlobals(globals, Active(globals), FALSE)
             /\ UNCHANGED <<stack, current, paused, pending, topTest, prims, memo, props, program>>

\* erall spares what is buried, but for the property lists.
Erall == /\ Says("erall")
         /\ procs' = EraseProcs(procs, Exposed(procs)) /\ memo' = Unresolved
         /\ globals' = EraseGlobals(globals, {i \in Active(globals) : ~globals.slots[i].buried})
         /\ props' = << >>
         /\ UNCHANGED <<stack, current, paused, pending, topTest, prims, program>>

-----------------------------------------------------------------------------

PushCurrent(n) == IF n < MAX_CURRENT_PROC_DEPTH THEN n + 1 ELSE n
PopCurrent(n)  == IF n = 0 THEN 0 ELSE n - 1

Remember(w) == memo' = [memo EXCEPT ![w] = resolve_word(w)]

Inputs(at) == [1..Len(InputsOf[procs.slots[at].text]) -> program.things]

\* The frame of a call that has its inputs, if there is room.
eval_push_proc_call(at) ==
  \E args \in Inputs(at) :
    LET s == frame_push(stack, procs.slots[at].text, args)
    IN  /\ stack' = s
        /\ current' = IF s = stack THEN current ELSE PushCurrent(current)

\* step_proc_call takes the frame of the caller if the inputs fit, and else
\* pushes another; when that fails the call is over.  The code takes it only
\* for the procedure the frame is of; a frame here does not say which that is.
step_proc_call(at) ==
  \E args \in Inputs(at) :
    LET outer  == frame_pop(stack)
        pushed == frame_push(outer, procs.slots[at].text, args)
    IN  IF Len(args) <= stack.frames[1].inputs
        THEN /\ stack' = frame_reuse(stack, procs.slots[at].text, args)
             /\ current' = PushCurrent(PopCurrent(current))
        ELSE /\ stack' = pushed
             /\ current' = IF pushed = outer THEN PopCurrent(current)
                           ELSE PushCurrent(PopCurrent(current))

Enter(at) == eval_push_proc_call(at) \/ (Own /\ step_proc_call(at))

\* A word of a running list that names a procedure.  One that takes inputs
\* has its slot now, and waits for them.
Call(w) ==
  /\ Says("call") /\ resolve_word(w).kind = "procedure" /\ Remember(w)
  /\ LET at == resolve_word(w).at
     IN  IF InputsOf[procs.slots[at].text] = << >> THEN Enter(at) /\ pending' = pending
         ELSE /\ Len(pending) < PendingCalls
              /\ pending' = <<[at |-> at, depth |-> Len(stack.frames)]>> \o pending
              /\ UNCHANGED <<stack, current>>
  /\ UNCHANGED <<globals, paused, topTest, procs, prims, props, program>>

\* The innermost call that waits, when what it called for its inputs is over.
\* A line at a pause ends none that it found there.
Waiting == /\ pending # << >> /\ (paused # << >> => pending # paused[1].pending)
           /\ pending[1].depth = Len(stack.frames)

\* With its inputs it enters what its slot holds by now.  A procedure erased
\* or left without inputs in the meantime has fewer than the call brings.
CallEnters ==
  /\ Waiting
  /\ LET slot == procs.slots[pending[1].at]
     IN  slot.name # NoWord /\ InputsOf[slot.text] # << >>
  /\ Enter(pending[1].at) /\ pending' = Tail(pending)
  /\ UNCHANGED <<globals, paused, topTest, procs, prims, memo, props, program>>

\* An input that fails, throws, stops or outputs, or too many or too few.
CallFails ==
  /\ Waiting /\ pending' = Tail(pending)
  /\ UNCHANGED <<globals, stack, current, paused, topTest, procs, prims, memo, props, program>>

\* A word that is looked up and is not called, or turns out to mean nothing.
Mention(w) ==
  /\ Says("define") /\ Remember(w)
  /\ UNCHANGED <<globals, stack, current, paused, pending, topTest, procs, prims, props, program>>

\* Stop, output, the end of the body, or an error or throw passing through.
Return ==
  /\ Own /\ (pending # << >> => pending[1].depth < Len(stack.frames))
  /\ stack' = frame_pop(stack) /\ current' = PopCurrent(current)
  /\ UNCHANGED <<globals, paused, pending, topTest, procs, prims, memo, props, program>>

\* An error that reaches the top-level prompt, or throw "toplevel from anywhere.
proc_reset_execution_state ==
  /\ InProcedure /\ stack' = NoFrames /\ current' = 0 /\ paused' = << >> /\ pending' = << >>
  /\ UNCHANGED <<globals, topTest, procs, prims, memo, props, program>>

Test(b) ==
  /\ Says("test")
  /\ IF InProcedure THEN stack' = [stack EXCEPT !.frames[1].test = b] /\ topTest' = topTest
                    ELSE topTest' = b /\ stack' = stack
  /\ UNCHANGED <<globals, current, paused, pending, procs, prims, memo, props, program>>

\* A line typed at the prompt of a pause begins with a snapshot ...
PauseLine ==
  /\ Says("pause") /\ current # 0 /\ paused = << >>
  /\ paused' = <<[depth |-> Len(stack.frames), top |-> stack.top, names |-> current,
                 pending |-> pending]>>
  /\ UNCHANGED <<globals, stack, current, pending, topTest, procs, prims, memo, props, program>>

\* ... which a line that ends without an error has no use for ...
PauseLineEnds ==
  /\ paused # << >> /\ paused' = << >>
  /\ Len(stack.frames) = paused[1].depth /\ pending = paused[1].pending
  /\ UNCHANGED <<globals, stack, current, pending, topTest, procs, prims, memo, props, program>>

\* ... and an error goes back to.
PauseLineFails ==
  /\ paused # << >> /\ paused' = << >>
  /\ stack' = frame_stack_restore(stack, paused[1])
  /\ current' = paused[1].names /\ pending' = paused[1].pending
  /\ UNCHANGED <<globals, topTest, procs, prims, memo, props, program>>

-----------------------------------------------------------------------------

\* define and to ... end
Define(w, text) ==
  Says("define") /\ primitive_find(w) = 0 /\ Procs(proc_define(procs, w, text))

\* Mutant: a new primitive does not make words forget what they named.
AliasRemembered(w) ==
  /\ prims' = Append(prims, w)
  /\ UNCHANGED <<globals, stack, current, paused, pending, topTest, procs, memo, props, program>>

Alias(w) ==
  /\ prims' = Append(prims, w) /\ memo' = Unresolved
  /\ UNCHANGED <<globals, stack, current, paused, pending, topTest, procs, props, program>>

Copydef(w, new) ==
  /\ Says("copydef") /\ primitive_find(new) = 0
  /\ IF primitive_find(w) # 0 THEN Len(prims) < MAX_PRIMITIVES /\ Alias(new)
     ELSE /\ find_procedure(procs, w) # 0
          /\ Procs(proc_define(procs, new, procs.slots[find_procedure(procs, w)].text))

Erase(w) == /\ Says("define") /\ find_procedure(procs, w) # 0
            /\ Procs(EraseProcs(procs, {find_procedure(procs, w)}))

Erps == Says("define") /\ Procs(EraseProcs(procs, Exposed(procs)))

\* bury, step, trace and their opposites
SetMark(w, mark, on) ==
  /\ Says("mark") /\ find_procedure(procs, w) # 0
  /\ procs' = MarkProcs(procs, {find_procedure(procs, w)}, mark, on)
  /\ UNCHANGED <<globals, stack, current, paused, pending, topTest, prims, memo, props, program>>

Pprop(w, p, v) == Says("pprop") /\ \E made \in 0..4 : Props(prop_put(w, p, v, made))
Remprop(w, p)  == Says("pprop") /\ Props(prop_remove(w, p))
Erprops        == Says("pprop") /\ Props(<< >>)

Next == \/ \E w \in program.words, v \in program.things : Make(w, v) \/ Localmake(w, v)
        \/ \E w \in program.words : Local(w) \/ Ern(w)
        \/ \E w \in program.words, way \in BOOLEAN : Buryname(w, way)
        \/ Erns \/ Buryall \/ Unburyall \/ Erall
        \/ \E w \in program.words : Call(w) \/ Mention(w) \/ Erase(w)
        \/ CallEnters \/ CallFails
        \/ Return \/ proc_reset_execution_state
        \/ \E b \in Outcomes : Test(b)
        \/ PauseLine \/ PauseLineEnds \/ PauseLineFails
        \/ \E w \in program.words, text \in Texts : Define(w, text)
        \/ \E w, new \in program.words : Copydef(w, new)
        \/ Erps
        \/ \E w \in program.words, mark \in Marks, on \in BOOLEAN : SetMark(w, mark, on)
        \/ \E w, p \in program.words, v \in program.things : Pprop(w, p, v)
        \/ \E w, p \in program.words : Remprop(w, p)
        \/ Erprops

Spec == Init /\ [][Next]_vars

-----------------------------------------------------------------------------
(* Properties.                                                              *)

\* Every structure has the shape the C types give it (variables.c, frame.c,
\* procedures.c).
TypeOK ==
  /\ globals.slots \in [1..MAX_GLOBAL_VARIABLES ->
                          [name : Words \cup {NoWord}, thing : Things \cup {NoThing},
                           active : BOOLEAN, buried : BOOLEAN]]
  /\ globals.hash \in [0..(GLOBAL_HASH_SIZE - 1) -> 0..MAX_GLOBAL_VARIABLES]
  /\ stack.top \in 0..ArenaWords
  /\ procs.slots \in [1..MAX_PROCEDURES -> [name : Words \cup {NoWord}, text : Texts \cup {NoWord},
                                            marks : SUBSET Marks]]
  /\ \A w \in Words : memo[w].kind \in {"unresolved", "primitive", "procedure", "none"}
  /\ current \in 0..MAX_CURRENT_PROC_DEPTH /\ current <= Len(stack.frames)

\* The index of variables.c agrees with the table it stands for: it finds
\* every active slot, nothing else, and no name has two.
LookupExact ==
  \A w \in Words : LET here == {i \in Active(globals) : Same(globals.slots[i].name, w)}
                   IN  IF here = {} THEN find_global(globals, w) = 0
                       ELSE here = {find_global(globals, w)}

\* What an atom remembers is what a search of the tables would find now:
\* every change that could alter it has made the atom forget (procedures.c).
BindingsCurrent == \A w \in Words : memo[w].kind # "unresolved" => memo[w] = Looked(w)

\* Frames lie end to end in the arena, the innermost up to its top, and each
\* has room for its bindings (frame.c).
FramesTile ==
  /\ \A d \in DOMAIN stack.frames :
       /\ Free(stack.frames[d]) >= 0
       /\ stack.frames[d].at + stack.frames[d].size
            = IF d = 1 THEN stack.top ELSE stack.frames[d - 1].at
       /\ d = Len(stack.frames) => stack.frames[d].at = 0
  /\ stack.frames = << >> => stack.top = 0

\* Every frame's procedure has its name on current_proc_stack, without which
\* pause refuses.  This is for calls no deeper than that stack: a name that
\* finds no room is dropped, and its procedure's return takes another away.
NamesTold == current = Len(stack.frames)
Shallow   == Len(stack.frames) <= MAX_CURRENT_PROC_DEPTH

\* Together: what the tables keep beside themselves is true.
TablesAgree == TypeOK /\ LookupExact /\ BindingsCurrent /\ FramesTile /\ NamesTold

\* The tables are the dictionaries of Scopes: where a name is bound twice in
\* a frame the first binding counts, a slot's place and its leftovers do not,
\* and an entry with no properties is no property list.  One step is not of
\* Scopes: the local that a frame has no room to count, with which it loses
\* every local it had (frame.h).
FoldedWords(S) == {Fold[w] : w \in S}

SlotOf(g, n) == CHOOSE i \in Active(g) : Fold[g.slots[i].name] = n

GlobalsView(g) ==
  [n \in {Fold[g.slots[i].name] : i \in Active(g)} |->
     [thing |-> g.slots[SlotOf(g, n)].thing, buried |-> g.slots[SlotOf(g, n)].buried]]

ScopeOf(f) ==
  [bound |-> [n \in {Fold[f.binds[i].name] : i \in DOMAIN f.binds} |->
                f.binds[First({i \in DOMAIN f.binds : Fold[f.binds[i].name] = n})].thing],
   test  |-> f.test]

ScopesView(s) == [d \in DOMAIN s.frames |-> ScopeOf(s.frames[d])]

ProcOf(p, n) == CHOOSE i \in Defined(p) : Fold[p.slots[i].name] = n

DefinedView(p) ==
  [n \in {Fold[p.slots[i].name] : i \in Defined(p)} |->
     [text |-> p.slots[ProcOf(p, n)].text, marks |-> p.slots[ProcOf(p, n)].marks]]

AliasesView(s) == {Fold[s[i]] : i \in DOMAIN s \ DOMAIN Builtins}

PairsOf(entry) ==
  [p \in {Fold[entry[i]] : i \in {j \in DOMAIN entry : j > 1 /\ j % 2 = 0}} |->
     entry[First({i \in DOMAIN entry : i > 1 /\ i % 2 = 0 /\ Fold[entry[i]] = p}) + 1]]

ListOf(l, n) == CHOOSE e \in DOMAIN l : Fold[l[e][1]] = n

PlistsView(l) ==
  [n \in {Fold[l[e][1]] : e \in {k \in DOMAIN l : Len(l[k]) > 1}} |-> PairsOf(l[ListOf(l, n)])]

InScopes ==
  INSTANCE Scopes WITH
    Names    <- FoldedWords(Words),
    InputsOf <- [text \in Texts |-> [i \in DOMAIN InputsOf[text] |-> Fold[InputsOf[text][i]]]],
    Builtin  <- {Fold[Builtins[i]] : i \in DOMAIN Builtins},
    globals  <- GlobalsView(globals),
    scopes   <- ScopesView(stack),
    defined  <- DefinedView(procs),
    aliases  <- AliasesView(prims),
    plists   <- PlistsView(props)

ForgetsLocals ==
  /\ InProcedure /\ NoRoomToCount(stack.frames[1])
  /\ \E w \in program.words : Local(w) \/ \E v \in program.things : Localmake(w, v)

ImplementsScopes == InScopes!Init /\ [][InScopes!Next \/ ForgetsLocals]_(InScopes!vars)
=============================================================================
