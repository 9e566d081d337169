------------------------------ MODULE Scopes ------------------------------
(***************************************************************************)
(* What the workspace promises a programmer: names mean what the manual    *)
(* says, whatever letters they are written in.  Here are a stack of scopes *)
(* and four dictionaries; there are no slots, no hash index, no arena, no  *)
(* memo and no lists of cells.  Any operation may also find no room, and   *)
(* then it changes nothing.                                                *)
(***************************************************************************)
EXTENDS Integers, Sequences

CONSTANTS Names,      \* names, whatever their case
          Things,     \* what a variable or property can be
          NoThing,    \* declared, but not given anything
          Texts,      \* what a procedure can be defined as
          InputsOf,   \* text -> the names of its inputs
          Marks,      \* bury, step and trace: marks a procedure can wear
          Builtin     \* the names of primitives

VARIABLES globals,    \* name -> [thing, buried]
          scopes,     \* innermost first: [bound: name -> thing, test]
          topTest,    \* what the last test at top level said
          defined,    \* name -> [text, marks]
          aliases,    \* names that copydef has made primitives
          plists      \* name -> (property -> thing)

vars == <<globals, scopes, topTest, defined, aliases, plists>>

Untested == "untested"
Outcomes == {"true", "false"}

Without(f, gone) == [n \in DOMAIN f \ gone |-> f[n]]
With(f, n, x)    == [k \in DOMAIN f \cup {n} |-> IF k = n THEN x ELSE f[k]]

\* The innermost scope that binds a name, or 0 when none does.
BinderOf(n) ==
  LET binding == {i \in 1..Len(scopes) : n \in DOMAIN scopes[i].bound}
  IN  IF binding = {} THEN 0 ELSE CHOOSE i \in binding : \A j \in binding : i <= j

GlobalThing(n, v) ==
  globals' = With(globals, n, [thing  |-> v,
                               buried |-> n \in DOMAIN globals /\ globals[n].buried])

\* make: to the innermost binding, else to the global of that name.
Make(n, v) ==
  /\ IF BinderOf(n) # 0
     THEN scopes' = [scopes EXCEPT ![BinderOf(n)].bound[n] = v] /\ globals' = globals
     ELSE GlobalThing(n, v) /\ scopes' = scopes
  /\ UNCHANGED <<topTest, defined, aliases, plists>>

\* local: a name the scope already has stays as it is.
Local(n) ==
  /\ IF scopes # << >>
     THEN /\ scopes' = [scopes EXCEPT ![1].bound =
                          IF n \in DOMAIN @ THEN @ ELSE With(@, n, NoThing)]
          /\ globals' = globals
     ELSE /\ globals' = IF n \in DOMAIN globals THEN globals
                        ELSE With(globals, n, [thing |-> NoThing, buried |-> FALSE])
          /\ scopes' = scopes
  /\ UNCHANGED <<topTest, defined, aliases, plists>>

\* localmake: local and make in one step.
LocalMake(n, v) ==
  /\ IF scopes # << >>
     THEN /\ scopes' = [scopes EXCEPT ![1].bound = With(@, n, v)]
          /\ globals' = globals
     ELSE GlobalThing(n, v) /\ scopes' = scopes
  /\ UNCHANGED <<topTest, defined, aliases, plists>>

EraseNames(gone) ==
  globals' = Without(globals, gone) /\ UNCHANGED <<scopes, topTest, defined, aliases, plists>>

BuryNames(some, way) ==
  /\ globals' = [n \in DOMAIN globals |-> IF n \in some THEN [globals[n] EXCEPT !.buried = way]
                                          ELSE globals[n]]
  /\ UNCHANGED <<scopes, topTest, defined, aliases, plists>>

Unburied  == {n \in DOMAIN globals : ~globals[n].buried}
HasThing  == {n \in DOMAIN globals : globals[n].thing # NoThing}
Exposed   == {n \in DOMAIN defined : "buried" \notin defined[n].marks}

\* A name that is an input twice is the first of them.
InputNamed(text, n) ==
  CHOOSE i \in DOMAIN InputsOf[text] :
    InputsOf[text][i] = n /\ \A j \in 1..(i - 1) : InputsOf[text][j] # n

Scope(text, args) ==
  [bound |-> [n \in {InputsOf[text][i] : i \in DOMAIN args} |-> args[InputNamed(text, n)]],
   test  |-> Untested]

Call(text, args) ==
  /\ scopes' = <<Scope(text, args)>> \o scopes
  /\ UNCHANGED <<globals, topTest, defined, aliases, plists>>

\* A tail call: the scope of the caller is gone when the callee's begins.
TailCall(text, args) ==
  /\ scopes # << >>
  /\ scopes' = <<Scope(text, args)>> \o Tail(scopes)
  /\ UNCHANGED <<globals, topTest, defined, aliases, plists>>

\* A return, or an error or throw that ends the innermost k calls.
Leave(k) ==
  /\ scopes' = SubSeq(scopes, k + 1, Len(scopes))
  /\ UNCHANGED <<globals, topTest, defined, aliases, plists>>

Test(b) ==
  /\ IF scopes # << >> THEN scopes' = [scopes EXCEPT ![1].test = b] /\ topTest' = topTest
                       ELSE topTest' = b /\ scopes' = scopes
  /\ UNCHANGED <<globals, defined, aliases, plists>>

\* A definition replaces the one of that name, whose marks stay.
Define(n, text) ==
  /\ n \notin Builtin \cup aliases
  /\ defined' = With(defined, n, [text  |-> text,
                                  marks |-> IF n \in DOMAIN defined THEN defined[n].marks ELSE {}])
  /\ UNCHANGED <<globals, scopes, topTest, aliases, plists>>

Alias(n) ==
  /\ n \notin Builtin \cup aliases
  /\ aliases' = aliases \cup {n}
  /\ UNCHANGED <<globals, scopes, topTest, defined, plists>>

EraseProcedures(gone) ==
  defined' = Without(defined, gone) /\ UNCHANGED <<globals, scopes, topTest, aliases, plists>>

Mark(some, mark, on) ==
  /\ defined' = [n \in DOMAIN defined |->
                   IF n \notin some THEN defined[n]
                   ELSE [defined[n] EXCEPT !.marks = IF on THEN @ \cup {mark} ELSE @ \ {mark}]]
  /\ UNCHANGED <<globals, scopes, topTest, aliases, plists>>

PlistOf(n) == IF n \in DOMAIN plists THEN plists[n] ELSE [p \in {} |-> NoThing]

Put(n, p, v) ==
  /\ plists' = With(plists, n, With(PlistOf(n), p, v))
  /\ UNCHANGED <<globals, scopes, topTest, defined, aliases>>

Remove(n, p) ==
  /\ plists' = [m \in {k \in DOMAIN plists : k # n \/ DOMAIN plists[k] \ {p} # {}} |->
                  IF m = n THEN Without(plists[m], {p}) ELSE plists[m]]
  /\ UNCHANGED <<globals, scopes, topTest, defined, aliases>>

EraseProperties ==
  plists' = [n \in {} |-> << >>] /\ UNCHANGED <<globals, scopes, topTest, defined, aliases>>

EraseAll ==
  /\ defined' = Without(defined, Exposed)
  /\ globals' = Without(globals, Unburied)
  /\ plists' = [n \in {} |-> << >>]
  /\ UNCHANGED <<scopes, topTest, aliases>>

BuryAll ==
  /\ defined' = [n \in DOMAIN defined |-> [defined[n] EXCEPT !.marks = @ \cup {"buried"}]]
  /\ globals' = [n \in DOMAIN globals |-> [globals[n] EXCEPT !.buried = @ \/ n \in HasThing]]
  /\ UNCHANGED <<scopes, topTest, aliases, plists>>

UnburyAll ==
  /\ defined' = [n \in DOMAIN defined |-> [defined[n] EXCEPT !.marks = @ \ {"buried"}]]
  /\ globals' = [n \in DOMAIN globals |-> [globals[n] EXCEPT !.buried = FALSE]]
  /\ UNCHANGED <<scopes, topTest, aliases, plists>>

Init == /\ globals = [n \in {} |-> << >>] /\ scopes = << >> /\ topTest = Untested
        /\ \A n \in DOMAIN defined : defined[n].marks = {}   \* a library is loaded
        /\ aliases = {}
        /\ plists = [n \in {} |-> << >>]

Argument(text) == [1..Len(InputsOf[text]) -> Things]

Next == \/ \E n \in Names, v \in Things : Make(n, v) \/ LocalMake(n, v)
        \/ \E n \in Names : Local(n) \/ EraseNames({n}) \/ Alias(n) \/ EraseProcedures({n})
        \/ \E n \in Names, way \in BOOLEAN : BuryNames({n}, way)
        \/ EraseNames(Unburied) \/ EraseProcedures(Exposed)
        \/ \E text \in Texts : \E args \in Argument(text) : Call(text, args) \/ TailCall(text, args)
        \/ \E k \in 1..Len(scopes) : Leave(k)
        \/ \E b \in Outcomes : Test(b)
        \/ \E n \in Names, text \in Texts : Define(n, text)
        \/ \E n \in Names, mark \in Marks, on \in BOOLEAN : Mark({n}, mark, on)
        \/ \E n, p \in Names, v \in Things : Put(n, p, v)
        \/ \E n, p \in Names : Remove(n, p)
        \/ EraseProperties \/ EraseAll \/ BuryAll \/ UnburyAll

Spec == Init /\ [][Next]_vars
=============================================================================
