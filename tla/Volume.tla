------------------------------- MODULE Volume -------------------------------
(***************************************************************************)
(* What a card promises to the program: a tree of directories and files,   *)
(* changed by whole operations.  goal is the tree the operation leads to,  *)
(* tree is what a power loss would leave now.  On the way no path is lost  *)
(* that the operation does not remove, nothing is removed before all that  *)
(* is new is there, and a file holds at each place its old or its new      *)
(* contents.                                                               *)
(***************************************************************************)
EXTENDS Integers, Sequences, SequencesExt

CONSTANTS Handles, Blank

VARIABLES tree, goal, open, request, answer

vars == <<tree, goal, open, request, answer>>

Dir == [dir |-> TRUE, data |-> <<>>]
File(data) == [dir |-> FALSE, data |-> data]

Closed == [path |-> <<>>]
Stale == [path |-> <<>>, pos |-> -1]

Holds(t, p) == p \in DOMAIN t
IsFile(t, p) == Holds(t, p) /\ ~t[p].dir
IsDir(t, p) == p = <<>> \/ (Holds(t, p) /\ t[p].dir)
CanAdd(t, p) == p # <<>> /\ ~Holds(t, p) /\ IsDir(t, Front(p))
CanRemove(t, p) == Holds(t, p) /\ IsDir(t, p) /\ \A q \in DOMAIN t : ~IsStrictPrefix(p, q)
CanMove(t, p, q) == Holds(t, p) /\ CanAdd(t, q) /\ ~IsPrefix(p, q)

Add(t, p, node) == [q \in DOMAIN t \cup {p} |-> IF q = p THEN node ELSE t[q]]
Drop(t, ps) == [q \in DOMAIN t \ ps |-> t[q]]

\* What is under p moves with it.
Below(t, p) == {r \in DOMAIN t : IsPrefix(p, r)}
MovedTo(p, q, r) == q \o SubSeq(r, Len(p) + 1, Len(r))
Moved(t, p, q) ==
  LET new == {MovedTo(p, q, r) : r \in Below(t, p)}
  IN  [r \in (DOMAIN t \ Below(t, p)) \cup new |-> IF r \in new THEN t[MovedTo(q, p, r)] ELSE t[r]]

Overlay(old, pos, data) ==
  [i \in 1 .. Max({Len(old), pos + Len(data)}) |->
     IF i - pos \in 1 .. Len(data) THEN data[i - pos] ELSE IF i <= Len(old) THEN old[i] ELSE Blank]

Init ==
  /\ goal = tree /\ open = [h \in Handles |-> Closed]
  /\ request = [op |-> "remove"] /\ answer = "ok"

-----------------------------------------------------------------------------
(* An operation begins when the one before is done: t is the tree it finds *)

Begin(r, t, next) == goal' = next /\ tree' = t /\ request' = r /\ answer' = "ok"

\* An operation that cannot be done, or for which there is no room, changes
\* nothing.
Refuse(r, t, why) ==
  goal' = t /\ tree' = t /\ request' = r /\ answer' = why /\ UNCHANGED open

Live(h) == open[h] # Closed /\ open[h] # Stale
At(p, pos) == [path |-> p, pos |-> pos]
Now(h, x) == open' = [open EXCEPT ![h] = x]

Open(r, t) ==
  /\ open[r.h] = Closed
  /\ \/ IsFile(t, r.path) /\ Begin(r, t, t) /\ Now(r.h, At(r.path, Len(t[r.path].data)))
     \/ CanAdd(t, r.path) /\ Begin(r, t, Add(t, r.path, File(<<>>))) /\ Now(r.h, At(r.path, 0))
     \/ CanAdd(t, r.path) /\ Refuse(r, t, "full")
     \/ ~IsFile(t, r.path) /\ ~CanAdd(t, r.path) /\ Refuse(r, t, "failed")

Write(r, t) ==
  \/ /\ Live(r.h)
     /\ Begin(r, t, [t EXCEPT ![open[r.h].path].data = Overlay(@, open[r.h].pos, r.data)])
     /\ Now(r.h, At(open[r.h].path, open[r.h].pos + Len(r.data)))
  \/ Live(r.h) /\ Refuse(r, t, "full")
  \/ open[r.h] = Stale /\ Refuse(r, t, "failed")

SetPos(r, t) ==
  \/ /\ Live(r.h) /\ r.pos <= Len(t[open[r.h].path].data)
     /\ Begin(r, t, t) /\ Now(r.h, At(open[r.h].path, r.pos))
  \/ open[r.h] = Stale /\ Begin(r, t, t) /\ UNCHANGED open

Close(r, t) == open[r.h] # Closed /\ Begin(r, t, t) /\ Now(r.h, Closed)

Delete(r, t) ==
  \/ IsFile(t, r.path) /\ Begin(r, t, Drop(t, {r.path})) /\ UNCHANGED open
  \/ ~IsFile(t, r.path) /\ Refuse(r, t, "failed")

Rename(r, t) ==
  \/ CanMove(t, r.path, r.to) /\ Begin(r, t, Moved(t, r.path, r.to)) /\ UNCHANGED open
  \/ CanMove(t, r.path, r.to) /\ Refuse(r, t, "full")
  \/ ~CanMove(t, r.path, r.to) /\ Refuse(r, t, "failed")

MkDir(r, t) ==
  \/ CanAdd(t, r.path) /\ Begin(r, t, Add(t, r.path, Dir)) /\ UNCHANGED open
  \/ CanAdd(t, r.path) /\ Refuse(r, t, "full")
  \/ ~CanAdd(t, r.path) /\ Refuse(r, t, "failed")

RmDir(r, t) ==
  \/ CanRemove(t, r.path) /\ Begin(r, t, Drop(t, {r.path})) /\ UNCHANGED open
  \/ ~CanRemove(t, r.path) /\ Refuse(r, t, "failed")

\* A card that has not been looked for yet has no free space to tell of.
Free(r, t) == UNCHANGED open /\ (Begin(r, t, t) \/ Refuse(r, t, "failed"))

\* A card that was out is another card to every stream that was open.
TakeOut(r, t) ==
  /\ Begin(r, t, t)
  /\ open' = [h \in Handles |-> IF open[h] = Closed THEN Closed ELSE Stale]

Operation(r, t) ==
  \/ r.op = "open" /\ Open(r, t)
  \/ r.op = "write" /\ Write(r, t)
  \/ r.op = "setpos" /\ SetPos(r, t)
  \/ r.op = "close" /\ Close(r, t)
  \/ r.op = "delete" /\ Delete(r, t)
  \/ r.op = "rename" /\ Rename(r, t)
  \/ r.op = "mkdir" /\ MkDir(r, t)
  \/ r.op = "rmdir" /\ RmDir(r, t)
  \/ r.op = "free" /\ Free(r, t)
  \/ r.op = "remove" /\ TakeOut(r, t)

-----------------------------------------------------------------------------
(* On the way from one tree to the other *)

Place(x, i) == IF i <= Len(x.data) THEN {x.data[i]} ELSE {}

Between(x, y, z) ==
  /\ y.dir = x.dir /\ x.dir = z.dir
  /\ Len(y.data) \in {Len(x.data), Len(z.data)}
  /\ \A i \in 1 .. Len(y.data) : y.data[i] \in Place(x, i) \cup Place(z, i)

\* What is on its way out may show under its 8.3 name for a while.
Alias(old, t, new, p) ==
  \E q \in DOMAIN old \ DOMAIN new : Len(q) = Len(p) /\ t[p] = old[q]

Stage(old, t, new) ==
  /\ \A p \in DOMAIN t :
       IF p \in DOMAIN old /\ p \in DOMAIN new THEN Between(old[p], t[p], new[p])
       ELSE IF p \in DOMAIN old THEN t[p] = old[p]
       ELSE IF p \in DOMAIN new THEN t[p] = new[p]
       ELSE Alias(old, t, new, p)
  /\ DOMAIN old \cap DOMAIN new \subseteq DOMAIN t
  /\ DOMAIN old \subseteq DOMAIN t \/ DOMAIN new \subseteq DOMAIN t

Progress(old, new) ==
  /\ new = goal' /\ \E t \in {tree'} : Stage(old, t, new)
  /\ UNCHANGED <<open, request, answer>>

\* (Each tree is named once: it is the reading of a whole card.)
Next ==
  \E old \in {tree}, new \in {goal} :
    IF old = new THEN Operation(request', old) ELSE Progress(old, new)

Spec == Init /\ [][Next]_vars
=============================================================================
