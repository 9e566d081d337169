---------------------------- MODULE EditorUndo ----------------------------
(***************************************************************************)
(* The undo journal of the editor (devices/picocalc/editor_undo.c).  A     *)
(* journal is the records of its store, how many of them are applied (the  *)
(* rest have been undone and wait for a redo), the first record of the     *)
(* step being recorded or 0, and the two flags of a step: pending until    *)
(* its first record, abandoned when it outgrew the store.  A record is     *)
(* what one change of the text took out and put in at a place; its first   *)
(* flag says that it starts a step.  The store holds Room words, Header of *)
(* them for each record.                                                   *)
(***************************************************************************)
EXTENDS Integers, Sequences, SequencesExt

CONSTANTS Room,     \* words of the store
          Header    \* HDR_SIZE: words of a record besides its text
ASSUME StoreBounds == Room \in Nat /\ Header \in Nat \ {0}

Cut(t, p, n, ins) == SubSeq(t, 1, p) \o ins \o SubSeq(t, p + n + 1, Len(t))

EmptyJournal == [recs |-> <<>>, applied |-> 0, step |-> 0, pending |-> FALSE,
                 abandoned |-> FALSE]

SizeOf(r) == Header + Len(r.del) + Len(r.ins)
Used(recs) == FoldSeq(LAMBDA r, n : SizeOf(r) + n, 0, recs)

ClearRecords(j) == [j EXCEPT !.recs = <<>>, !.applied = 0, !.step = 0]
Begin(j) == [j EXCEPT !.pending = TRUE, !.abandoned = FALSE, !.step = 0]

(* The records of the oldest step, up to the next one that starts a step;   *)
(* none may be of the step being recorded.                                  *)
OldestStep(recs) ==
    CHOOSE n \in 1..Len(recs) :
        /\ \A i \in 2..n : ~recs[i].first
        /\ n < Len(recs) => recs[n + 1].first
CanDrop(j) ==
    /\ j.recs # <<>>
    /\ OldestStep(j.recs) <= IF j.step # 0 THEN j.step - 1 ELSE Len(j.recs)
DropOldest(j) ==
    LET n == OldestStep(j.recs)
    IN  [j EXCEPT !.recs = SubSeq(@, n + 1, Len(@)),
                  !.applied = IF @ > n THEN @ - n ELSE 0,
                  !.step = IF @ > n THEN @ - n ELSE 0]

(* Drop whole steps until need words fit, or give the step up. *)
MakeRoom(j, need) ==
    LET f[i \in 0..Len(j.recs)] ==
            IF i = 0 THEN j
            ELSE LET k == f[i - 1]
                 IN  IF Used(k.recs) + need > Room /\ CanDrop(k) THEN DropOldest(k) ELSE k
        r == f[Len(j.recs)]
    IN  IF Used(r.recs) + need > Room
        THEN [ClearRecords(r) EXCEPT !.abandoned = TRUE] ELSE r

(* A change that goes on where the last one ended, or backspaces over it,   *)
(* is folded into its record; one that takes everything back removes it.    *)
Top(j) == j.recs[j.applied]
Extends(j, pos, del, ins) ==
    /\ ~j.pending /\ j.applied > 0 /\ del = <<>> /\ ins # <<>>
    /\ pos = Top(j).pos + Len(Top(j).ins)
    /\ Used(j.recs) + Len(ins) <= Room
Shrinks(j, pos, del, ins) ==
    /\ ~j.pending /\ j.applied > 0 /\ ins = <<>> /\ del # <<>>
    /\ Len(del) <= Len(Top(j).ins)
    /\ pos + Len(del) = Top(j).pos + Len(Top(j).ins)
    /\ SubSeq(Top(j).ins, Len(Top(j).ins) - Len(del) + 1, Len(Top(j).ins)) = del
Shrunk(j, del) ==
    LET left == SubSeq(Top(j).ins, 1, Len(Top(j).ins) - Len(del))
        n == j.applied
    IN  IF Top(j).del = <<>> /\ left = <<>>
        THEN [j EXCEPT !.recs = SubSeq(@, 1, n - 1), !.applied = n - 1,
                       !.step = IF @ >= n THEN 0 ELSE @]
        ELSE [j EXCEPT !.recs[n].ins = left]

(* A change forgets what had been undone, and is a record of its own when   *)
(* it does not go on from the last one.                                     *)
Record(j0, pos, del, ins) ==
    LET n == j0.applied
        j == [j0 EXCEPT !.recs = SubSeq(@, 1, n), !.step = IF @ > n THEN 0 ELSE @]
        r == MakeRoom(j, Header + Len(del) + Len(ins))
        rec == [pos |-> pos, del |-> del, ins |-> ins, first |-> r.pending]
    IN  IF j0.abandoned \/ (del = <<>> /\ ins = <<>>) THEN j0
        ELSE IF Extends(j, pos, del, ins) THEN [j EXCEPT !.recs[n].ins = @ \o ins]
        ELSE IF Shrinks(j, pos, del, ins) THEN Shrunk(j, del)
        ELSE IF r.abandoned THEN r
        ELSE [r EXCEPT !.recs = Append(@, rec), !.applied = Len(r.recs) + 1,
                       !.step = IF @ = 0 THEN Len(r.recs) + 1 ELSE @, !.pending = FALSE]

(* What an edit tells the journal. *)
Note(p, del, ins) == [pos |-> p, del |-> del, ins |-> ins]
RecordNote(j, x) == Record(j, x.pos, x.del, x.ins)

-----------------------------------------------------------------------------
(* Undo takes records back until one that starts a step; redo puts them     *)
(* forth up to the next that does.  at is the least place touched.          *)
Fits(t, pos, n, ins, capacity) ==
    pos <= Len(t) /\ Len(t) - (IF n > Len(t) - pos THEN Len(t) - pos ELSE n) + Len(ins) + 1 <= capacity

Turn(j, t, at, any) == [j |-> j, t |-> t, at |-> at, any |-> any]
Least(a, b) == IF b < a THEN b ELSE a

RevertOne(s) ==
    LET r == Top(s.j)
    IN  Turn([s.j EXCEPT !.applied = @ - 1], Cut(s.t, r.pos, Len(r.ins), r.del),
             Least(s.at, r.pos), TRUE)
Revert(j, t, capacity) ==
    LET n == j.applied
        CanRevert(s) == LET r == Top(s.j) IN Fits(s.t, r.pos, Len(r.ins), r.del, capacity)
        f[i \in 0..n] ==        \* after i more records, while the step goes on
            IF i = 0 THEN Turn(j, t, Len(t), FALSE)
            ELSE LET s == f[i - 1]
                 IN  IF s.j.applied = n - i + 1 /\ (i > 1 => ~j.recs[n - i + 2].first)
                        /\ CanRevert(s)
                     THEN RevertOne(s) ELSE s
    IN  f[n]

ApplyOne(s) ==
    LET r == s.j.recs[s.j.applied + 1]
    IN  Turn([s.j EXCEPT !.applied = @ + 1], Cut(s.t, r.pos, Len(r.del), r.ins),
             Least(s.at, r.pos), TRUE)
Reapply(j, t, capacity) ==
    LET n == j.applied
        CanApply(s) == LET r == s.j.recs[s.j.applied + 1]
                       IN  Fits(s.t, r.pos, Len(r.del), r.ins, capacity)
        f[i \in 0..(Len(j.recs) - n)] ==
            IF i = 0 THEN Turn(j, t, Len(t), FALSE)
            ELSE LET s == f[i - 1]
                 IN  IF s.j.applied = n + i - 1 /\ (i > 1 => ~j.recs[n + i].first)
                        /\ CanApply(s)
                     THEN ApplyOne(s) ELSE s
    IN  f[Len(j.recs) - n]
=============================================================================
