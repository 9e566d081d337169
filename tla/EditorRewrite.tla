--------------------------- MODULE EditorRewrite ---------------------------
(***************************************************************************)
(* The commands of vi mode that rewrite the text by themselves (the last   *)
(* part of devices/picocalc/editor_vi.c): substitute, move and copy lines, *)
(* the global commands and the number at the cursor.  Each takes a state w *)
(* of the text and the notes for the journal, [t, notes], and gives the    *)
(* state after it, what it counted and where the cursor lands.             *)
(***************************************************************************)
EXTENDS EditorPattern, EditorUndo

CONSTANTS Size,        \* the buffer: at most Size - 1 characters and the nul
          ExpandMax    \* LOGO_VI_SUB_EXPAND_MAX: one expanded replacement
ASSUME BufferBounds == Size \in Nat \ {0} /\ ExpandMax \in Nat

(* A change of the text that the journal is told of. *)
Change(w, p, n, ins) ==
    [w EXCEPT !.t = Spliced(@, p, n, ins),
              !.notes = Append(@, Note(p, Slice(w.t, p, p + n), ins))]
Outcome(w, count, landed) == [w |-> w, count |-> count, landed |-> landed]
TooComplex == -1

-----------------------------------------------------------------------------
(* The next match of a line at or after at; an empty one where the last      *)
(* match ended (prev) is stepped over.                                       *)
RECURSIVE SubNext(_, _, _, _)
Accepted(pat, line, r, prev) ==
    IF r.hit /\ r.gs[0] = r.ge[0] /\ r.gs[0] = prev
    THEN SubNext(pat, line, r.gs[0] + 1, prev) ELSE r
SubNext(pat, line, at, prev) ==
    IF at > Len(line) THEN NoMatch
    ELSE Accepted(pat, line, PatternSearch(pat, line, at), prev)

Added(rep, line, r) == Len(Expand(rep, line, r)) - (r.ge[0] - r.gs[0])

(* The counting pass over a line: matches, the change of the length, and     *)
(* whether one of them would not expand or the budget ran out.               *)
RECURSIVE CountLine(_, _, _, _, _, _)
NoTally == [n |-> 0, delta |-> 0, long |-> FALSE, spent |-> FALSE]
CountOne(pat, rep, global, line, r) ==
    LET s == r.gs[0]
        e == r.ge[0]
        rest == IF global THEN CountLine(pat, rep, global, line, IF s = e THEN s + 1 ELSE e, e)
                ELSE NoTally
    IN  IF ~r.hit THEN [NoTally EXCEPT !.spent = r.spent]
        ELSE IF Len(Expand(rep, line, r)) > ExpandMax THEN [NoTally EXCEPT !.n = 1, !.long = TRUE]
        ELSE [rest EXCEPT !.n = @ + 1, !.delta = @ + Added(rep, line, r)]
CountLine(pat, rep, global, line, at, prev) ==
    CountOne(pat, rep, global, line, SubNext(pat, line, at, prev))

(* The rewriting pass over the line that starts at ls: it goes on after each *)
(* replacement, on the line as it is by then.                                *)
RECURSIVE RewriteLine(_, _, _, _, _, _, _)
RewriteOne(pat, rep, global, w, ls, r) ==
    LET s == r.gs[0]
        e == r.ge[0]
        ins == Expand(rep, LineAt(w.t, ls), r)
        w2 == Change(w, ls + s, e - s, ins)
        next == s + Len(ins) + (IF s = e THEN 1 ELSE 0)
    IN  IF ~r.hit THEN w
        ELSE IF global THEN RewriteLine(pat, rep, global, w2, ls, next, s + Len(ins))
        ELSE w2
RewriteLine(pat, rep, global, w, ls, at, prev) ==
    RewriteOne(pat, rep, global, w, ls, SubNext(pat, LineAt(w.t, ls), at, prev))

(* Both passes over the lines of [s, e); a result that would not fit, or one *)
(* replacement that is too long, refuses the command before anything moves.  *)
LinesIn(t, s, e) == {q \in LineStarts(t) : LineStart(t, Min({s, Len(t)})) <= q /\ q < Min({e, Len(t)})}
RewriteNext(v, q, t, pat, rep, global, hit) ==      \* the line that was at q of t
    LET at == q + Len(v.w.t) - Len(t)
    IN  IF hit THEN Outcome(RewriteLine(pat, rep, global, v.w, at, 0, -1), v.count, at) ELSE v
Refusal(tallies, t) ==      \* what the counting pass decides, 1 to go on
    LET spent == {x \in tallies : x[2].spent}
        long == {x \in tallies : x[2].long}
        count == FoldSet(LAMBDA x, n : x[2].n + n, 0, tallies)
        delta == FoldSet(LAMBDA x, n : x[2].delta + n, 0, tallies)
    IN  CASE long # {} /\ (\A x \in spent : \E y \in long : y[1] < x[1]) -> 0
          [] spent # {} /\ ~(long # {} /\ \A x \in spent : \E y \in long : y[1] < x[1]) ->
                TooComplex
          [] OTHER -> IF Len(t) + delta + 1 > Size THEN 0 ELSE count
RewriteAll(w, lines, pat, rep, global, tallies, count) ==
    LET hits == {x[1] : x \in {y \in tallies : y[2].n > 0}}
        f[i \in 0..Cardinality(lines)] ==
            IF i = 0 THEN Outcome(w, count, Min(lines))
            ELSE RewriteNext(f[i - 1], Nth(lines, i), w.t, pat, rep, global,
                             Nth(lines, i) \in hits)
    IN  IF count <= 0 THEN Outcome(w, count, 0) ELSE f[Cardinality(lines)]
Tallied(w, lines, pat, rep, global, tallies) ==
    RewriteAll(w, lines, pat, rep, global, tallies, Refusal(tallies, w.t))
Substitute(w, s, e, pat, rep, global) ==
    LET lines == LinesIn(w.t, s, e)
    IN  IF pat = <<>> \/ ~Valid(pat) \/ lines = {} THEN Outcome(w, 0, 0)
        ELSE Tallied(w, lines, pat, rep, global,
                     {<<q, CountLine(pat, rep, global, LineAt(w.t, q), 0, -1)>> : q \in lines})

-----------------------------------------------------------------------------
(* :m and :t.  A last line without a newline is lent one, and it is taken    *)
(* back at the end.                                                          *)
GiveBack(w, lent) ==
    LET m == Len(w.t) IN
    IF lent /\ At(w.t, m - 1) = NL THEN Change(w, m - 1, 1, <<>>) ELSE w
Shifted(w, lent, landing, span) ==
    LET landed == FirstNonBlank(w.t, LineStart(w.t, landing + span - 1))
        end == Len(w.t) - (IF lent /\ At(w.t, Len(w.t) - 1) = NL THEN 1 ELSE 0)
    IN  Outcome(GiveBack(w, lent), 1, Min({landed, end}))
ShiftSpan(w, start, span, dest, copy, lent) ==
    LET landing == IF ~copy /\ dest > start THEN dest - span ELSE dest
        piece == Slice(w.t, start, start + span)
    IN  Shifted(Change(IF copy THEN w ELSE Change(w, start, span, <<>>), landing, 0, piece),
                lent, landing, span)
ShiftLines(w, start, e, d, copy) ==
    LET n == Len(w.t)
        lent == At(w.t, n - 1) # NL /\ (e >= n \/ d >= n)
        one == IF lent THEN 1 ELSE 0
        end == IF e >= n THEN n + one ELSE e
        dest == IF d >= n THEN n + one ELSE d
    IN  IF start >= Min({e, n}) THEN Outcome(w, 0, 0)
        ELSE IF n + one + (IF copy THEN end - start ELSE 0) >= Size THEN Outcome(w, 0, 0)
        ELSE ShiftSpan(IF lent THEN Change(w, n, 0, <<NL>>) ELSE w,
                       start, end - start, dest, copy, lent)

-----------------------------------------------------------------------------
(* :g and :v: the lines of the range from the last to the first, each tried  *)
(* when it is reached; a line that runs out of steps ends the walk.          *)
Deleted(v, q, n) ==
    [v EXCEPT !.w = Change(@, q, n, <<>>), !.count = @ + 1, !.landed = q]
Substituted(v, q, d) ==
    IF d.count = TooComplex THEN [v EXCEPT !.refused = TRUE]
    ELSE IF d.count = 0 THEN v
    ELSE [v EXCEPT !.w = d.w, !.count = @ + 1, !.landed = q]
OnLine(v, q, r, invert, cmd, sub, rep, all) ==
    IF v.refused \/ r.spent THEN [v EXCEPT !.refused = TRUE]
    ELSE IF r.hit = invert THEN v
    ELSE IF cmd = "d" THEN Deleted(v, q, NextLine(v.w.t, q) - q)
    ELSE Substituted(v, q, Substitute(v.w, q, NextLine(v.w.t, q), sub, rep, all))
GlobalLine(v, q, pat, invert, cmd, sub, rep, all) ==
    OnLine(v, q, PatternSearch(pat, LineAt(v.w.t, q), 0), invert, cmd, sub, rep, all)

GlobalResult(r) ==
    Outcome(r.w, IF r.refused /\ r.count = 0 THEN TooComplex ELSE r.count,
            FirstNonBlank(r.w.t, Min({r.landed, Len(r.w.t)})))
Global(w, s, e, pat, invert, cmd, sub, rep, all) ==
    LET lines == LinesIn(w.t, s, e)
        f[i \in 0..Cardinality(lines)] ==
            IF i = 0 THEN [w |-> w, count |-> 0, landed |-> Min(lines), refused |-> FALSE]
            ELSE GlobalLine(f[i - 1], NthLast(lines, i), pat, invert, cmd, sub, rep, all)
    IN  IF pat = <<>> \/ ~Valid(pat) \/ lines = {} THEN Outcome(w, 0, 0)
        ELSE GlobalResult(f[Cardinality(lines)])

-----------------------------------------------------------------------------
(* ^A and ^X: the number under the cursor or the next on its line, with the  *)
(* minus sign against it; the cursor ends on its last digit.                 *)
Increment(w, cur, d) ==
    LET t == w.t
        p == Min({cur, Len(t)})
        le == LineEnd(t, p)
        IsDigit(c) == c \in Digits
        hit == RunEnd(t, p, le, LAMBDA c : c \notin Digits)
        first == RunStart(t, hit, LineStart(t, p), IsDigit)
        last == RunEnd(t, hit, le, IsDigit)
        minus == first > LineStart(t, p) /\ At(t, first - 1) = "-"
        start == IF minus THEN first - 1 ELSE first
        digits == NumberOf(Slice(t, first, last))
        text == SignedText((IF minus THEN -digits ELSE digits) + d)
    IN  IF hit >= le THEN Outcome(w, 0, cur)
        ELSE IF Len(t) - (last - start) + Len(text) >= Size THEN Outcome(w, 0, cur)
        ELSE Outcome(Change(w, start, last - start, text), 1, start + Len(text) - 1)
=============================================================================
