-------------------------- MODULE EditorPattern ---------------------------
(***************************************************************************)
(* The patterns of the editor: vi mode's regular expressions               *)
(* (devices/picocalc/editor_pattern.c), the plain search and replace of    *)
(* the editor outside vi mode (editor_search.c), and the expansion of a    *)
(* replacement.  A pattern is a sequence of atoms, as parse_atom reads     *)
(* them, each with the star that follows it; an atom a half of which is    *)
(* missing (a class that is not closed, a backslash at the end) is "bad".  *)
(* The matcher tries the longest run of a starred atom first, charges its  *)
(* work to a budget, and writes the groups as it goes: what a branch that  *)
(* failed wrote stays until it is written over.                            *)
(***************************************************************************)
EXTENDS EditorText

CONSTANT PatternSteps    \* LOGO_VI_PATTERN_STEPS_MAX: the budget of one search
ASSUME StepsAreNat == PatternSteps \in Nat

AtomOf(k, c, i, star) == [k |-> k, c |-> c, i |-> i, star |-> star]
Lit(c) == AtomOf("lit", {c}, 0, FALSE)
Star(a) == [a EXCEPT !.star = TRUE]
AnyChar == AtomOf("any", {}, 0, FALSE)
InClass(S, neg) == AtomOf(IF neg THEN "notin" ELSE "in", S, 0, FALSE)
Bol == AtomOf("bol", {}, 0, FALSE)
Eol == AtomOf("eol", {}, 0, FALSE)
WordStart == AtomOf("wstart", {}, 0, FALSE)
WordStop == AtomOf("wend", {}, 0, FALSE)
Open(i) == AtomOf("open", {}, i, FALSE)
Close(i) == AtomOf("close", {}, i, FALSE)
Back(i) == AtomOf("back", {}, i, FALSE)
Bad == AtomOf("bad", {}, 0, FALSE)

WholeWord(w) == <<WordStart>> \o [i \in DOMAIN w |-> Lit(w[i])] \o <<WordStop>>

GroupMax == 9
OpenBefore(pat, j) == Cardinality({i \in 1..j : pat[i].k = "open"})
ClosedBefore(pat, j) == Cardinality({i \in 1..j : pat[i].k = "close"})

(* A pattern is refused when it is typed: unbalanced groups, more than      *)
(* nine, a reference to a group that no one has closed, a starred group.    *)
Valid(pat) ==
    /\ \A j \in DOMAIN pat :
          /\ pat[j].k # "bad"
          /\ ClosedBefore(pat, j) <= OpenBefore(pat, j)
          /\ OpenBefore(pat, j) <= GroupMax
          /\ pat[j].k = "back" => pat[j].i <= ClosedBefore(pat, j)
          /\ pat[j].k = "close" => ~pat[j].star
    /\ OpenBefore(pat, Len(pat)) = ClosedBefore(pat, Len(pat))

NameChar(c) == c \in WordChars
IsName(line, p) == p \in 0..(Len(line) - 1) /\ NameChar(At(line, p))
FoldAll(S) == {Fold(x) : x \in S}

CharMatch(a, c) ==
    CASE a.k = "any" -> TRUE
      [] a.k \in {"lit", "in"} -> Fold(c) \in FoldAll(a.c)
      [] a.k = "notin" -> Fold(c) \notin FoldAll(a.c)
      [] OTHER -> FALSE

(* The matcher: m is [hit, gs, ge, left, spent], the groups from gs to ge,  *)
(* the steps left and whether they ran out.                                 *)
Groups == 0..GroupMax
NoGroups == [g \in Groups |-> 0]
Miss(m) == [m EXCEPT !.hit = FALSE]

RECURSIVE MatchHere(_, _, _, _, _)
RECURSIVE MatchStar(_, _, _, _, _, _)

(* The n-long run of a starred atom, then the shorter ones. *)
MatchStar(pat, line, j, p, n, m) ==
    LET r == MatchHere(pat, line, j + 1, p + n, m)
    IN  IF r.hit \/ n = 0 THEN r ELSE MatchStar(pat, line, j, p, n - 1, r)

MatchHere(pat, line, j, p, m0) ==
    LET m == [m0 EXCEPT !.left = @ - 1]
        a == pat[j]
        Go(q) == MatchHere(pat, line, j + 1, q, m)
        When(ok, q) == IF ok THEN Go(q) ELSE Miss(m)
        len == IF m.ge[a.i] > m.gs[a.i] THEN m.ge[a.i] - m.gs[a.i] ELSE 0
        same == /\ p + len <= Len(line)
                /\ \A i \in 0..(len - 1) :
                      Fold(At(line, m.gs[a.i] + i)) = Fold(At(line, p + i))
        run == RunEnd(line, p, Len(line), LAMBDA c : CharMatch(a, c)) - p
    IN  IF m0.spent \/ m0.left = 0 THEN [Miss(m0) EXCEPT !.spent = TRUE]
        ELSE IF j > Len(pat) THEN [m EXCEPT !.hit = TRUE, !.ge[0] = p]
        ELSE CASE a.k = "bol" -> When(p = 0, p)
               [] a.k = "eol" -> When(p = Len(line), p)
               [] a.k = "wstart" -> When(~IsName(line, p - 1) /\ IsName(line, p), p)
               [] a.k = "wend" -> When(IsName(line, p - 1) /\ ~IsName(line, p), p)
               [] a.k = "open" -> MatchHere(pat, line, j + 1, p, [m EXCEPT !.gs[a.i] = p])
               [] a.k = "close" -> MatchHere(pat, line, j + 1, p, [m EXCEPT !.ge[a.i] = p])
               [] a.k = "back" -> When(same, p + len)
               [] OTHER -> IF a.star THEN MatchStar(pat, line, j, p, run, m)
                           ELSE When(p < Len(line) /\ CharMatch(a, At(line, p)), p + 1)

(* The first position of from..Len(line) that matches; spent says that the  *)
(* budget of the whole search ran out.                                      *)
RECURSIVE SearchFrom(_, _, _, _)
SearchOn(pat, line, p, r) ==
    IF r.hit \/ r.spent \/ p >= Len(line) THEN r ELSE SearchFrom(pat, line, p + 1, r.left)
SearchFrom(pat, line, p, left) ==
    SearchOn(pat, line, p,
             MatchHere(pat, line, 1, p, [hit |-> FALSE, gs |-> [NoGroups EXCEPT ![0] = p],
                                         ge |-> NoGroups, left |-> left, spent |-> FALSE]))

NoMatch == [hit |-> FALSE, gs |-> NoGroups, ge |-> NoGroups, left |-> 0, spent |-> FALSE]
PatternSearch(pat, line, from) ==
    IF pat = <<>> \/ from > Len(line) THEN NoMatch
    ELSE SearchFrom(pat, line, from, PatternSteps)

(* A replacement is a sequence of characters, "&" and group numbers. *)
Part(line, x, r) ==
    CASE x = "&" -> Slice(line, r.gs[0], r.ge[0])
      [] x \in {"g1", "g2"} -> LET g == IF x = "g1" THEN 1 ELSE 2
                               IN  Slice(line, r.gs[g], r.ge[g])
      [] OTHER -> <<x>>
Expand(rep, line, r) ==
    LET f[i \in 0..Len(rep)] ==
            IF i = 0 THEN <<>> ELSE f[i - 1] \o Part(line, rep[i], r)
    IN  f[Len(rep)]

-----------------------------------------------------------------------------
(* The walk of / ? n N over the lines of a text: forward, the first match   *)
(* after from, wrapping round; backward, the last before it.  At -1 it      *)
(* found nothing; a line that ran out of steps ends the walk.               *)
LineAt(t, s) == Slice(t, s, LineEnd(t, s))
LinesOf(t) == {s \in LineStarts(t) : s < Len(t)}

RECURSIVE LastOnLine(_, _, _, _, _)
LastFrom(pat, line, r, cap, best) ==
    LET s == r.gs[0]
        next == IF r.ge[0] > s THEN r.ge[0] ELSE s + 1
    IN  IF r.spent THEN [at |-> best, spent |-> TRUE]
        ELSE IF ~r.hit \/ s >= cap THEN [at |-> best, spent |-> FALSE]
        ELSE LastOnLine(pat, line, next, cap, s)
LastOnLine(pat, line, at, cap, best) ==
    LastFrom(pat, line, PatternSearch(pat, line, at), cap, best)

(* What each visit of the walk finds: a line and where to look on it. *)
Onto(s, at, spent) == [at |-> IF at < 0 THEN -1 ELSE s + at, spent |-> spent]
OfMatch(s, r) == Onto(s, IF r.hit THEN r.gs[0] ELSE -1, r.spent)
FirstOn(pat, t, s, min) == OfMatch(s, PatternSearch(pat, LineAt(t, s), min))
OfLast(s, r) == Onto(s, r.at, r.spent)
LastOn(pat, t, s, cap) == OfLast(s, LastOnLine(pat, LineAt(t, s), 0, cap, -1))

(* The walk stops at the first visit that ran out, and forward at the first *)
(* that found something.                                                    *)
Nowhere == [at |-> -1, spent |-> FALSE]
Ended(v) == v.at >= 0 \/ v.spent
(* The visit of the least line of a set that ended the walk. *)
Earliest(seen) ==
    LET over == {v \in seen : Ended(v[2])} IN
    IF over = {} THEN Nowhere
    ELSE (CHOOSE v \in over : \A u \in over : v[1] <= u[1])[2]
OrElse(v, w) == IF Ended(v) THEN v ELSE w
Before(v, from) == IF v.at < from THEN v ELSE [v EXCEPT !.at = -1]

(* Forward: the rest of the line, the lines below, those above from the top, *)
(* and the line again up to where the walk began.                            *)
Visits(pat, t, S) == Earliest({<<s, FirstOn(pat, t, s, 0)>> : s \in S})
FindForward(pat, t, from, ls) ==
    OrElse(FirstOn(pat, t, ls, from - ls),
           OrElse(Visits(pat, t, {s \in LinesOf(t) : s > ls}),
                  OrElse(Visits(pat, t, {s \in LineStarts(t) : s < ls}),
                         Before(FirstOn(pat, t, ls, 0), from))))

(* Backward: the last match of all the lines up to from, then of the rest.   *)
Latest(seen) ==
    IF \E v \in seen : v.spent THEN [at |-> -1, spent |-> TRUE]
    ELSE [at |-> Max({v.at : v \in seen} \union {-1}), spent |-> FALSE]
FindBackward(pat, t, from, ls) ==
    OrElse(Latest({LastOn(pat, t, s, IF s = ls THEN from - s ELSE LineEnd(t, s) - s)
                      : s \in {q \in LineStarts(t) : q <= ls}}),
           Latest({LastOn(pat, t, s, LineEnd(t, s) - s + 1) : s \in {q \in LinesOf(t) : q >= ls}}))

FindFrom(pat, t, from, forward) ==
    IF forward THEN FindForward(pat, t, from, LineStart(t, from))
    ELSE FindBackward(pat, t, from, LineStart(t, from))
PatternFind(pat, t, from, forward) ==
    IF pat = <<>> THEN Nowhere ELSE FindFrom(pat, t, Min({from, Len(t)}), forward)

-----------------------------------------------------------------------------
(* The plain search: the needle anywhere, wrapping round, and the           *)
(* replacement of every occurrence that does not overlap the one before,    *)
(* all of them or none when the result would not fit.                       *)
Occurs(t, w) == {p \in 0..(Len(t) - Len(w)) : SameText(Slice(t, p, p + Len(w)), w)}
PlainFind(t, w, from, forward) ==
    LET all == IF w = <<>> \/ Len(w) > Len(t) THEN {} ELSE Occurs(t, w)
        ahead == {p \in all : p >= from}
        behind == {p \in all : p < from}
    IN  IF all = {} THEN -1
        ELSE IF forward THEN Min(IF ahead # {} THEN ahead ELSE behind)
        ELSE Max(IF behind # {} THEN behind ELSE ahead)

(* The occurrences a scan that steps over each one finds. *)
Scan(t, w) ==
    LET all == Occurs(t, w)
        f[i \in 0..Len(t)] ==
            IF i = 0 THEN {}
            ELSE LET S == f[i - 1]
                 IN  IF (i - 1) \in all /\ \A q \in S : q + Len(w) <= i - 1
                     THEN S \union {i - 1} ELSE S
    IN  IF w = <<>> \/ Len(w) > Len(t) THEN {} ELSE f[Len(t)]

ReplacedText(t, w, rep, capacity) ==
    LET hits == Scan(t, w)
        len == Len(t) + Cardinality(hits) * (Len(rep) - Len(w))
        f[i \in 0..Len(t)] ==
            IF i = 0 THEN <<>>
            ELSE IF (i - 1) \in hits THEN f[i - 1] \o rep
            ELSE IF \E q \in hits : q < i - 1 /\ i - 1 < q + Len(w) THEN f[i - 1]
            ELSE Append(f[i - 1], t[i])
    IN  IF hits = {} \/ len + 1 > capacity THEN t ELSE f[Len(t)]
=============================================================================
