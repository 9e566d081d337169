---------------------------- MODULE EditorText ----------------------------
(***************************************************************************)
(* The text of the full-screen editor and the places in it: lines, words,  *)
(* brackets, paragraphs and Logo definitions, and the motions and text     *)
(* objects of vi mode built from them (devices/picocalc/editor_vi.c and    *)
(* editor_lines.c).  A text is a sequence of characters; a position p is   *)
(* the offset of the code, 0..Len(t), and t[p + 1] the character there.    *)
(* A scan of the code is the first (or the last) position that stops it.   *)
(* One character stands for the word "to" and one for the word "end".      *)
(***************************************************************************)
EXTENDS Integers, Sequences, FiniteSetsExt

NL == "nl"
SP == "sp"
To == "to"
End == "end"
Digits == {"0", "1", "2", "3", "4", "5", "6", "7", "8", "9"}
Lower == {"a", "b"}
Upper == {"A", "B"}
Openers == {"(", "["}
Closers == {")", "]"}
WordChars == Lower \union Upper \union Digits \union {To, End}
Chars == WordChars \union Openers \union Closers \union {NL, SP, "-"}

Mate(c) == CASE c = "(" -> ")" [] c = ")" -> "(" [] c = "[" -> "]" [] c = "]" -> "["
Fold(c) == CASE c = "A" -> "a" [] c = "B" -> "b" [] OTHER -> c
SameText(u, v) == Len(u) = Len(v) /\ \A i \in 1..Len(u) : Fold(u[i]) = Fold(v[i])

At(t, p) == t[p + 1]
Slice(t, s, e) == SubSeq(t, s + 1, e)
Spliced(t, p, n, ins) == Slice(t, 0, p) \o ins \o Slice(t, p + n, Len(t))

(* The first position of p..e, and the last of s..p, that a scan over the  *)
(* characters in In does not pass.                                         *)
RunEnd(t, p, e, In(_)) == Min({q \in p..e : q = e \/ ~In(At(t, q))})
RunStart(t, p, s, In(_)) == Max({q \in s..p : q = s \/ ~In(At(t, q - 1))})

(* Numbers as they are written, most significant digit first. *)
Numeral(d) == CASE d = 0 -> "0" [] d = 1 -> "1" [] d = 2 -> "2" [] d = 3 -> "3" [] d = 4 -> "4"
                [] d = 5 -> "5" [] d = 6 -> "6" [] d = 7 -> "7" [] d = 8 -> "8" [] d = 9 -> "9"
DigitValue(c) == CHOOSE d \in 0..9 : Numeral(d) = c
NumberOf(w) == LET f[i \in 0..Len(w)] == IF i = 0 THEN 0 ELSE 10 * f[i - 1] + DigitValue(w[i])
               IN  f[Len(w)]
Written(n) == LET f[m \in 0..n] == IF m < 10 THEN <<Numeral(m)>>
                                   ELSE Append(f[m \div 10], Numeral(m % 10))
              IN  f[n]
SignedText(v) == IF v < 0 THEN <<"-">> \o Written(-v) ELSE Written(v)

-----------------------------------------------------------------------------
(* Lines. *)
LineStart(t, p) == RunStart(t, p, 0, LAMBDA c : c # NL)
LineEnd(t, p) == RunEnd(t, p, Len(t), LAMBDA c : c # NL)
NextLine(t, p) == IF LineEnd(t, p) < Len(t) THEN LineEnd(t, p) + 1 ELSE Len(t)
LineNumber(t, p) == 1 + Cardinality({q \in 0..(p - 1) : At(t, q) = NL})
LineCount(t) == LineNumber(t, Len(t))
LineStarts(t) == {0} \union {q \in 1..Len(t) : At(t, q - 1) = NL}
GotoLine(t, n) ==
    LET k == IF n < 1 THEN 1 ELSE IF n > LineCount(t) THEN LineCount(t) ELSE n
    IN  CHOOSE s \in LineStarts(t) : LineNumber(t, s) = k

Blank(c) == c \in {SP, NL}
FirstNonBlank(t, p) == RunEnd(t, LineStart(t, p), LineEnd(t, p), LAMBDA c : c = SP)
LineIsBlank(t, s) == \A q \in s..(LineEnd(t, s) - 1) : At(t, q) = SP

(* d lines away, in the same column where the line is long enough. *)
MoveLines(t, p, d) ==
    LET s == GotoLine(t, LineNumber(t, p) + d)
        col == p - LineStart(t, p)
    IN  Min({LineEnd(t, s), s + col})

-----------------------------------------------------------------------------
(* Words: vi's three classes, or two for the capital letters. *)
Class(c) == CASE c \in {SP, NL} -> "blank" [] c \in WordChars -> "word" [] OTHER -> "punct"
Like(t, p, big, c) ==
    IF big THEN Blank(c) = Blank(At(t, p)) ELSE Class(c) = Class(At(t, p))

WordFwd(t, p, big) ==
    IF p >= Len(t) THEN Len(t)
    ELSE LET past == IF Blank(At(t, p)) THEN p
                     ELSE RunEnd(t, p, Len(t), LAMBDA c : Like(t, p, big, c))
         IN  RunEnd(t, past, Len(t), Blank)

WordBack(t, p, big) ==
    LET on == {q \in 0..(p - 1) : ~Blank(At(t, q))}
    IN  IF on = {} THEN 0
        ELSE RunStart(t, Max(on), 0, LAMBDA c : Like(t, Max(on), big, c))

(* A motion that finds no word to end on stays where it is. *)
WordEnd(t, p, big) ==
    LET on == {q \in (p + 1)..(Len(t) - 1) : ~Blank(At(t, q))}
    IN  IF on = {} THEN p
        ELSE RunEnd(t, Min(on), Len(t), LAMBDA c : Like(t, Min(on), big, c)) - 1

ChunkEnd(t, e, p, big) ==
    IF p >= e THEN p ELSE RunEnd(t, p, e, LAMBDA c : Like(t, p, big, c))

(* The n-fold application of a motion. *)
Iterate(F(_), p, n) == LET f[i \in 0..n] == IF i = 0 THEN p ELSE F(f[i - 1]) IN f[n]

(* A range of the text; whole says that it is one of whole lines. *)
Range2(s, e, whole) == [start |-> s, end |-> e, linewise |-> whole]
NoRange == Range2(1, 0, FALSE)

(* iw and aw: the run of one class under the cursor, aw with the blanks    *)
(* after it, or before it when there are none after; never off the line.   *)
WordObject(t, cur, big, around, n) ==
    LET ls == LineStart(t, cur)
        le == LineEnd(t, cur)
        p == IF cur >= le THEN le - 1 ELSE cur
        s == RunStart(t, p, ls, LAMBDA c : Like(t, p, big, c))
        Chunk(e) == ChunkEnd(t, le, e, big)
        Wide(e) == IF e < le /\ Blank(At(t, e)) THEN Chunk(Chunk(e)) ELSE Chunk(e)
        inner == Iterate(Chunk, Chunk(p), n - 1)
        first == IF Blank(At(t, p)) THEN Chunk(Chunk(p)) ELSE Chunk(p)
        wide == Iterate(Wide, first, n - 1)
        after == RunEnd(t, wide, le, Blank)
    IN  IF ls = le THEN Range2(ls, ls, FALSE)
        ELSE IF ~around THEN Range2(s, inner, FALSE)
        ELSE IF after > wide THEN Range2(s, after, FALSE)
        ELSE Range2(RunStart(t, s, ls, Blank), wide, FALSE)

(* The word under the cursor or the next one on its line. *)
WordAt(t, cur) ==
    LET le == LineEnd(t, cur)
        p == RunEnd(t, cur, le, LAMBDA c : c \notin WordChars)
    IN  IF p >= le THEN NoRange
        ELSE Range2(RunStart(t, p, 0, LAMBDA c : c \in WordChars),
                    RunEnd(t, p, le, LAMBDA c : c \in WordChars), FALSE)

-----------------------------------------------------------------------------
(* Definitions: a line whose first word is to, up to one whose first is    *)
(* end.                                                                    *)
StartsWith(t, s, w) ==
    LET p == FirstNonBlank(t, s)
    IN  /\ p < LineEnd(t, s)
        /\ At(t, p) = w
        /\ p + 1 < LineEnd(t, s) => Blank(At(t, p + 1))
Heads(t) == {s \in LineStarts(t) : StartsWith(t, s, To)}
Tails(t) == {s \in LineStarts(t) : StartsWith(t, s, End)}

FindDefinition(t, w) ==
    LET Name(s) ==
            LET p == RunEnd(t, FirstNonBlank(t, s) + 1, LineEnd(t, s), Blank)
            IN  Range2(p, RunEnd(t, p, LineEnd(t, s), LAMBDA c : c \in WordChars), FALSE)
        named == {s \in Heads(t) : /\ Name(s).end > Name(s).start
                                   /\ SameText(Slice(t, Name(s).start, Name(s).end), w)}
    IN  IF named = {} THEN -1 ELSE Name(Min(named)).start

DefFwd(t, p) ==
    Min({s \in Heads(t) : s >= NextLine(t, p)} \union {Len(t)})
DefBack(t, p) ==
    LET here == LineStart(t, p)
        before == {s \in Heads(t) : s < here \/ (s = here /\ p > here)}
    IN  Max(before \union {0})

(* ip and ap: a definition with its end, whatever is still open refused. *)
Definition(t, head, marks, around) ==
    IF marks = {} THEN NoRange
    ELSE IF Min(marks) \notin Tails(t) THEN NoRange
    ELSE IF around THEN Range2(head, NextLine(t, Min(marks)), TRUE)
    ELSE Range2(NextLine(t, head), Min(marks), TRUE)
MarksFrom(t, p) == {s \in Heads(t) \union Tails(t) : p <= s /\ s < Len(t)}
DefinitionAt(t, here, heads, around) ==
    IF heads = {} THEN NoRange
    ELSE Definition(t, Max(heads),
                    MarksFrom(t, IF here \in heads THEN NextLine(t, here) ELSE here), around)
ProcedureObject(t, here, around) ==
    DefinitionAt(t, here, {s \in Heads(t) : s <= here}, around)

ParaFwd(t, p) ==
    Min({s \in LineStarts(t) : s >= NextLine(t, p) /\ LineIsBlank(t, s)} \union {Len(t)})
ParaBack(t, p) ==
    Max({s \in LineStarts(t) : s < LineStart(t, p) /\ LineIsBlank(t, s)} \union {0})

-----------------------------------------------------------------------------
(* Brackets, each kind nesting only with itself. *)
Balance(t, s, e, o) ==
    Cardinality({q \in s..e : At(t, q) = o}) - Cardinality({q \in s..e : At(t, q) = Mate(o)})

(* %: the mate of the first bracket from the cursor to the line's end. *)
MatchBracket(t, cur) ==
    LET le == LineEnd(t, cur)
        p == RunEnd(t, cur, le, LAMBDA c : c \notin Openers \union Closers)
        c == At(t, p)
        closing == {q \in p..(Len(t) - 1) : At(t, q) = Mate(c) /\ Balance(t, p, q, c) = 0}
        opening == {q \in 0..p : At(t, q) = Mate(c) /\ Balance(t, q, p, c) = 0}
    IN  IF p >= le THEN -1
        ELSE IF c \in Openers THEN (IF closing = {} THEN -1 ELSE Min(closing))
        ELSE IF opening = {} THEN -1 ELSE Max(opening)

(* The pair of o the cursor is inside of, depth levels out, brackets        *)
(* included.                                                                *)
EnclosingPair(t, cur, o, depth) ==
    LET Outside(p) == {q \in 0..(p - 1) : At(t, q) = o /\ Balance(t, q, p - 1, o) = 1}
        Out(p) == IF p < 0 \/ Outside(p) = {} THEN -1 ELSE Max(Outside(p))
        first == IF At(t, cur) = o THEN cur ELSE Out(cur)
        Close(p) == {q \in p..(Len(t) - 1) : At(t, q) = Mate(o) /\ Balance(t, p, q, o) = 0}
        Level(p) == IF p < 0 \/ Close(p) = {} THEN -1 ELSE Out(p)
        at == Iterate(Level, first, depth - 1)
    IN  IF cur >= Len(t) THEN NoRange
        ELSE IF at < 0 THEN NoRange
        ELSE IF Close(at) = {} THEN NoRange
        ELSE Range2(at, Min(Close(at)), FALSE)

BracketObject(r, around) ==
    CASE r = NoRange -> r
      [] r # NoRange /\ around -> Range2(r.start, r.end + 1, FALSE)
      [] OTHER -> Range2(r.start + 1, r.end, FALSE)
TextObject(t, cur, key, around, n) ==
    CASE key \in {"w", "W"} -> WordObject(t, cur, key = "W", around, n)
      [] key = "p" -> ProcedureObject(t, LineStart(t, cur), around)
      [] key \in Openers \union Closers ->
            BracketObject(EnclosingPair(t, cur, IF key \in Openers THEN key ELSE Mate(key), n),
                          around)
      [] OTHER -> NoRange

-----------------------------------------------------------------------------
(* Motions: the target of a key, whether an operator takes whole lines,    *)
(* and whether it takes the character at the target too.                   *)
Motion(p, linewise, inclusive) == [pos |-> p, linewise |-> linewise, inclusive |-> inclusive]
NoMotion == Motion(-1, FALSE, FALSE)
PageLines == 30
Finders == {"f", "F", "t", "T"}

(* The n-th smallest and the n-th largest of a set of positions. *)
Nth(S, n) == CHOOSE x \in S : Cardinality({y \in S : y < x}) = n - 1
NthLast(S, n) == CHOOSE x \in S : Cardinality({y \in S : y > x}) = n - 1

FindChar(t, cur, kind, c, n) ==
    LET ahead == {q \in (cur + 1)..(LineEnd(t, cur) - 1) : At(t, q) = c}
        behind == {q \in LineStart(t, cur)..(cur - 1) : At(t, q) = c}
    IN  IF kind \in {"f", "t"}
        THEN IF Cardinality(ahead) < n THEN -1
             ELSE Nth(ahead, n) - (IF kind = "t" THEN 1 ELSE 0)
        ELSE IF Cardinality(behind) < n THEN -1
             ELSE NthLast(behind, n) + (IF kind = "T" THEN 1 ELSE 0)

(* What key does as a motion; find is the target of f F t T, mark the one  *)
(* mark or -1, and n the count, 0 for none with G.                         *)
ViMotion(t, cur, key, find, mark, n) ==
    LET Exclusive(p) == Motion(p, FALSE, FALSE)
        Inclusive(p) == IF p < 0 THEN NoMotion ELSE Motion(p, FALSE, TRUE)
        Linewise(d) == Motion(MoveLines(t, cur, d), TRUE, FALSE)
        Times(F(_)) == Iterate(F, cur, n)
        big == key \in {"W", "B", "E"}
    IN  CASE key \in {"h", "Left", "Backspace"} -> Exclusive(Max({LineStart(t, cur), cur - n}))
          [] key \in {"l", SP, "Right"} -> Exclusive(Min({LineEnd(t, cur), cur + n}))
          [] key \in {"j", "Down", "Enter", "+"} -> Linewise(n)
          [] key \in {"k", "Up", "-"} -> Linewise(-n)
          [] key \in {"^F", "PageDown"} -> Linewise(n * PageLines)
          [] key \in {"^B", "PageUp"} -> Linewise(-n * PageLines)
          [] key = "^D" -> Linewise(n * (PageLines \div 2))
          [] key = "^U" -> Linewise(-n * (PageLines \div 2))
          [] key \in {"0", "Home"} -> Exclusive(LineStart(t, cur))
          [] key = "^" -> Exclusive(FirstNonBlank(t, cur))
          [] key \in {"$", "End"} -> Exclusive(LineEnd(t, MoveLines(t, cur, n - 1)))
          [] key \in {"w", "W"} -> Exclusive(Times(LAMBDA p : WordFwd(t, p, big)))
          [] key \in {"b", "B"} -> Exclusive(Times(LAMBDA p : WordBack(t, p, big)))
          [] key \in {"e", "E"} -> Inclusive(Times(LAMBDA p : WordEnd(t, p, big)))
          [] key = "G" -> Motion(FirstNonBlank(t, IF n > 0 THEN GotoLine(t, n)
                                                  ELSE LineStart(t, Len(t))), TRUE, FALSE)
          [] key = "{" -> Exclusive(Times(LAMBDA p : ParaBack(t, p)))
          [] key = "}" -> Exclusive(Times(LAMBDA p : ParaFwd(t, p)))
          [] key \in {"f", "t"} -> Inclusive(FindChar(t, cur, key, find, n))
          [] key \in {"F", "T"} -> LET p == FindChar(t, cur, key, find, n)
                                   IN  IF p < 0 THEN NoMotion ELSE Exclusive(p)
          [] key \in {"goto", "gotoline"} /\ mark >= 0 ->
                LET p == Min({mark, Len(t)})
                IN  IF key = "gotoline" THEN Motion(FirstNonBlank(t, p), TRUE, FALSE)
                    ELSE Exclusive(p)
          [] key = "%" -> Inclusive(MatchBracket(t, cur))
          [] OTHER -> NoMotion

-----------------------------------------------------------------------------
(* Operators. *)
OpKind(op) == CASE op = "d" -> "DELETE" [] op = "c" -> "CHANGE" [] op = "y" -> "YANK"
                [] OTHER -> "INDENT"

OperatorRange(t, cur, op, m) ==
    LET lo == Min({cur, m.pos})
        hi == Max({cur, m.pos})
        ls == LineStart(t, lo)
        next == NextLine(t, hi)
    IN  IF ~m.linewise
        THEN Range2(lo, IF m.inclusive /\ hi < Len(t) THEN hi + 1 ELSE hi, FALSE)
        ELSE IF op = "c" THEN Range2(ls, LineEnd(t, hi), TRUE)
        ELSE Range2(IF op = "d" /\ next >= Len(t) /\ ls > 0 THEN ls - 1 ELSE ls, next, TRUE)

(* op over key as a motion: the range, or NoRange.  cw stops at the end of   *)
(* the word, and dw at the end of its line.                                  *)
RangeOver(t, cur, op, m) == IF m.pos < 0 THEN NoRange ELSE OperatorRange(t, cur, op, m)
OnItsLine(t, cur, m) ==
    IF m.pos > LineEnd(t, cur) /\ cur < LineEnd(t, cur)
    THEN Motion(LineEnd(t, cur), FALSE, FALSE) ELSE m
WordEnds(t, cur, big, n) ==
    Motion(Iterate(LAMBDA p : WordEnd(t, p, big), IF cur > 0 THEN cur - 1 ELSE 0, n), FALSE, TRUE)
MotionOf(t, cur, op, key, n, plain) ==
    LET word == key \in {"w", "W"}
        changes == cur < Len(t) /\ ~Blank(At(t, cur))
    IN  CASE key = op \/ (op = "d" /\ key = "D") -> Motion(MoveLines(t, cur, n - 1), TRUE, FALSE)
          [] word /\ op = "c" /\ changes -> WordEnds(t, cur, key = "W", n)
          [] word /\ op # "c" -> OnItsLine(t, cur, plain)
          [] OTHER -> plain
ApplyOperator(t, cur, op, key, find, mark, n) ==
    RangeOver(t, cur, op, MotionOf(t, cur, op, key, n, ViMotion(t, cur, key, find, mark, n)))
=============================================================================
