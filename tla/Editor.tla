------------------------------- MODULE Editor -------------------------------
(***************************************************************************)
(* The full-screen editor (devices/picocalc/editor.c): the keys of its     *)
(* default mode, the incremental search and its replacement prompt, and    *)
(* the actions of vi mode.  One key is one step, as in the loop of         *)
(* picocalc_editor_edit; what it draws is left out.  The struct of the     *)
(* code is the record ed; it is a function of the key, so that a command   *)
(* can be compared with the keys it stands for.                            *)
(***************************************************************************)
EXTENDS EditorRewrite, Vi

CONSTANTS CopyMax,      \* LOGO_COPY_BUFFER_SIZE
          SearchMax,    \* EDITOR_SEARCH_MAX
          Sittings,     \* what the editor is opened on: [text, vi, saves, keys], saves
                        \* telling whether the caller gave it a way to save, and keys
                        \* the number of keys pressed (a bound of the model)
          Offered(_),   \* the keys pressed in a state (a bound of the model)
          Lines         \* the command lines typed in vi mode

ASSUME EditorBounds ==
    /\ CopyMax \in Nat /\ CopyMax > 2 /\ SearchMax \in Nat
    /\ \A x \in Sittings : Len(x.text) < Size /\ x.keys \in Nat

VARIABLES ed,        \* EditorState
          file,      \* the text :w wrote last, or the one the editor was opened on
          unseen,    \* text has changed in insert mode by a key that is not one of Modifies
          left       \* keys still to be pressed
vars == <<ed, file, unseen, left>>

RECURSIVE PressAll(_, _)   \* the keys pressed one after the other

TabWidth == 2
NoFind == [on |-> FALSE, text |-> <<>>, origin |-> 0, replacing |-> FALSE, rep |-> <<>>, at |-> 0]
Opened(x) ==
    [text |-> x.text, cursor |-> 0, selecting |-> FALSE, anchor |-> 0, copy |-> <<>>,
     find |-> NoFind, vi |-> x.vi, saves |-> x.saves, st |-> ViStart, j |-> EmptyJournal,
     notes |-> <<>>, memo |-> [line |-> 0, pos |-> 0], out |-> "open"]

-----------------------------------------------------------------------------
(* The memo of the line index: a line number and where the line starts.  A   *)
(* lookup walks it line by line to the place looked at.                      *)
Look(e, p) ==
    LET q == Min({p, Len(e.text)})
        m == IF e.memo.pos > Len(e.text) THEN [line |-> 0, pos |-> 0] ELSE e.memo
        Breaks(a, b) == Cardinality({x \in a..(b - 1) : At(e.text, x) = NL})
        up == Breaks(q, m.pos)
        down == Breaks(m.pos, q)
    IN  [e EXCEPT !.memo =
            IF m.pos > q THEN [line |-> m.line - up, pos |-> LineStart(e.text, q)]
            ELSE IF down = 0 THEN m
            ELSE [line |-> m.line + down, pos |-> LineStart(e.text, q)]]
Forget(e) == [e EXCEPT !.memo = [line |-> 0, pos |-> 0]]

(* Every change of the text but the bulk ones tells the journal and the memo; *)
(* the notes of a key are put into the journal, in their order, at its end.   *)
\* Mutant: a memo inside what is taken out is kept.
EditPast(e, p, n, ins) ==
    [e EXCEPT !.text = Spliced(@, p, n, ins),
              !.notes = Append(@, Note(p, Slice(e.text, p, p + n), ins)),
              !.memo = IF @.pos > p + n THEN [line |-> 0, pos |-> 0] ELSE @]
Edit(e, p, n, ins) ==
    [e EXCEPT !.text = Spliced(@, p, n, ins),
              !.notes = Append(@, Note(p, Slice(e.text, p, p + n), ins)),
              !.memo = IF @.pos > p THEN [line |-> 0, pos |-> 0] ELSE @]

(* n changes one after the other. *)
Repeat(F(_), e, n) == Iterate(F, e, n)

-----------------------------------------------------------------------------
(* The keys that edit. *)
SelStart(e) == Min({e.anchor, e.cursor})
SelEnd(e) == Max({e.anchor, e.cursor})
DeleteSelection(e) ==
    IF ~e.selecting THEN e
    ELSE [Edit(e, SelStart(e), SelEnd(e) - SelStart(e), <<>>) EXCEPT
             !.cursor = SelStart(e), !.selecting = FALSE]

InsertChar(e, c) ==
    LET d == DeleteSelection(e)
    IN  IF Len(e.text) >= Size - 1 THEN e
        ELSE [Edit(d, d.cursor, 0, <<c>>) EXCEPT !.cursor = @ + 1]
InsertSpaces(e, n) == Repeat(LAMBDA x : InsertChar(x, SP), e, n)

Column(e) == e.cursor - LineStart(e.text, e.cursor)
InsertTab(e) == InsertSpaces(e, TabWidth - (Column(e) % TabWidth))

(* A printable key; an opening bracket brings its mate. *)
Type(e, c) ==
    LET one == InsertChar(e, c)
    IN  IF e.selecting THEN e
        ELSE IF c \in Openers THEN [InsertChar(one, Mate(c)) EXCEPT !.cursor = @ - 1]
        ELSE one

(* Return keeps the indentation, one stop deeper for each open bracket.      *)
OpenBrackets(t, s, p) ==
    LET f[i \in s..p] ==
            IF i = s THEN 0
            ELSE CASE At(t, i - 1) = "[" -> f[i - 1] + 1
                   [] At(t, i - 1) = "]" -> Max({0, f[i - 1] - 1})
                   [] OTHER -> f[i - 1]
    IN  f[p]
IsSpace(c) == c = SP
NewLine(e) ==
    LET s == LineStart(e.text, e.cursor)
        spaces == RunEnd(e.text, s, Len(e.text), IsSpace) - s
        indent == spaces + TabWidth * OpenBrackets(e.text, s, e.cursor)
        broken == InsertChar(e, NL)
        strip == RunEnd(broken.text, broken.cursor, Len(broken.text), IsSpace) - broken.cursor
    IN  InsertSpaces(Repeat(LAMBDA x : Edit(x, x.cursor, 1, <<>>), broken, strip), indent)

DeleteChar(e) ==
    IF e.selecting THEN DeleteSelection(e)
    ELSE IF e.cursor >= Len(e.text) THEN e
    ELSE Edit(e, e.cursor, 1, <<>>)

(* Backspace takes one character, or in the indentation all of a tab stop.   *)
Backspace(e) ==
    LET s == LineStart(e.text, e.cursor)
        col == e.cursor - s
        indent == col > 0 /\ \A p \in s..(e.cursor - 1) : At(e.text, p) = SP
        n == IF indent THEN col - TabWidth * ((col - 1) \div TabWidth) ELSE 1
    IN  IF e.selecting THEN DeleteSelection(e)
        ELSE IF e.cursor = 0 THEN e
        ELSE Repeat(LAMBDA x : DeleteChar([x EXCEPT !.cursor = @ - 1]), e, n)

-----------------------------------------------------------------------------
(* The copy buffer. *)
Fill(e, s, t) == [e EXCEPT !.copy = Slice(e.text, s, Min({t, s + CopyMax - 1}))]
LineWithBreak(e) == Range2(LineStart(e.text, e.cursor), NextLine(e.text, e.cursor), TRUE)
Copy(e) ==
    IF e.selecting THEN [Fill(e, SelStart(e), SelEnd(e)) EXCEPT !.selecting = FALSE]
    ELSE Fill(e, LineWithBreak(e).start, LineWithBreak(e).end)
CutLine(e) ==
    LET r == LineWithBreak(e)
        c == Fill(e, r.start, r.end)
    IN  [Edit(c, r.start, Len(c.copy), <<>>) EXCEPT !.cursor = r.start]
CutKey(e) ==
    IF e.selecting THEN DeleteSelection(Fill(e, SelStart(e), SelEnd(e))) ELSE CutLine(e)
Paste(e) ==
    LET d == DeleteSelection(e)
    IN  IF e.copy = <<>> THEN e
        ELSE IF Len(d.text) + Len(d.copy) >= Size THEN d
        ELSE [Edit(d, d.cursor, 0, d.copy) EXCEPT !.cursor = @ + Len(d.copy)]

(* The indentation of the selected lines, from the last to the first.        *)
SelectedLines(e) ==
    LET first == LineStart(e.text, SelStart(e))
        last == LineStart(e.text, Max({0, SelEnd(e) - 1}))
    IN  {s \in LineStarts(e.text) : first <= s /\ s <= last}
Downward(F(_, _), e, S) ==
    LET f[i \in 0..Cardinality(S)] == IF i = 0 THEN e ELSE F(f[i - 1], NthLast(S, i))
    IN  f[Cardinality(S)]
OutdentBy(e, s, n) ==
    LET Pushed(p) == IF p >= s + n THEN p - n ELSE IF p > s THEN s ELSE p
    IN  IF n = 0 THEN e
        ELSE [Edit(e, s, n, <<>>) EXCEPT !.cursor = Pushed(@), !.anchor = Pushed(@)]
Outdent(e, s) ==
    OutdentBy(Look(e, s), s, Min({TabWidth, RunEnd(e.text, s, LineEnd(e.text, s), IsSpace) - s}))
Indent(e, s) ==
    LET Pushed(p) == IF p >= s THEN p + TabWidth ELSE p
    IN  [Edit(Look(e, s), s, 0, <<SP, SP>>) EXCEPT !.cursor = Pushed(@), !.anchor = Pushed(@)]
DecreaseIndent(e) == IF e.selecting THEN Downward(Outdent, e, SelectedLines(e)) ELSE e
IncreaseIndent(e) ==
    IF ~e.selecting THEN e
    ELSE IF Len(e.text) + TabWidth * Cardinality(SelectedLines(e)) >= Size THEN e
    ELSE Downward(Indent, e, SelectedLines(e))

-----------------------------------------------------------------------------
(* The keys that move, the view being left out. *)
WordLeft(t, p) ==
    LET q == RunStart(t, p, 0, Blank) IN RunStart(t, q, 0, LAMBDA c : ~Blank(c))
WordRight(t, p) ==
    LET q == RunEnd(t, p, Len(t), LAMBDA c : ~Blank(c)) IN RunEnd(t, q, Len(t), Blank)
HomePos(t, p) ==
    LET q == FirstNonBlank(t, p)
    IN  IF p = q \/ q = LineEnd(t, p) THEN LineStart(t, p) ELSE q
ArrowKeys == {"Left", "Right", "WordLeft", "WordRight", "Up", "Down", "Home", "End",
              "PageUp", "PageDown"}
ArrowTo(t, p, key) ==
    CASE key = "Left" -> Max({0, p - 1})
      [] key = "Right" -> Min({Len(t), p + 1})
      [] key = "WordLeft" -> WordLeft(t, p)
      [] key = "WordRight" -> WordRight(t, p)
      [] key = "Up" -> IF LineStart(t, p) = 0 THEN p ELSE MoveLines(t, p, -1)
      [] key = "Down" -> IF LineEnd(t, p) = Len(t) THEN p ELSE MoveLines(t, p, 1)
      [] key = "Home" -> HomePos(t, p)
      [] key = "End" -> LineEnd(t, p)
      [] key = "PageUp" -> MoveLines(t, p, -PageLines)
      [] key = "PageDown" -> MoveLines(t, p, PageLines)
MoveCursor(e, p) == [Look(e, p) EXCEPT !.cursor = p]
Arrow(e, key) == MoveCursor(e, ArrowTo(e.text, e.cursor, key))

ToggleBlock(e) ==
    IF e.selecting THEN [e EXCEPT !.selecting = FALSE]
    ELSE [e EXCEPT !.selecting = TRUE, !.anchor = e.cursor]
StartSearch(e) == [e EXCEPT !.find = [@ EXCEPT !.on = TRUE, !.text = <<>>, !.origin = e.cursor]]

Default(e, key) ==
    CASE key = "Esc" -> [e EXCEPT !.out = "accept"]
      [] key = "Brk" -> [e EXCEPT !.out = "cancel"]
      [] key \in ArrowKeys -> Arrow(e, key)
      [] key = "Backspace" -> Backspace(e)
      [] key = "Del" -> DeleteChar(e)
      [] key = "Enter" -> NewLine(e)
      [] key = "Tab" -> IF e.selecting THEN e ELSE InsertTab(e)
      [] key = "^B" -> ToggleBlock(e)
      [] key = "^F" -> StartSearch(e)
      [] key = "^C" -> Copy(e)
      [] key = "^V" -> Paste(e)
      [] key = "^X" -> CutKey(e)
      [] key = "^," -> DecreaseIndent(e)
      [] key = "^." -> IncreaseIndent(e)
      [] key \in Chars -> Type(e, key)
      [] OTHER -> e

-----------------------------------------------------------------------------
(* The incremental search: the match is the selection, and the next search   *)
(* starts from it.                                                           *)
SearchApply(e, from, forward) ==
    LET w == e.find.text
        p == PlainFind(e.text, w, from, forward)
    IN  IF p >= 0 THEN [e EXCEPT !.find.origin = p, !.anchor = p, !.cursor = p + Len(w),
                                 !.selecting = TRUE]
        ELSE [e EXCEPT !.cursor = e.find.origin, !.selecting = FALSE]

SearchKey(e, key) ==
    LET w == e.find.text
        Again(v) == SearchApply([e EXCEPT !.find.text = v], e.find.origin, TRUE)
    IN  CASE key = "Esc" -> [e EXCEPT !.find.on = FALSE]
          [] key = "Brk" -> [e EXCEPT !.find.on = FALSE, !.out = "cancel"]
          [] key = "Down" -> SearchApply(e, e.find.origin + 1, TRUE)
          [] key = "Up" -> SearchApply(e, e.find.origin, FALSE)
          [] key = "^R" -> IF w = <<>> THEN e
                           ELSE [e EXCEPT !.find = [@ EXCEPT !.replacing = TRUE, !.rep = <<>>,
                                                             !.at = 0]]
          [] key = "Backspace" -> IF w = <<>> THEN e ELSE Again(SubSeq(w, 1, Len(w) - 1))
          [] key \in Chars \ {NL} /\ Len(w) < SearchMax -> Again(Append(w, key))
          [] OTHER -> e

(* Return replaces every match; the memo and the journal start afresh.       *)
ReplaceAllKey(e) ==
    LET t == ReplacedText(e.text, e.find.text, e.find.rep, Size)
    IN  [Forget(e) EXCEPT !.text = t, !.cursor = Min({@, Len(t)}), !.j = EmptyJournal,
                          !.selecting = FALSE,
                          !.find = [@ EXCEPT !.on = FALSE, !.replacing = FALSE]]

ReplacePrompt(e, key) ==
    LET r == e.find.rep
        a == e.find.at
        Put(rep, at) == [e EXCEPT !.find = [@ EXCEPT !.rep = rep, !.at = at]]
    IN  CASE key = "Esc" -> [e EXCEPT !.find.replacing = FALSE]
          [] key = "Brk" -> [e EXCEPT !.find = [@ EXCEPT !.on = FALSE, !.replacing = FALSE],
                                      !.out = "cancel"]
          [] key = "Enter" -> ReplaceAllKey(e)
          [] key = "Left" -> Put(r, Max({0, a - 1}))
          [] key = "Right" -> Put(r, Min({Len(r), a + 1}))
          [] key = "Backspace" -> IF a = 0 THEN e ELSE Put(Spliced(r, a - 1, 1, <<>>), a - 1)
          [] key = "Del" -> IF a = Len(r) THEN e ELSE Put(Spliced(r, a, 1, <<>>), a)
          [] key \in Chars \ {NL} /\ Len(r) < SearchMax -> Put(Spliced(r, a, 0, <<key>>), a + 1)
          [] OTHER -> e

-----------------------------------------------------------------------------
(* What an action of vi mode does to the text. *)
InsertText(e, p, t) == IF Len(e.text) + Len(t) >= Size THEN e ELSE Edit(e, p, 0, t)
DeleteRange(e, s, t) ==
    LET to == Min({t, Len(e.text)}) IN IF s >= to THEN e ELSE Edit(e, s, to - s, <<>>)
Modified(e) == [e EXCEPT !.st.modified = TRUE]
PutCursor(e, p) == [e EXCEPT !.cursor = p]

(* Whole lines are told by the newline the copy ends with, so a yank of      *)
(* lines makes it so; one of the last line was handed its break in front.    *)
Yank(e, s0, t0, whole) ==
    LET t == Min({t0, Len(e.text)})
        s == Min({s0, t})
        w == Slice(e.text, s, Min({t, s + CopyMax - 2}))
        front == w # <<>> /\ w[1] = NL /\ w[Len(w)] # NL
        x == IF front THEN Tail(w) ELSE w
        ended == x # <<>> /\ x[Len(x)] = NL
    IN  [e EXCEPT !.copy = IF ~whole THEN w ELSE IF ended THEN x ELSE Append(x, NL)]

(* count copies, as many as fit, at one place. *)
PasteAt(e, p, count, fresh) ==
    LET fits == Max({n \in 0..count : n = 0 \/ Len(e.text) + n * Len(e.copy) < Size})
        n == fits * Len(e.copy)
        done == Repeat(LAMBDA x : Edit(x, p + Len(x.text) - Len(e.text), 0, e.copy), e, fits)
        whole == e.copy[Len(e.copy)] = NL
    IN  IF n = 0 THEN e
        ELSE PutCursor(Look(done, p), IF whole THEN FirstNonBlank(done.text, p) ELSE p + n - 1)

ViPaste(e, count, after) ==
    LET le == LineEnd(e.text, e.cursor)
        whole == e.copy[Len(e.copy)] = NL
        more == InsertText(e, le, <<NL>>)
    IN  IF e.copy = <<>> THEN e
        ELSE IF ~whole
        THEN PasteAt(e, IF after /\ e.cursor < le THEN e.cursor + 1 ELSE e.cursor, count, FALSE)
        ELSE IF ~after THEN PasteAt(e, LineStart(e.text, e.cursor), count, FALSE)
        ELSE IF le < Len(e.text) THEN PasteAt(e, le + 1, count, FALSE)
        ELSE IF more = e THEN e
        ELSE PasteAt(more, Len(more.text), count, TRUE)

JoinOne(e) ==
    LET le == LineEnd(e.text, e.cursor)
        next == RunEnd(e.text, le + 1, Len(e.text), IsSpace)
        d == PutCursor(DeleteRange(e, le, next), le)
        bare == \/ le = LineStart(e.text, e.cursor)
                \/ At(e.text, le - 1) = SP
                \/ le >= Len(d.text)
    IN  IF le >= Len(e.text) THEN e
        ELSE IF bare THEN d
        ELSE IF At(d.text, le) = NL THEN d ELSE InsertText(d, le, <<SP>>)

Flipped(c) == CASE c = "a" -> "A" [] c = "b" -> "B" [] c = "A" -> "a" [] c = "B" -> "b"
                [] OTHER -> c
(* Puts put[c] for each character c in [s, t) that it changes. *)
\* Mutant: the journal is not told.
OverwriteUntold(e, s, t, put) ==
    [e EXCEPT !.text = [i \in DOMAIN @ |-> IF s < i /\ i <= t THEN put[@[i]] ELSE @[i]]]
Overwrite(e, s, t, put) ==
    LET to == Min({t, Len(e.text)})
        f[i \in s..Max({s, to})] ==
            IF i = s THEN e
            ELSE LET x == f[i - 1]
                     c == At(e.text, i - 1)
                 IN  IF put[c] = c THEN x
                     ELSE [x EXCEPT !.text = Spliced(@, i - 1, 1, <<put[c]>>),
                                    !.notes = Append(@, Note(i - 1, <<c>>, <<put[c]>>))]
    IN  f[Max({s, to})]

OpenLine(e, below) ==
    LET s == LineStart(e.text, e.cursor)
        n == RunEnd(e.text, s, Len(e.text), IsSpace) - s
        indent == Slice(e.text, s, s + n)
        at == IF below THEN LineEnd(e.text, e.cursor) ELSE s
        done == InsertText(e, at, IF below THEN <<NL>> \o indent ELSE Append(indent, NL))
    IN  IF done = e THEN e ELSE PutCursor(done, IF below THEN at + 1 + n ELSE s + n)

Indented(e) ==
    PutCursor([Look(e, e.anchor) EXCEPT !.selecting = FALSE], FirstNonBlank(e.text, e.anchor))
ViIndent(e, s, t, stops) ==
    LET Stop(x) == IF stops > 0 THEN IncreaseIndent(x) ELSE DecreaseIndent(x)
    IN  Indented(Repeat(Stop, [e EXCEPT !.selecting = TRUE, !.anchor = s,
                                        !.cursor = IF t > s THEN t - 1 ELSE s],
                        IF stops > 0 THEN stops ELSE -stops))

ReplaceChar(e, act) ==
    IF act.ch = NL
    THEN PutCursor(InsertText(DeleteRange(e, act.start, act.end), act.start, <<NL>>),
                   act.start + 1)
    ELSE PutCursor(Overwrite(e, act.start, act.end, [c \in ToSet(e.text) |-> act.ch]),
                   IF act.end > act.start THEN act.end - 1 ELSE act.start)
ToggleCase(e, act) ==
    PutCursor(Overwrite(e, act.start, act.end, [c \in ToSet(e.text) |-> Flipped(c)]),
              IF act.end < Len(e.text) THEN act.end ELSE act.start)

ViSearch(e, act) ==
    LET Found(r) == IF r.at >= 0 THEN PutCursor(e, r.at) ELSE e
    IN  Found(PatternFind(e.st.pattern, e.text,
                          IF act.ch = "/" THEN act.start + 1 ELSE act.start, act.ch = "/"))

(* The commands of EditorRewrite: nothing when they count nothing. *)
\* Mutant: the flag is left to the keys.
RewrittenUnmarked(e, r) ==
    IF r.count <= 0 THEN e
    ELSE PutCursor([Forget(e) EXCEPT !.text = r.w.t, !.notes = r.w.notes], r.landed)
Rewritten(e, r) ==
    IF r.count <= 0 THEN e
    ELSE Modified(PutCursor([Forget(e) EXCEPT !.text = r.w.t, !.notes = r.w.notes], r.landed))
Rewrite(e, act) ==
    LET w == [t |-> e.text, notes |-> <<>>]
    IN  CASE act.kind = "SUBSTITUTE" ->
                Substitute(w, act.start, act.end, e.st.pattern, e.st.replacement, e.st.subGlobal)
          [] act.kind = "MOVE_LINES" -> ShiftLines(w, act.start, act.end, act.dest, act.ch = "t")
          [] act.kind = "GLOBAL" ->
                Global(w, act.start, act.end, e.st.pattern, act.invert, act.ch, act.pat,
                       e.st.replacement, e.st.subGlobal)
          [] act.kind = "INCREMENT" -> Increment(w, act.start, act.count)

(* u and ^R: count steps of the journal, while there are any. *)
Travel(e, count, back) ==
    LET F(x) == IF back THEN Revert(x.j, x.t, Size) ELSE Reapply(x.j, x.t, Size)
        f[i \in 0..count] ==
            IF i = 0 THEN Turn(e.j, e.text, e.cursor, FALSE)
            ELSE LET x == f[i - 1]
                     r == F(x)
                 IN  IF r.any THEN r ELSE x
        r == f[count]
    IN  IF r.any
        THEN Modified(PutCursor([Forget(e) EXCEPT !.text = r.t, !.j = r.j], r.at))
        ELSE e

Carry(e, act) ==
    LET k == act.kind
        yanked == Yank(e, act.start, act.end, act.linewise)
        cut == PutCursor(DeleteRange(yanked, act.start, act.end), act.start)
        over == PutCursor(DeleteRange(e, act.start, act.end), act.start)
        n == Max({1, act.count})
        Join(x) == JoinOne(x)
    IN  CASE k = "MOVE" -> PutCursor(e, act.start)
          [] k = "YANK" -> PutCursor(yanked, act.start)
          [] k \in {"DELETE", "CHANGE"} -> Modified(cut)
          [] k \in {"PASTE_AFTER", "PASTE_BEFORE"} -> Modified(ViPaste(e, n, k = "PASTE_AFTER"))
          [] k = "PASTE_OVER" -> Modified(ViPaste(over, 1, FALSE))
          [] k = "INDENT" -> Modified(ViIndent(e, act.start, act.end, act.count))
          [] k = "REPLACE_CHAR" -> Modified(ReplaceChar(e, act))
          [] k \in {"OPEN_BELOW", "OPEN_ABOVE"} -> Modified(OpenLine(e, k = "OPEN_BELOW"))
          [] k = "JOIN" -> Modified(Repeat(Join, PutCursor(e, act.start), Max({0, act.count - 1})))
          [] k = "TOGGLE_CASE" -> Modified(ToggleCase(e, act))
          [] k = "SEARCH" -> ViSearch(e, act)
          [] k \in {"SUBSTITUTE", "MOVE_LINES", "GLOBAL", "INCREMENT"} ->
                Rewritten(e, Rewrite(e, act))
          [] k = "UNDO" -> Travel(e, n, TRUE)
          [] k = "REDO" -> Travel(e, n, FALSE)
          [] k = "ACCEPT" \/ (k = "WRITE" /\ ~e.saves) -> [e EXCEPT !.out = "accept"]
          [] k = "CANCEL" -> [e EXCEPT !.out = "cancel"]
          [] OTHER -> e

(* The text a repeat types, if it fits, and the step back of its Esc. *)
TypeInsert(e, w) ==
    LET fits == w = <<>> \/ Len(e.text) + Len(w) < Size
        done == IF w = <<>> THEN e ELSE Edit(e, e.cursor, 0, w)
        p == e.cursor + Len(w)
        at == IF p > LineStart(done.text, p) THEN p - 1 ELSE p
    IN  IF ~fits THEN e
        ELSE PutCursor(IF w = <<>> THEN done ELSE Modified(done), at)

Typed(e, act) == IF act.inserts /\ e.out = "open" THEN TypeInsert(e, act.insert) ELSE e
Landed(e) ==
    LET visual == Visual(e.st)
        placed == PutCursor(e, Min({e.cursor, Len(e.text)}))
    IN  IF e.out # "open" THEN e
        ELSE IF visual \/ placed.selecting
        THEN [placed EXCEPT !.anchor = e.st.anchor, !.selecting = visual]
        ELSE placed
ViApply(e, act) == Landed(Typed(Carry(e, act), act))

(* A result of the key layer, carried out; what opens an insert session is   *)
(* told where the cursor has come to stand.                                  *)
Begun(mode, e) ==
    IF mode # "INSERT" /\ e.st.mode = "INSERT"
    THEN [e EXCEPT !.st = InsertBegan(e.st, e.cursor, Len(e.text))] ELSE e
Settle(e, r) == Begun(e.st.mode, ViApply([e EXCEPT !.st = r.st], r.act))
Step(e) == IF e.st.mode = "INSERT" THEN e ELSE [e EXCEPT !.j = Begin(@)]

(* In insert mode every key but Esc is the editor's own. *)
Modifies == Chars \union {"Backspace", "Del", "Enter", "Tab"}
OwnKey(e, key) == ~e.vi \/ key = "Brk" \/ (e.st.mode = "INSERT" /\ key # "Esc")
Noted(e, key) ==
    IF ~e.vi THEN e
    ELSE IF e.st.mode = "INSERT" /\ key \in Modifies THEN Modified(Step(e)) ELSE Step(e)
PlainPress(e, key) == Default(Noted(e, key), key)
FindPress(e, key) == IF e.find.replacing THEN ReplacePrompt(e, key) ELSE SearchKey(e, key)
ViPress(e, key) == Settle(Step(e), ViKey(e.st, e.text, e.cursor, key))

(* The lookups before a key and after it: the header, the gutter and where   *)
(* the cursor is drawn.                                                      *)
Here(e) == Look(e, e.cursor)
Journalled(e) ==
    [e EXCEPT !.notes = <<>>,
              !.j = IF e.vi THEN FoldLeft(RecordNote, @, e.notes) ELSE @]
Shown(e) ==
    IF e.out # "open" THEN e
    ELSE Journalled(IF e.cursor >= 0 THEN Look(e, e.cursor) ELSE e)
KeyOf(e, key) == Shown(IF OwnKey(e, key) THEN PlainPress(e, key) ELSE ViPress(e, key))
PressAll(e, keys) ==
    IF keys = <<>> THEN e ELSE PressAll(KeyOf(Here(e), keys[1]), Tail(keys))

-----------------------------------------------------------------------------
(* Past these the code reads and writes outside the buffer. *)
Sound(e) == /\ e.cursor \in 0..Len(e.text)
            /\ e.selecting => e.anchor \in 0..Len(e.text)
            /\ Len(e.text) < Size
Running == ed.out = "open" /\ left > 0 /\ Sound(ed)
CommandLine == ~ed.find.on /\ ed.vi /\ ed.st.mode = "CMDLINE"

Init == /\ \E x \in Sittings : ed = Opened(x) /\ file = x.text /\ left = x.keys
        /\ unseen = FALSE

Pressed(key, e) ==
    /\ ed' = e
    /\ left' = left - 1
    /\ UNCHANGED file
    /\ unseen' = \/ unseen
                 \/ /\ ed.st.mode = "INSERT" \/ ed.find.on
                    /\ key \notin Modifies \/ ed.find.on
                    /\ ed'.text # ed.text

(* A key of the default mode, or one vi mode leaves to it. *)
PlainKey == /\ Running /\ ~ed.find.on
            /\ \E key \in Offered(ed) :
                    OwnKey(ed, key) /\ Pressed(key, Shown(PlainPress(Here(ed), key)))
(* A key of the search or of its replacement prompt. *)
FindingKey == /\ Running /\ ed.find.on
              /\ \E key \in Offered(ed) : Pressed(key, Shown(FindPress(Here(ed), key)))
(* A key vi mode takes. *)
ViModeKey == /\ Running /\ ~ed.find.on /\ ed.st.mode # "CMDLINE"
             /\ \E key \in Offered(ed) :
                    ~OwnKey(ed, key) /\ Pressed(key, Shown(ViPress(Here(ed), key)))
(* A whole command line.  Where the editor can save, :w may also write.  *)
Entered(act, e) ==
    \/ ed' = e /\ UNCHANGED file
    \/ /\ act.kind = "WRITE" /\ ed.saves
       /\ ed' = [e EXCEPT !.st.modified = FALSE]
       /\ file' = ed.text
Enter(e, r) == Entered(r.act, Shown(Settle(e, r)))
ViCommand == /\ Running /\ CommandLine
             /\ \E line \in Lines :
                   Enter(Step(Here(ed)), ViLine(ed.st, ed.text, ed.cursor, line))
             /\ left' = left - 1
             /\ unseen' = (unseen /\ ed'.text # file')

Next == PlainKey \/ FindingKey \/ ViModeKey \/ ViCommand
Spec == Init /\ [][Next]_vars

-----------------------------------------------------------------------------
(* The shape of the state: the copy fits its buffer, the memo is a line, the *)
(* journal never holds more than its store and never counts more records     *)
(* applied than it has.                                                      *)
TypeOK ==
    /\ ed.out \in {"open", "accept", "cancel"}
    /\ Len(ed.copy) < CopyMax
    /\ ed.memo.line \in Nat /\ ed.memo.pos \in Nat
    /\ ed.j.applied \in 0..Len(ed.j.recs) /\ ed.j.step \in 0..Len(ed.j.recs)
    /\ Used(ed.j.recs) <= Room
    /\ ed.st.mode \in {"NORMAL", "INSERT", "VISUAL", "VISUAL_LINE", "CMDLINE"}
    /\ ed.st.count \in 0..CountMax /\ Len(ed.st.stroke) <= RepeatMax
    /\ Len(ed.st.repeatInsert) <= InsertMax
    /\ left \in Nat

(* The journal describes the text: taken back one by one from the last that  *)
(* is applied, every record finds what it put in, and put forth again every  *)
(* undone one finds what it is to take out, all of it within the buffer.  A  *)
(* change that the journal did not see breaks this (editor_note_change).     *)
JournalTells ==
    LET recs == ed.j.recs
        n == ed.j.applied
        Holds(t, p, w) == p + Len(w) <= Len(t) /\ Slice(t, p, p + Len(w)) = w
        past[i \in 0..n] ==      \* the text i records ago
            IF i = 0 THEN ed.text
            ELSE LET r == recs[n - i + 1] IN Cut(past[i - 1], r.pos, Len(r.ins), r.del)
        hence[i \in 0..(Len(recs) - n)] ==
            IF i = 0 THEN ed.text
            ELSE LET r == recs[n + i] IN Cut(hence[i - 1], r.pos, Len(r.del), r.ins)
    IN  Sound(ed) =>
            /\ \A i \in 1..n : LET r == recs[n - i + 1]
                               IN  Holds(past[i - 1], r.pos, r.ins) /\ Len(past[i]) < Size
            /\ \A i \in 1..(Len(recs) - n) :
                    LET r == recs[n + i]
                    IN  Holds(hence[i - 1], r.pos, r.del) /\ Len(hence[i]) < Size

(* The memo of the line index always names a real line: its number and the   *)
(* offset it starts at agree with the text, after every edit of any key.     *)
MemoExact ==
    /\ TypeOK
    /\ Sound(ed) => /\ ed.memo.pos \in LineStarts(ed.text)
                    /\ LineNumber(ed.text, ed.memo.pos) = ed.memo.line + 1

(* :q never throws away a text that differs from what was written last       *)
(* without the flag that makes it refuse, so long as insert mode changed it  *)
(* by the keys it watches (editor_vi_key_modifies).                          *)
ModifiedTold == ed.vi /\ ed.text # file /\ ~unseen => ed.st.modified

(* The keys . stands for, typed: the count, the recorded keys, and for an    *)
(* insert session its text and Esc.                                          *)
Keystrokes(e) ==
    LET n == e.st.repeatCount
    IN  (IF n > 1 THEN Written(n) ELSE <<>>) \o e.st.repeatKeys
            \o (IF e.st.repeatSet THEN Append(e.st.repeatInsert, "Esc") ELSE <<>>)
Repeatable(e) ==
    /\ e.vi /\ e.out = "open" /\ Sound(e) /\ ~e.find.on
    /\ e.st.mode = "NORMAL" /\ e.st.op = "" /\ e.st.prefix = "" /\ e.st.count = 0
    /\ e.st.repeatKeys # <<>>
    /\ \A i \in DOMAIN e.st.repeatInsert : e.st.repeatInsert[i] \in Lower
    /\ Len(e.text) + Len(e.copy) * e.st.repeatCount + InsertMax + TabWidth < Size

(* . does what typing the recorded command again would do: the same text,    *)
(* cursor and copy.  G without a count is the exception: it records a count   *)
(* of 1 that was not typed.                                                  *)
AllSame(S) == \A a, b \in S : a.text = b.text /\ a.cursor = b.cursor /\ a.copy = b.copy
Retypes(e) == AllSame({PressAll(e, keys) : keys \in {<<".">>, Keystrokes(e)}})
RepeatRetypes ==
    Repeatable(ed) /\ (\A i \in DOMAIN ed.st.repeatKeys : ed.st.repeatKeys[i] # "G")
        => Retypes(ed)

=============================================================================
