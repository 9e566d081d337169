-------------------------------- MODULE Vi --------------------------------
(***************************************************************************)
(* The vi key layer of the editor (devices/picocalc/editor_vi.c): what a   *)
(* key does to the state of the layer, and the action it hands to the      *)
(* editor.  As in the code it is a function of the state st, the text t,   *)
(* the cursor and the key; the editor (Editor) carries the action out.     *)
(* A command line is one input, already read into its parts: the range,    *)
(* the command and its fields.                                             *)
(***************************************************************************)
EXTENDS EditorText, EditorPattern

CONSTANTS RepeatMax,   \* LOGO_VI_REPEAT_MAX: keys of a command kept for .
          InsertMax,   \* LOGO_VI_INSERT_MAX: characters of an insert kept for .
          CountMax     \* LOGO_VI_COUNT_MAX

ASSUME ViBounds == /\ RepeatMax \in Nat \ {0} /\ InsertMax \in Nat
                   /\ CountMax \in Nat \ {0}

RECURSIVE NormalKeys(_, _, _, _)   \* the keys of a command, one after the other

ViStart ==
    [mode |-> "NORMAL", count |-> 0, opCount |-> 0, op |-> "", prefix |-> "",
     anchor |-> 0, modified |-> FALSE, mark |-> -1, visSet |-> FALSE, visStart |-> 0,
     visEnd |-> 0, lastFind |-> "", findChar |-> "", stroke |-> <<>>, repeatKeys |-> <<>>,
     repeatCount |-> 0, repeatSet |-> FALSE, repeatInsert |-> <<>>, replaying |-> FALSE,
     fromVisual |-> FALSE, origin |-> 0, len0 |-> 0, recording |-> FALSE,
     pendingCount |-> 0, cmdline |-> "", pattern |-> <<>>, replacement |-> <<>>,
     forward |-> TRUE, subGlobal |-> FALSE]

Visual(st) == st.mode \in {"VISUAL", "VISUAL_LINE"}

(* An action before anything has been decided: nothing, at the cursor. *)
Idle(cur) == [kind |-> "NONE", start |-> cur, end |-> cur, linewise |-> FALSE, ch |-> "",
              count |-> 0, dest |-> 0, invert |-> FALSE, inserts |-> FALSE,
              insert |-> <<>>, pat |-> <<>>]
ActAt(act, kind, s, e) == [act EXCEPT !.kind = kind, !.start = s, !.end = e]

-----------------------------------------------------------------------------
(* Counts, strokes, and the end of a command. *)
ClearPending(st) ==
    [st EXCEPT !.count = 0, !.opCount = 0, !.op = "", !.prefix = "", !.stroke = <<>>]
CountProduct(a, b) == Min({CountMax, Max({1, a}) * Max({1, b})})
Count(st) == CountProduct(st.opCount, st.count)
TakeCount(st) == [st EXCEPT !.count = 0, !.opCount = 0]
MoreCount(st, d) ==
    IF st.count <= CountMax \div 10 THEN [st EXCEPT !.count = 10 * @ + d] ELSE st

StrokePush(st, key) ==
    IF ~st.replaying /\ Len(st.stroke) < RepeatMax
    THEN [st EXCEPT !.stroke = Append(@, key)] ELSE st

Changes == {"DELETE", "PASTE_AFTER", "PASTE_BEFORE", "PASTE_OVER", "INDENT",
            "REPLACE_CHAR", "JOIN", "TOGGLE_CASE", "INCREMENT"}

(* A change that opens an insert session keeps its keys until the Esc that  *)
(* closes it; any other change is what . repeats from now on.               *)
Commit(st, act, n) ==
    LET own == ~st.replaying /\ ~st.fromVisual
        kept == [st EXCEPT !.repeatKeys = st.stroke, !.repeatCount = n, !.repeatSet = FALSE]
    IN  IF st.mode = "INSERT" /\ own
        THEN [ClearPending(st) EXCEPT !.stroke = st.stroke, !.pendingCount = n]
        ELSE ClearPending(IF act.kind \in Changes /\ own /\ st.stroke # <<>>
                          THEN kept ELSE st)

Result(st, act) == [st |-> st, act |-> act]
Done(st, act, n) == Result(Commit(st, act, n), act)
Beep(st, act) == Result(ClearPending(st), [act EXCEPT !.kind = "BEEP"])
Message(st, act) == Result(ClearPending(st), [act EXCEPT !.kind = "MESSAGE"])
Insert(st) == [st EXCEPT !.mode = "INSERT"]
Normal(st) == [st EXCEPT !.mode = "NORMAL"]
SetMark(st, cur) == [st EXCEPT !.mark = cur]

(* Esc records what the session typed: the text between where it began and  *)
(* the cursor, when that is all that changed.                               *)
RecordInsert(st, t, cur) ==
    LET typed == cur - st.origin
        whole == /\ typed >= 0 /\ Len(t) - st.len0 = typed
                 /\ typed <= InsertMax /\ st.stroke # <<>>
        closed == [st EXCEPT !.recording = FALSE, !.stroke = <<>>]
    IN  IF ~st.recording THEN st
        ELSE IF ~whole THEN [closed EXCEPT !.repeatKeys = <<>>, !.repeatSet = FALSE]
        ELSE [closed EXCEPT !.repeatInsert = Slice(t, st.origin, cur), !.repeatSet = TRUE,
                            !.repeatKeys = st.stroke, !.repeatCount = st.pendingCount]

InsertBegan(st, cur, len) ==
    [st EXCEPT !.origin = cur, !.len0 = len, !.recording = st.stroke # <<>>]

(* An operator over a motion, or the motion alone (a jump sets the mark). *)
OpAct(act, op, r, n) ==
    [ActAt(act, OpKind(op), r.start, r.end) EXCEPT
        !.linewise = r.linewise,
        !.count = CASE op = ">" -> 1 [] op = "<" -> -1 [] OTHER -> n]
OpMode(st) == IF st.op = "c" THEN Insert(st) ELSE st
Operate(st, act, t, cur, m, n, jump) ==
    IF st.op # ""
    THEN Done(OpMode(st), OpAct(act, st.op, OperatorRange(t, cur, st.op, m), n), n)
    ELSE Done(IF jump THEN SetMark(st, cur) ELSE st, ActAt(act, "MOVE", m.pos, m.pos), n)

-----------------------------------------------------------------------------
(* The second key of a two-key command. *)
ZKey(st, act, key) ==
    CASE key = "Z" -> Done(st, [act EXCEPT !.kind = "ACCEPT"], 0)
      [] key = "Q" -> Done(st, [act EXCEPT !.kind = "CANCEL"], 0)
      [] OTHER -> Beep(st, act)

(* r overwrites count characters of the line; with Return it splits it. *)
ReplaceKey(st, t, cur, key, act) ==
    LET n == Count(st)
        taken == TakeCount(st)
        to == [ActAt(act, "REPLACE_CHAR", cur, cur + n) EXCEPT
                  !.ch = IF key = "Enter" THEN NL ELSE key, !.count = n]
    IN  IF key \notin Chars \union {"Enter"} THEN Beep(st, act)
        ELSE IF cur + n > LineEnd(t, cur) THEN Beep(taken, act)
        ELSE Done(taken, to, n)

(* An object moves the selection in visual mode; a linewise one leaves an   *)
(* emptied line for c, and takes the break before it at the end for d.      *)
ObjectAct(s, t, act, r, n) ==
    LET full == r.linewise /\ r.end > r.start
        last == IF r.end > r.start THEN r.end - 1 ELSE r.start
        fit == CASE full /\ s.op = "c" -> [r EXCEPT !.end = LineEnd(t, r.end - 1)]
                 [] full /\ s.op = "d" /\ r.end >= Len(t) /\ r.start > 0 ->
                        [r EXCEPT !.start = @ - 1]
                 [] OTHER -> r
        sel == [s EXCEPT !.anchor = r.start,
                         !.mode = IF r.linewise THEN "VISUAL_LINE" ELSE @]
    IN  IF r = NoRange THEN Beep(s, act)
        ELSE IF Visual(s) THEN Done(sel, ActAt(act, "MOVE", last, last), n)
        ELSE Done(OpMode(s), OpAct(act, s.op, fit, n), n)
ObjectKey(st, t, cur, key, act, around) ==
    ObjectAct(TakeCount(st), t, act, TextObject(t, cur, key, around, Count(st)), Count(st))

ScrollKey(st, act, key) ==
    IF key \notin {"z", "t", "b"} THEN Beep(st, act)
    ELSE Done(st, [act EXCEPT !.kind = "SCROLL", !.ch = key], 0)

SectionKey(st, t, cur, key, act, prefix) ==
    LET n == Count(st)
        to == Iterate(LAMBDA p : IF prefix = "]" THEN DefFwd(t, p) ELSE DefBack(t, p), cur, n)
    IN  IF key # prefix THEN Beep(st, act)
        ELSE Operate(TakeCount(st), act, t, cur, Motion(to, FALSE, FALSE), n, TRUE)

GKey(st, t, cur, key, act) ==
    LET w == WordAt(t, cur)
        def == FindDefinition(t, Slice(t, w.start, w.end))
        top == FirstNonBlank(t, GotoLine(t, st.count))
    IN  CASE key = "d" ->
                IF w = NoRange THEN Beep(st, act)
                ELSE IF def < 0 THEN Beep(st, act)
                ELSE Done(TakeCount(SetMark(st, cur)), ActAt(act, "MOVE", def, def), Count(st))
          [] key = "g" -> Operate(TakeCount(st), act, t, cur, Motion(top, TRUE, FALSE),
                                  Count(st), TRUE)
          [] OTHER -> Beep(st, act)

FindTo(s, t, cur, act, m, n) ==
    IF m = NoMotion THEN Beep(s, act) ELSE Operate(s, act, t, cur, m, n, FALSE)
FindKey(st, t, cur, key, act, prefix) ==
    IF key \notin Chars \ {NL} THEN Beep(st, act)
    ELSE FindTo([TakeCount(st) EXCEPT !.lastFind = prefix, !.findChar = key], t, cur, act,
                ViMotion(t, cur, prefix, key, -1, Count(st)), Count(st))

PrefixedKey(st, t, cur, key, act) ==
    LET p == st.prefix
        s == [st EXCEPT !.prefix = ""]
    IN  CASE p = "Z" -> ZKey(s, act, key)
          [] p = "r" -> ReplaceKey(s, t, cur, key, act)
          [] p \in {"i", "a"} -> ObjectKey(s, t, cur, key, act, p = "a")
          [] p = "z" -> ScrollKey(s, act, key)
          [] p \in {"]", "["} -> SectionKey(s, t, cur, key, act, p)
          [] p = "g" -> GKey(s, t, cur, key, act)
          [] p \in Finders -> FindKey(s, t, cur, key, act, p)

-----------------------------------------------------------------------------
(* Visual mode: the selection is the anchor and the cursor. *)
VisualRange(st, t, cur) ==
    LET lo == Min({st.anchor, cur})
        hi == Max({st.anchor, cur})
    IN  IF st.mode = "VISUAL_LINE" THEN Range2(LineStart(t, lo), NextLine(t, hi), TRUE)
        ELSE Range2(lo, IF hi < Len(t) /\ At(t, hi) # NL THEN hi + 1 ELSE hi, FALSE)

VisualOperator(st, t, cur, op, act) ==
    LET n == Count(st)
        r == VisualRange(st, t, cur)
        fit == CASE op = "c" /\ r.linewise ->
                        [r EXCEPT !.end = LineEnd(t, IF r.end > r.start THEN r.end - 1
                                                     ELSE r.start)]
                 [] op = "d" /\ r.linewise /\ r.end >= Len(t) /\ r.start > 0 ->
                        [r EXCEPT !.start = @ - 1]
                 [] OTHER -> r
        a == [OpAct(act, op, fit, n) EXCEPT
                 !.count = CASE op = ">" -> n [] op = "<" -> -n [] OTHER -> n]
    IN  Done([TakeCount(st) EXCEPT !.mode = IF op = "c" THEN "INSERT" ELSE "NORMAL"], a, n)

VisualKeys == {"v", "V", "o", "~", "p", "P", "J"}
VisualKey(st, t, cur, key, act) ==
    LET n == Count(st)
        r == VisualRange(st, t, cur)
        over == [ActAt(act, IF key = "~" THEN "TOGGLE_CASE" ELSE "PASTE_OVER", r.start, r.end)
                    EXCEPT !.linewise = r.linewise, !.count = 1]
        lines == 1 + Cardinality({q \in r.start..(Min({r.end, Len(t)}) - 1) : At(t, q) = NL})
        ls == LineStart(t, r.start)
        join == [ActAt(act, "JOIN", ls, ls) EXCEPT !.linewise = r.linewise, !.count = lines]
        Toggle(m) == [st EXCEPT !.mode = IF @ = m THEN "NORMAL" ELSE m]
    IN  CASE key = "v" -> Done(Toggle("VISUAL"), [act EXCEPT !.kind = "REDRAW"], 0)
          [] key = "V" -> Done(Toggle("VISUAL_LINE"), [act EXCEPT !.kind = "REDRAW"], 0)
          [] key = "o" -> Done([st EXCEPT !.anchor = cur],
                               ActAt(act, "MOVE", st.anchor, st.anchor), 0)
          [] key \in {"~", "p", "P"} -> Done(Normal(TakeCount(st)), over, n)
          [] key = "J" -> Done(Normal(TakeCount(st)), join, lines)

-----------------------------------------------------------------------------
(* Normal mode. *)
Flip(f) == CASE f = "f" -> "F" [] f = "F" -> "f" [] f = "t" -> "T" [] f = "T" -> "t"
Jumps == {"G", "{", "}", "%", "goto", "gotoline"}

(* * and #: search for the whole word at the cursor, from its start. *)
SearchWord(st, t, cur, key, act) ==
    LET w == WordAt(t, cur)
        s == [SetMark(st, cur) EXCEPT
                 !.pattern = WholeWord(Slice(t, w.start, w.end)), !.forward = key = "*"]
        a == [ActAt(act, "SEARCH", w.start, w.start) EXCEPT
                 !.ch = IF key = "*" THEN "/" ELSE "?"]
    IN  IF w = NoRange THEN Beep(st, act) ELSE Done(s, a, 1)

EnterCmdline(st, key, act) ==
    Result([ClearPending(st) EXCEPT !.mode = "CMDLINE", !.cmdline = key],
           [act EXCEPT !.kind = "REDRAW"])

(* The commands of a single key, with the range each works over. *)
SingleKey(st0, t, cur, key, act) ==
    LET n == Count(st0)
        st == TakeCount(st0)
        ls == LineStart(t, cur)
        le == LineEnd(t, cur)
        eol == LineEnd(t, MoveLines(t, cur, n - 1))
        next == NextLine(t, MoveLines(t, cur, n - 1))
        right == Min({le, cur + n})
        Act(kind, s, e, lw) == [ActAt(act, kind, s, e) EXCEPT !.linewise = lw, !.count = n]
        Over(kind, s, e) == Done(st, Act(kind, s, e, FALSE), n)
        Change(s, e, lw) == Done(Insert(st), Act("CHANGE", s, e, lw), n)
        Enter(p) == Done(Insert(st), ActAt(act, "MOVE", p, p), n)
        Show(m) == Done([st EXCEPT !.mode = m, !.anchor = cur], [act EXCEPT !.kind = "REDRAW"], n)
        Search(f) == Done(SetMark(st, cur),
                          [act EXCEPT !.kind = "SEARCH", !.ch = IF f THEN "/" ELSE "?"], n)
        more == [Act("JOIN", cur, cur, FALSE) EXCEPT !.count = Max({2, n})]
        less == [Act("INCREMENT", cur, cur, FALSE) EXCEPT !.count = -n]
    IN  CASE key = "x" -> Over("DELETE", cur, right)
          [] key = "X" -> Over("DELETE", Max({ls, cur - n}), cur)
          [] key = "D" -> Over("DELETE", cur, eol)
          [] key = "C" -> Change(cur, eol, FALSE)
          [] key = "Y" -> Done(st, Act("YANK", ls, next, TRUE), n)
          [] key = "S" -> Change(FirstNonBlank(t, cur), eol, TRUE)
          [] key = "s" -> Change(cur, right, FALSE)
          [] key = "p" -> Over("PASTE_AFTER", cur, cur)
          [] key = "P" -> Over("PASTE_BEFORE", cur, cur)
          [] key = "J" -> Done(st, more, n)
          [] key = "~" -> Over("TOGGLE_CASE", cur, right)
          [] key = "i" -> Enter(cur)
          [] key = "I" -> Enter(FirstNonBlank(t, cur))
          [] key = "a" -> Enter(Min({cur + 1, le}))
          [] key = "A" -> Enter(le)
          [] key = "o" -> Done(Insert(st), Act("OPEN_BELOW", cur, cur, FALSE), n)
          [] key = "O" -> Done(Insert(st), Act("OPEN_ABOVE", cur, cur, FALSE), n)
          [] key = "v" -> Show("VISUAL")
          [] key = "V" -> Show("VISUAL_LINE")
          [] key \in {"n", "N"} -> IF st.pattern = <<>> THEN Beep(st, act)
                                   ELSE Search(st.forward = (key = "n"))
          [] key \in {"*", "#"} -> SearchWord(st, t, cur, key, act)
          [] key = "^A" -> Over("INCREMENT", cur, cur)
          [] key = "^X" -> Done(st, less, n)
          [] key = "^G" -> Message(st, act)
          [] key \in {":", "/", "?"} -> EnterCmdline(st, key, act)
          [] key = "u" -> Done(Normal(st), Act("UNDO", cur, cur, FALSE), n)
          [] key = "^R" -> Done(Normal(st), Act("REDO", cur, cur, FALSE), n)
          [] OTHER -> Beep(st, act)

(* A motion completes the pending operator, or moves; what is not one is a  *)
(* command of a single key.                                                 *)
Operated(taken, act, r, count, n) ==
    IF r = NoRange THEN Beep(taken, act)
    ELSE Done(OpMode(taken), OpAct(act, taken.op, r, count), n)
MovedTo(st, t, cur, key, act, m, mkey) ==
    LET taken == TakeCount(st)
        jumped == IF mkey \in Jumps THEN SetMark(taken, cur) ELSE taken
    IN  IF m # NoMotion THEN Done(jumped, ActAt(act, "MOVE", m.pos, m.pos), Count(st))
        ELSE IF key \in {";", ","} THEN Beep(st, act)
        ELSE SingleKey(st, t, cur, key, act)
MotionKey(st, t, cur, key, act) ==
    LET mkey == CASE key = ";" -> st.lastFind
                  [] key = "," /\ st.lastFind # "" -> Flip(st.lastFind)
                  [] OTHER -> key
        count == IF mkey = "G" /\ st.count = 0 /\ st.opCount = 0 THEN 0 ELSE Count(st)
        unset == \/ key \in {"goto", "gotoline"} /\ st.mark < 0
                 \/ key \in {";", ","} /\ st.lastFind = ""
    IN  IF unset THEN Beep(st, act)
        ELSE IF st.op # ""
        THEN Operated(TakeCount(st), act,
                      ApplyOperator(t, cur, st.op, mkey, st.findChar, st.mark, count),
                      count, Count(st))
        ELSE MovedTo(st, t, cur, key, act,
                   ViMotion(t, cur, mkey, st.findChar, st.mark, count), mkey)

PrefixKeys == {"Z", "r", "g", "z", "]", "["} \union Finders
Operators == {"d", "c", "y", "<", ">"}

NormalKey(st, t, cur, key, act) ==
    LET visual == Visual(st)
        digit == \/ key \in Digits \ {"0"}
                 \/ key = "0" /\ st.count > 0
        s == StrokePush(st, key)
        object == key \in {"i", "a"} /\ (st.op # "" \/ visual)
        op == CASE key = "x" -> "d" [] key = "s" -> "c" [] OTHER -> key
        none == [act EXCEPT !.kind = "NONE"]
        had == visual \/ st.count > 0 \/ st.op # "" \/ st.prefix # ""
    IN  IF key = "Esc"
        THEN Result(IF visual THEN Normal(ClearPending(st)) ELSE ClearPending(st),
                    [act EXCEPT !.kind = IF had THEN "REDRAW" ELSE "NONE"])
        ELSE IF st.prefix # "" THEN PrefixedKey(s, t, cur, key, act)
        ELSE IF digit
        THEN Result(MoreCount(st, DigitValue(key)), none)
        ELSE IF key \in PrefixKeys \/ object
        THEN IF key \in {"Z", "r"} /\ visual THEN Beep(s, act)
             ELSE Result([s EXCEPT !.prefix = key], none)
        ELSE IF visual /\ key \in Operators \union {"x", "s"}
        THEN VisualOperator(s, t, cur, op, act)
        ELSE IF key \in Operators /\ st.op = ""
        THEN Result([s EXCEPT !.op = key, !.opCount = st.count, !.count = 0], none)
        ELSE IF visual /\ key \in VisualKeys THEN VisualKey(s, t, cur, key, act)
        ELSE MotionKey(s, t, cur, key, act)

(* . feeds the recorded keys through again, and hands back the text that    *)
(* the session they opened typed.                                           *)
Replayed(r, st) ==
    LET typed == r.st.mode = "INSERT" /\ r.st.repeatSet
    IN  Result([r.st EXCEPT !.replaying = FALSE,
                            !.mode = IF @ = "INSERT" THEN "NORMAL" ELSE @],
               [r.act EXCEPT !.inserts = typed,
                             !.insert = IF typed THEN st.repeatInsert ELSE <<>>])
NormalKeys(r, t, cur, keys) ==
    IF keys = <<>> THEN r
    ELSE NormalKeys(NormalKey(r.st, t, cur, keys[1], r.act), t, cur, Tail(keys))
\* Mutant: the count the command had is forgotten.
ReplayUncounted(st) == [ClearPending(st) EXCEPT !.replaying = TRUE, !.count = st.count]
ReplayStart(st) ==
    [ClearPending(st) EXCEPT !.replaying = TRUE,
                             !.count = IF st.count > 0 THEN st.count ELSE st.repeatCount]

-----------------------------------------------------------------------------
(* The ex command line.  An address is a base and an offset; a line of the  *)
(* command is [range, cmd, pat, rep, flag, dest, sub]; % is 1,$ .           *)
BadAddress == -1000
Address(st, t, cur, a) ==
    LET Of(p) == LineNumber(t, Min({p, Len(t)}))
    IN  CASE a.base = "n" -> a.off
          [] a.base = "." -> LineNumber(t, cur) + a.off
          [] a.base = "$" -> LineCount(t) + a.off
          [] a.base \in {"<", ">"} ->
                IF ~st.visSet THEN BadAddress
                ELSE Of(IF a.base = "<" THEN st.visStart ELSE st.visEnd) + a.off
          [] OTHER -> BadAddress

Clamp(x, lo, hi) == IF x < lo THEN lo ELSE IF x > hi THEN hi ELSE x

(* s/pat/rep/flags fills the pattern, unless a :g lends its own; an empty   *)
(* pattern is the last one.                                                 *)
SubstituteOk(st, line) ==
    /\ IF line.pat = <<>> THEN st.pattern # <<>> ELSE Valid(line.pat)
    /\ line.flag # "bad"
ParseSubstitute(st, line, nested) ==
    IF IF line.pat = <<>> THEN st.pattern = <<>> ELSE ~Valid(line.pat) THEN st
    ELSE [st EXCEPT !.pattern = IF nested \/ line.pat = <<>> THEN @ ELSE line.pat,
                    !.replacement = line.rep, !.subGlobal = line.flag = "g"]

ExGlobal(st, t, line, act, s, e) ==
    LET found == IF line.pat = <<>> THEN st ELSE [st EXCEPT !.pattern = line.pat]
        sub == ParseSubstitute(found, line.sub, TRUE)
        a == [ActAt(act, "GLOBAL", s, e) EXCEPT
                 !.linewise = TRUE, !.invert = line.cmd = "v", !.ch = line.sub.cmd,
                 !.pat = CASE line.sub.cmd = "d" -> <<>>
                           [] line.sub.pat = <<>> -> found.pattern
                           [] OTHER -> line.sub.pat]
    IN  IF line.pat = <<>> /\ st.pattern = <<>> THEN Beep(st, act)
        ELSE IF line.pat # <<>> /\ ~Valid(line.pat) THEN Beep(st, act)
        ELSE IF line.sub.cmd = "d" THEN Result(found, a)
        ELSE IF line.sub.cmd # "s" THEN Beep(found, act)
        ELSE IF ~SubstituteOk(found, line.sub) THEN Beep(sub, act)
        ELSE Result(sub, a)

ExMove(st, t, cur, line, act, s, e) ==
    LET d == Address(st, t, cur, line.dest)
        n == Clamp(d, 0, LineCount(t))
        dest == IF n = 0 THEN 0 ELSE NextLine(t, GotoLine(t, n))
    IN  IF d = BadAddress \/ e <= s THEN Beep(st, act)
        ELSE IF line.cmd = "m" /\ s <= dest /\ dest <= e THEN Beep(st, act)
        ELSE Result(st, [ActAt(act, "MOVE_LINES", s, e) EXCEPT !.ch = line.cmd, !.dest = dest])

RunEx(st0, t, cur, line, act) ==
    LET st == Normal(st0)
        last == LineCount(t)
        given == line.range # <<>>
        A(i) == Address(st, t, cur, line.range[i])
        bad == \E i \in DOMAIN line.range : A(i) = BadAddress
        lo == IF given THEN Clamp(A(1), 1, last) ELSE 1
        hi == IF given THEN Clamp(A(Len(line.range)), 1, last) ELSE 1
        to == FirstNonBlank(t, GotoLine(t, hi))
        s == IF given THEN GotoLine(t, lo) ELSE LineStart(t, cur)
        e == NextLine(t, IF given THEN GotoLine(t, hi) ELSE cur)
        sub == ParseSubstitute(st, line, FALSE)
    IN  IF line.cmd = "" /\ ~given THEN Result(st, [act EXCEPT !.kind = "REDRAW"])
        ELSE IF bad THEN Beep(st, act)
        ELSE IF lo > hi THEN Beep(st, act)
        ELSE CASE line.cmd = "" -> Result(SetMark(st, cur), ActAt(act, "MOVE", to, to))
               [] line.cmd = "=" -> Message(st, act)
               [] line.cmd = "s" -> IF SubstituteOk(st, line)
                                    THEN Result(sub, ActAt(act, "SUBSTITUTE", s, e))
                                    ELSE Beep(sub, act)
               [] line.cmd \in {"g", "v"} ->
                    ExGlobal(st, t, line, act, IF given THEN s ELSE 0, IF given THEN e ELSE Len(t))
               [] line.cmd \in {"m", "t"} -> ExMove(st, t, cur, line, act, s, e)
               [] line.cmd = "w" /\ ~given -> Result(st, [act EXCEPT !.kind = "WRITE"])
               [] line.cmd = "x" /\ ~given -> Result(st, [act EXCEPT !.kind = "ACCEPT"])
               [] line.cmd = "q!" /\ ~given -> Result(st, [act EXCEPT !.kind = "CANCEL"])
               [] line.cmd = "q" /\ ~given ->
                    IF st.modified THEN Beep(st, act)
                    ELSE Result(st, [act EXCEPT !.kind = "CANCEL"])
               [] OTHER -> Beep(st, act)

(* Return on a line of / or ?: a pattern typed, or the last one again. *)
RunSearch(st0, cur, pat, act) ==
    LET st == [Normal(st0) EXCEPT !.forward = st0.cmdline = "/"]
        s == IF pat = <<>> THEN st ELSE [st EXCEPT !.pattern = pat]
    IN  IF pat # <<>> /\ ~Valid(pat) THEN Beep(st, act)
        ELSE IF s.pattern = <<>> THEN Beep(s, act)
        ELSE Result(SetMark(s, cur),
                    [act EXCEPT !.kind = "SEARCH", !.ch = IF s.forward THEN "/" ELSE "?"])

CmdlineKey(st, t, cur, line, act) ==
    CASE line.cmd = "Esc" -> Result([Normal(st) EXCEPT !.cmdline = ""],
                                    [act EXCEPT !.kind = "REDRAW"])
      [] line.cmd # "Esc" /\ st.cmdline = ":" -> RunEx(st, t, cur, line, act)
      [] OTHER -> RunSearch(st, cur, line.pat, act)

-----------------------------------------------------------------------------
(* A key in normal, visual or insert mode, and a line in command mode. *)
Arrive(st0, t, cur) ==
    LET st == [st0 EXCEPT !.anchor = Min({@, Len(t)}), !.fromVisual = Visual(st0)]
    IN  IF ~Visual(st) THEN st
        ELSE [st EXCEPT !.visSet = TRUE, !.visStart = Min({st.anchor, cur}),
                        !.visEnd = Max({st.anchor, cur})]

Closed(st, t, cur, back, act) ==
    Result(RecordInsert(Normal(st), t, cur), ActAt(act, "MOVE", back, back))
(* A key; . is the keys it stands for, one after the other at one place.   *)
KeyIn(st, t, cur, key, act) ==
    LET dot == key = "." /\ st.op = "" /\ st.prefix = "" /\ st.mode = "NORMAL"
        AfterKeys(r) == IF dot THEN Replayed(r, st) ELSE r
    IN  CASE st.mode = "INSERT" -> Closed(st, t, cur, Max({LineStart(t, cur), cur - 1}), act)
          [] dot /\ st.repeatKeys = <<>> -> Beep(st, act)
          [] OTHER -> AfterKeys(NormalKeys(Result(IF dot THEN ReplayStart(st) ELSE st, act), t, cur,
                                           IF dot THEN st.repeatKeys ELSE <<key>>))
ViKey(st, t, cur, key) == KeyIn(Arrive(st, t, cur), t, cur, key, Idle(cur))

ViLine(st, t, cur, line) == CmdlineKey(Arrive(st, t, cur), t, cur, line, Idle(cur))
=============================================================================
