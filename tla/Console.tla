-------------------------------- MODULE Console --------------------------------
(***************************************************************************)
(* The text console: what a Logo program writes, the modes it chooses, the *)
(* prompt of core/repl.c and the line read at it, on the text screen of    *)
(* picocalc/screen.c.  A program is a sequence of calls: primitives write  *)
(* and flush, a prompt reads a line key by key, readchar reads one key.    *)
(* `entered' remembers the lines that ENTER ended, but for blank ones.     *)
(***************************************************************************)
EXTENDS LineInput

CONSTANTS Programs, Glyphs

\* What a program may call.  At a prompt at most so many of the keys are struck.
Keys == Glyphs \cup EditKeys \cup DOMAIN ModeKeys

Commands ==
       [op : {"print"}, text : Seq(Glyphs \cup {"newline", "backspace"})]
  \cup [op : {"cleartext"}]
  \cup [op : {"setcursor"}, column : Columns, row : Rows]
  \cup [op : {"screen"}, mode : {"TXT", "SPLIT", "GFX"}]
  \cup [op : {"readchar"}, keys : SUBSET Keys]
  \cup [op : {"line"}, keys : SUBSET Keys, most : Nat]

ASSUME ConsoleAssumption ==
  /\ Blank \in Glyphs
  /\ Glyphs \cap (EditKeys \cup DOMAIN ModeKeys \cup {"newline", "backspace", "picture"}) = {}
  /\ Programs \subseteq Seq(Commands)

VARIABLES
  s,          \* the session: screen, line and history
  calls,      \* what is left of the program
  waiting,    \* a line is being read
  typed,      \* how many keys the reader has taken
  entered     \* the lines ended by ENTER that were not blank

vars == <<s, calls, waiting, typed, entered>>

-----------------------------------------------------------------------------

Next1 == Head(calls)
Calling(op) == calls # <<>> /\ ~waiting /\ Next1.op = op
Done == calls' = Tail(calls) /\ UNCHANGED <<waiting, typed, entered>>
OnScreen(t) == s' = [s EXCEPT !.t = t]

\* print, type and show write and then flush.
output_write == Calling("print") /\ OnScreen(screen_txt_update(screen_txt_puts(s.t, Next1.text))) /\ Done

prim_cleartext == Calling("cleartext") /\ OnScreen(screen_txt_clear(s.t)) /\ Done

prim_setcursor ==
  Calling("setcursor") /\ OnScreen(screen_txt_set_cursor(s.t, Next1.column, Next1.row)) /\ Done

\* textscreen, splitscreen and fullscreen.
prim_screen == Calling("screen") /\ OnScreen(screen_set_mode(s.t, Next1.mode)) /\ Done

\* The mode keys act; any other key is the answer.
input_read_char ==
  /\ Calling("readchar")
  /\ \E key \in Next1.keys :
       IF key \in DOMAIN ModeKeys
       THEN /\ OnScreen(screen_handle_mode_key(s.t, key))
            /\ calls' = [calls EXCEPT ![1].keys = @ \ {key}]
            /\ UNCHANGED <<waiting, typed, entered>>
       ELSE Done /\ UNCHANGED s

\* The prompt is written and flushed, and the reader begins.
Prompt ==
  /\ Calling("line")
  /\ s' = BeginLine(screen_txt_update(screen_txt_puts(s.t, <<"?">>)), s.h)
  /\ waiting' = TRUE /\ typed' = 0
  /\ UNCHANGED <<calls, entered>>

Press ==
  /\ waiting /\ typed < Next1.most
  /\ \E key \in Next1.keys : s' = Read(s, key)
  /\ typed' = typed + 1
  /\ UNCHANGED <<calls, waiting, entered>>

LineEnds ==
  /\ calls' = Tail(calls) /\ waiting' = FALSE /\ typed' = 0

picocalc_read_line ==
  /\ waiting
  /\ s' = Enter(s)
  /\ entered' = IF is_blank(s.l.buf) THEN entered ELSE Append(entered, s.l.buf)
  /\ LineEnds

\* Brk at the prompt: the REPL says so and prompts again.
BreakLine ==
  /\ waiting
  /\ s' = [Break(s) EXCEPT !.t = screen_txt_puts(@, <<"!", "newline">>)]
  /\ LineEnds /\ UNCHANGED entered

Rest == calls = <<>> /\ UNCHANGED vars

Init ==
  /\ calls \in Programs
  /\ s = [BeginLine(BootScreen, EmptyHistory) EXCEPT !.t = BootScreen]
  /\ waiting = FALSE /\ typed = 0 /\ entered = <<>>

Next == \/ output_write \/ prim_cleartext \/ prim_setcursor \/ prim_screen
        \/ input_read_char \/ Prompt \/ Press \/ picocalc_read_line \/ BreakLine
        \/ Rest

Spec == Init /\ [][Next]_vars

-----------------------------------------------------------------------------
(* Properties.                                                             *)

Cells == Glyphs \cup {"?", "!"}

TypeOK ==
  /\ \A r \in Rows : \A c \in Columns : s.t.buf[r][c] \in Cells
  /\ s.t.row \in Rows /\ s.t.column \in Columns /\ s.t.text_row \in Rows
  /\ s.t.dirty \subseteq Rows
  /\ s.t.offset \in 0 .. FRAME_ROWS - s.t.top - 1
  /\ Len(s.l.buf) < LINE_SIZE /\ s.l.index \in 0 .. Len(s.l.buf)
  /\ s.h.head \in Slots /\ s.h.tail \in Slots

\* The LCD never shows a character that is not in the text buffer at the place
\* it stands for: not after the hardware has scrolled all around its memory,
\* not after the split screen's window has moved, not after a change of mode.
\* A row that the window has just reached may still be blank where the buffer has
\* text, and is then dirty.  The split screen shows the picture above its text, and
\* full-screen graphics no text at all.  (Until the next mode change the split
\* screen is lost once its window has moved back up, and text that scrolls before
\* the first change of mode is shown by a controller that scrolls another area:
\* see the README.)
TextTrue ==
  /\ TypeOK
  /\ ShowsAsMapped(s.t) => \A row \in Rows : Displayed(s.t, row) /\ ~s.t.stray =>
       LET line == Shown(s.t, LineOf(s.t, row)) IN
       \A c \in Columns :
         \/ line[c] = s.t.buf[row][c]
         \/ line[c] = Blank /\ s.t.mode = "SPLIT" /\ row \in s.t.dirty
  /\ ShowsAsMapped(s.t) => \A y \in Rows :
       CASE s.t.mode = "GFX" -> Shown(s.t, y) \in {Picture, BlankRow}
         [] s.t.mode = "SPLIT" -> (Shown(s.t, y) = Picture) = (y < SCREEN_SPLIT_TXT_ROW)
         [] OTHER -> Shown(s.t, y) # Picture

CellAt(cell) == s.t.buf[cell[2]][cell[1]]
CursorAt == <<s.t.column, s.t.row>>

\* The line being typed stands in the text buffer from where it started, what it
\* has lost is blank, the cursor is at the character the next key acts on, and
\* it is underlined there and nowhere else on the display: whatever was inserted,
\* erased or recalled, wrapped or scrolled.  (END goes to where the last redraw
\* ended, blanks included; and a split screen whose window is not at the bottom of
\* the buffer loses the line, as the display may before the first change of mode:
\* see the README.)
LineShown ==
  waiting /\ ~s.l.slid /\ ~s.t.stray =>
    /\ \A i \in 1 .. Len(s.l.buf) : CellAt(calc_cursor_pos(s.l, i - 1)) = s.l.buf[i]
    /\ \A i \in Len(s.l.buf) + 1 .. s.l.reach : CellAt(calc_cursor_pos(s.l, i - 1)) = Blank
    /\ s.l.ended \/ CursorAt = calc_cursor_pos(s.l, s.l.index)
    /\ ShowsAsMapped(s.t) =>
       LET seen == {u \in s.t.under :
                      \E y \in Rows : lcd_scroll_map_row(s.t, y) = u[1]} IN
       IF s.t.on /\ Displayed(s.t, s.t.row)
       THEN seen = {<<lcd_scroll_map_row(s.t, LineOf(s.t, s.t.row)), s.t.column>>}
       ELSE seen = {}

\* The last lines of a sequence, oldest first.
Latest(lines, n) ==
  SubSeq(lines, IF Len(lines) > n THEN Len(lines) - n + 1 ELSE 1, Len(lines))

Kept(h) == [i \in 1 .. Ahead(h.tail, h.head) |-> h.buffer[(h.tail + i - 1) % HISTORY_SIZE]]

\* The history is the latest lines that were not blank, cut to a slot, and a search
\* through it shows only those lines that begin with what was typed, or that again.
HistoryKept ==
  /\ LET lines == Latest(entered, HISTORY_SIZE - 1) IN
     Kept(s.h) = [i \in 1 .. Len(lines) |-> Copied(lines[i], HISTORY_LINE_LENGTH)]
  /\ waiting /\ s.l.in_history_search =>
       /\ IsPrefix(s.l.search_prefix, s.l.buf)
       /\ s.l.history_index # s.h.head =>
            /\ Ahead(s.h.tail, s.l.history_index) < Ahead(s.h.tail, s.h.head)
            /\ s.l.buf = Copied(s.h.buffer[s.l.history_index], LINE_SIZE - 1)

=============================================================================
