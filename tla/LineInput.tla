------------------------------- MODULE LineInput -------------------------------
(***************************************************************************)
(* The line typed at a prompt, picocalc/input.c, and the ring of lines it  *)
(* recalls, picocalc/history.c.  A key handler maps a session              *)
(*                                                                         *)
(*   t   the text screen, a record of TextScreen                           *)
(*   l   the locals of picocalc_read_line: buf, index, start_col,          *)
(*       start_row, end_col, end_row, history_index, search_prefix,        *)
(*       in_history_search                                                 *)
(*   h   history_buffer, history_head and history_tail                     *)
(*                                                                         *)
(* to a session.  The line also remembers, for the properties only, how    *)
(* long it has been (reach), whether a redraw was told of a scroll when    *)
(* only the split screen's window had moved (slid), and whether END placed *)
(* the cursor (ended).                                                     *)
(***************************************************************************)
EXTENDS TextScreen

CONSTANTS
  HISTORY_SIZE,           \* slots of the ring: one is always free
  HISTORY_LINE_LENGTH,    \* bytes of a slot, with the one that ends the line
  LINE_SIZE               \* bytes of the reader's buffer

ASSUME LineInputAssumption ==
  /\ HISTORY_SIZE \in Nat \ {0, 1}
  /\ HISTORY_LINE_LENGTH \in Nat \ {0, 1}
  /\ LINE_SIZE \in Nat /\ LINE_SIZE > HISTORY_LINE_LENGTH

\* strncpy into n bytes, the last of which ends the text.
Copied(text, n) == SubSeq(text, 1, IF Len(text) < n THEN Len(text) ELSE n - 1)

-----------------------------------------------------------------------------
(* The history.                                                            *)

Slots == 0 .. HISTORY_SIZE - 1
NextSlot(i) == (i + 1) % HISTORY_SIZE
PrevSlot(i) == (i + HISTORY_SIZE - 1) % HISTORY_SIZE

EmptyHistory == [buffer |-> [i \in Slots |-> <<>>], head |-> 0, tail |-> 0]

is_blank(text) == \A i \in DOMAIN text : text[i] = Blank

\* Mutant: the oldest line is not given up when the ring is full
HistoryAddOver(h, text) ==
  IF is_blank(text) THEN h
  ELSE [h EXCEPT !.buffer[h.head] = Copied(text, HISTORY_LINE_LENGTH),
                 !.head = NextSlot(h.head)]

history_add(h, text) ==
  IF is_blank(text) THEN h
  ELSE LET head == NextSlot(h.head) IN
       [buffer |-> [h.buffer EXCEPT ![h.head] = Copied(text, HISTORY_LINE_LENGTH)],
        head |-> head,
        tail |-> IF head = h.tail THEN NextSlot(h.tail) ELSE h.tail]

history_get(h, size, index) == Copied(h.buffer[index], size)
history_is_empty(h) == h.head = h.tail
history_is_end_index(h, index) == index = h.head
history_prev_index(h, index) == IF index # h.tail THEN PrevSlot(index) ELSE index
history_next_index(h, index) == IF index # h.head THEN NextSlot(index) ELSE index

Matches(h, index, prefix) == IsPrefix(prefix, h.buffer[index])

\* How many lines lie between two slots, going forwards.
Ahead(from, to) == (to + HISTORY_SIZE - from) % HISTORY_SIZE
Back(index, n) == (index + HISTORY_SIZE - n) % HISTORY_SIZE
Least(S) == CHOOSE n \in S : \A k \in S : n <= k

\* Mutant: the search goes past the oldest line
PrevMatchingAround(h, index, prefix) ==
  LET found == {n \in 1 .. HISTORY_SIZE - 1 : Matches(h, Back(index, n), prefix)} IN
  IF prefix = <<>> THEN PrevSlot(index)
  ELSE IF found = {} THEN index ELSE Back(index, Least(found))

history_prev_matching(h, index, prefix) ==
  LET found == {n \in 1 .. Ahead(h.tail, index) : Matches(h, Back(index, n), prefix)} IN
  IF prefix = <<>> THEN history_prev_index(h, index)
  ELSE IF found = {} THEN index ELSE Back(index, Least(found))

\* Going forwards the search ends at the line being typed.
history_next_matching(h, index, prefix) ==
  LET left == Ahead(index, h.head)
      found == {n \in 1 .. left :
                  n = left \/ Matches(h, (index + n) % HISTORY_SIZE, prefix)} IN
  IF prefix = <<>> THEN history_next_index(h, index)
  ELSE IF found = {} THEN index ELSE (index + Least(found)) % HISTORY_SIZE

-----------------------------------------------------------------------------
(* The line on the screen.                                                 *)

\* Mutant: the column the line starts at is left out
CursorPosFromEdge(l, index) ==
  <<index % SCREEN_COLUMNS, l.start_row + (index \div SCREEN_COLUMNS)>>

\* The cell of the index-th character: column and row.
calc_cursor_pos(l, index) ==
  <<(l.start_col + index) % SCREEN_COLUMNS,
    l.start_row + ((l.start_col + index) \div SCREEN_COLUMNS)>>

SetCursor(t, cell) == screen_txt_set_cursor(t, cell[1], cell[2])

\* Mutant: a scroll does not move where the line starts
TookUpFixed(p, t) == [p EXCEPT !.t = t, !.slid = @ \/ t.slid]

\* The line starts a row higher when a character of it made the screen scroll.
TookUp(p, t) ==
  [p EXCEPT !.t = t,
            !.start_row = IF t.scrolled /\ @ > 0 THEN @ - 1 ELSE @,
            !.slid = @ \/ t.slid]

PutTyped(p, c) == TookUp(p, screen_txt_putc(p.t, c))

\* The characters on the screen, and the row that the line then starts on.
Written(s, text) ==
  FoldLeft(PutTyped,
           [t |-> screen_txt_set_cursor(s.t, s.l.start_col, s.l.start_row),
            start_row |-> s.l.start_row, slid |-> s.l.slid],
           text)

\* Mutant: what the line has lost stays on the screen
NoBlanks(s, previous_length) == <<>>

\* Blanks over what the line has lost.
Blanks(s, previous_length) ==
  [i \in 1 .. (IF previous_length > Len(s.l.buf)
               THEN previous_length - Len(s.l.buf) ELSE 0) |-> Blank]

DrawnLine(l, p) ==
  [l EXCEPT !.start_row = p.start_row, !.slid = p.slid,
            !.end_col = p.t.column, !.end_row = p.t.row,
            !.reach = IF @ < Len(l.buf) THEN Len(l.buf) ELSE @,
            !.ended = FALSE]

Drawn(s, p) ==
  [s EXCEPT !.l = DrawnLine(s.l, p),
            !.t = SetCursor(p.t, calc_cursor_pos(DrawnLine(s.l, p), s.l.index))]

redraw_input_line(s, previous_length) ==
  Drawn(s, Written(s, s.l.buf \o Blanks(s, previous_length)))

\* A line with other text, the cursor at index, drawn again.
Relined(s, text, index) ==
  redraw_input_line([s EXCEPT !.l.buf = text, !.l.index = index], Len(s.l.buf))

-----------------------------------------------------------------------------
(* The keys.                                                               *)

\* Editing ends a search through the history.
Edited(s, text, index) ==
  Relined([s EXCEPT !.l.in_history_search = FALSE, !.l.history_index = s.h.head],
          text, index)

\* Moving within the line.
GoTo(s, index) ==
  [s EXCEPT !.l.index = index, !.l.ended = FALSE,
            !.t = SetCursor(@, calc_cursor_pos(s.l, index))]

KeyHome(s) ==
  IF s.l.index = 0 THEN s
  ELSE [s EXCEPT !.l.index = 0, !.l.ended = FALSE,
                 !.t = screen_txt_set_cursor(@, s.l.start_col, s.l.start_row)]

KeyEnd(s) ==
  IF s.l.index = Len(s.l.buf) THEN s
  ELSE [s EXCEPT !.l.index = Len(s.l.buf), !.l.ended = TRUE,
                 !.t = screen_txt_set_cursor(@, s.l.end_col, s.l.end_row)]

\* A search looks for what the line held when it began.  strncmp is given the
\* length before the cut, and stops at the end of a line cut to the same length.
Searching(s) ==
  IF s.l.in_history_search THEN s
  ELSE [s EXCEPT !.l.search_prefix = Copied(s.l.buf, HISTORY_LINE_LENGTH),
                 !.l.in_history_search = TRUE]

\* Another line of the history takes the place of the one shown.
Recalled(s, index, text) ==
  Relined([s EXCEPT !.l.history_index = index], text, Len(text))

Found(s, index) ==
  IF index = s.l.history_index THEN s
  ELSE Recalled(s, index, history_get(s.h, LINE_SIZE - 1, index))

Older(s) == Found(s, history_prev_matching(s.h, s.l.history_index, s.l.search_prefix))
KeyUp(s) == IF history_is_empty(s.h) THEN s ELSE Older(Searching(s))

\* Past the newest line is what was typed again, and the search is over.
Returned(s, index) ==
  IF history_is_end_index(s.h, index)
  THEN Recalled([s EXCEPT !.l.in_history_search = FALSE], index, s.l.search_prefix)
  ELSE Recalled(s, index, history_get(s.h, LINE_SIZE - 1, index))

Newer(s) == Returned(s, history_next_matching(s.h, s.l.history_index, s.l.search_prefix))
KeyDown(s) ==
  IF history_is_empty(s.h) \/ history_is_end_index(s.h, s.l.history_index) THEN s
  ELSE Newer(Searching(s))

Without(text, i) == SubSeq(text, 1, i - 1) \o SubSeq(text, i + 1, Len(text))
With(text, i, c) == SubSeq(text, 1, i) \o <<c>> \o SubSeq(text, i + 1, Len(text))

Typed(s, c) ==
  IF Len(s.l.buf) < LINE_SIZE - 1
  THEN Edited(s, With(s.l.buf, s.l.index, c), s.l.index + 1) ELSE s

\* The keys that edit the line.  ENTER and BREAK end it, and are steps of their own.
EditKeys == {"BACKSPACE", "DEL", "ESC", "HOME", "END", "UP", "DOWN", "LEFT", "RIGHT"}

Key(s, key) ==
  CASE key = "BACKSPACE" -> IF s.l.index > 0
                            THEN Edited(s, Without(s.l.buf, s.l.index), s.l.index - 1) ELSE s
    [] key = "DEL" -> IF s.l.index < Len(s.l.buf)
                      THEN Edited(s, Without(s.l.buf, s.l.index + 1), s.l.index) ELSE s
    [] key = "ESC" -> IF s.l.index > 0 THEN Edited(s, <<>>, 0) ELSE s
    [] key = "HOME" -> KeyHome(s)
    [] key = "END" -> KeyEnd(s)
    [] key = "UP" -> KeyUp(s)
    [] key = "DOWN" -> KeyDown(s)
    [] key = "LEFT" -> IF s.l.index > 0 THEN GoTo(s, s.l.index - 1) ELSE s
    [] key = "RIGHT" -> IF s.l.index < Len(s.l.buf) THEN GoTo(s, s.l.index + 1) ELSE s
    [] key \in DOMAIN ModeKeys -> [s EXCEPT !.t = screen_handle_mode_key(@, key)]
    [] OTHER -> Typed(s, key)

\* getchar returns between drawing the cursor and erasing it.
Erased(s) == [s EXCEPT !.t = screen_txt_erase_cursor(@)]
Waiting(s) == [s EXCEPT !.t = screen_txt_draw_cursor(@)]
Read(s, key) == Waiting(Key(Erased(s), key))

\* The reader begins where the prompt has left the cursor.
BeginLine(t, h) ==
  LET on == screen_txt_enable_cursor(t, TRUE) IN
  [t |-> screen_txt_draw_cursor(on),
   l |-> [buf |-> <<>>, index |-> 0, start_col |-> t.column, start_row |-> t.row,
          end_col |-> t.column, end_row |-> t.row, history_index |-> h.head,
          search_prefix |-> <<>>, in_history_search |-> FALSE,
          reach |-> 0, slid |-> FALSE, ended |-> FALSE],
   h |-> h]

\* ENTER: below the end of the line, which goes into the history.
Enter(s) ==
  [s EXCEPT !.t = screen_txt_putc(
                    screen_txt_set_cursor(
                      screen_txt_enable_cursor(screen_txt_erase_cursor(@), FALSE),
                      s.l.end_col, s.l.end_row), "newline"),
            !.h = history_add(@, s.l.buf)]

\* BREAK: nothing is kept of the line.
Break(s) == [s EXCEPT !.t = screen_txt_enable_cursor(screen_txt_erase_cursor(@), FALSE)]

=============================================================================
