------------------------------ MODULE TextScreen ------------------------------
(***************************************************************************)
(* The text screen of picocalc/screen.c over the LCD of picocalc/lcd.c.    *)
(* The text buffer is written once and the LCD follows by writing single   *)
(* cells, by scrolling its memory in hardware, and by redrawing the rows   *)
(* marked dirty.  Every operator maps a record to a record:                *)
(*                                                                         *)
(*   buf, column, row   txt_buffer, cursor_column, cursor_row              *)
(*   text_row           the last row written to: it places the window that *)
(*                      the split screen shows                             *)
(*   dirty, mode        txt_dirty_rows, screen_mode                        *)
(*   lcd, under         the LCD's memory by lines of text, and the cells   *)
(*                      that carry the cursor's underline                  *)
(*   top, offset        lcd_scroll_top, lcd_y_offset, in lines             *)
(*   area               how many lines the controller was last told to     *)
(*                      scroll                                             *)
(*   at, on             the LCD's own cursor and cursor_enabled            *)
(*   scrolled, slid     what the last screen_txt_putc answered, and whether*)
(*                      it answered so though only the window moved        *)
(*   stray              the window has moved back over rows that the LCD   *)
(*                      does not show, for the properties only             *)
(*                                                                         *)
(* A cell is a character: its colours are left out.                        *)
(***************************************************************************)
EXTENDS Integers, SequencesExt

CONSTANTS
  SCREEN_COLUMNS, SCREEN_ROWS,
  SCREEN_SPLIT_TXT_ROWS,          \* rows of text under the picture when split
  FRAME_ROWS                      \* lines of the LCD's memory, shown or not

ASSUME TextScreenAssumption ==
  /\ {SCREEN_COLUMNS, SCREEN_ROWS, SCREEN_SPLIT_TXT_ROWS, FRAME_ROWS}
       \subseteq Nat \ {0}
  /\ SCREEN_SPLIT_TXT_ROWS < SCREEN_ROWS
  /\ SCREEN_ROWS < FRAME_ROWS

MAX_COLUMN == SCREEN_COLUMNS - 1
Columns == 0 .. MAX_COLUMN
Rows == 0 .. SCREEN_ROWS - 1
SCREEN_SPLIT_TXT_ROW == SCREEN_ROWS - SCREEN_SPLIT_TXT_ROWS

Blank == " "
BlankRow == [c \in Columns |-> Blank]
\* What a line of the LCD holds while the picture covers it.
Picture == [c \in Columns |-> "picture"]

-----------------------------------------------------------------------------
(* The LCD.                                                                *)

\* Mutant: the memory is taken to be as high as the display
MapRowShown(t, y) ==
  IF y < t.top THEN y
  ELSE t.top + ((y - t.top + t.offset) % (SCREEN_ROWS - t.top))

\* Where a displayed line lies in the LCD's memory.
lcd_scroll_map_row(t, y) ==
  IF y < t.top THEN y
  ELSE t.top + ((y - t.top + t.offset) % (FRAME_ROWS - t.top))

Shown(t, y) == t.lcd[lcd_scroll_map_row(t, y)]

\* lcd_blit writes the displayed lines ys, and what was underlined there goes.
LcdLines(t, ys, line(_)) ==
  LET at == [y \in ys |-> lcd_scroll_map_row(t, y)] IN
  [t EXCEPT !.lcd = [m \in DOMAIN @ |->
                       IF \E y \in ys : at[y] = m
                       THEN line(CHOOSE y \in ys : at[y] = m) ELSE @[m]],
            !.under = {u \in @ : \A y \in ys : at[y] # u[1]}]

lcd_putc_attr(t, column, y, c) ==
  LET m == lcd_scroll_map_row(t, y) IN
  [t EXCEPT !.lcd[m][column] = c, !.under = @ \ {<<m, column>>}]

\* Mutant: the memory is taken to start over on its own
DefineScrollingKept(t, top) == [t EXCEPT !.top = top, !.area = FRAME_ROWS - top]

lcd_define_scrolling(t, top) ==
  [t EXCEPT !.top = top, !.offset = 0, !.area = FRAME_ROWS - top]

\* Whether the controller shows the memory where lcd_scroll_map_row takes it to:
\* it does when nothing has scrolled, or when it scrolls the area lcd.c counts in.
ShowsAsMapped(t) == t.offset = 0 \/ t.area = FRAME_ROWS - t.top

lcd_scroll_up(t) ==
  LET up == [t EXCEPT !.offset = (@ + 1) % (FRAME_ROWS - t.top)] IN
  LcdLines(up, {SCREEN_ROWS - 1}, LAMBDA y : BlankRow)

lcd_scroll_clear(t) ==
  LET reset == [t EXCEPT !.offset = 0] IN
  LcdLines(reset, t.top .. FRAME_ROWS - 1, LAMBDA y : BlankRow)

lcd_clear_screen(t) ==
  LET reset == [t EXCEPT !.offset = 0] IN
  LcdLines(reset, 0 .. FRAME_ROWS - 1, LAMBDA y : BlankRow)

lcd_move_cursor(t, column, y) ==
  LET within(i, n) == IF i < n THEN i ELSE n - 1 IN
  [t EXCEPT !.at = <<within(y, SCREEN_ROWS), within(column, SCREEN_COLUMNS)>>]

CursorCell(t) == <<lcd_scroll_map_row(t, t.at[1]), t.at[2]>>
lcd_draw_cursor(t) == IF t.on THEN [t EXCEPT !.under = @ \cup {CursorCell(t)}] ELSE t
lcd_erase_cursor(t) == IF t.on THEN [t EXCEPT !.under = @ \ {CursorCell(t)}] ELSE t

-----------------------------------------------------------------------------
(* The window of the split screen, and the cursor in it.                   *)

WindowStart(t) ==
  IF t.text_row < SCREEN_SPLIT_TXT_ROWS THEN 0
  ELSE t.text_row - (SCREEN_SPLIT_TXT_ROWS - 1)

InWindow(t, row) == row \in WindowStart(t) .. WindowStart(t) + SCREEN_SPLIT_TXT_ROWS - 1

\* Whether a row of the buffer is on display, and at which line.
Displayed(t, row) == t.mode = "TXT" \/ (t.mode = "SPLIT" /\ InWindow(t, row))
LineOf(t, row) ==
  IF t.mode = "SPLIT" THEN SCREEN_SPLIT_TXT_ROW + row - WindowStart(t) ELSE row

screen_txt_map_location(t) == Displayed(t, t.row)

\* lcd_move_cursor gets the row unmapped when the row is not on display.
screen_txt_set_cursor(t, column, row) ==
  LET moved == [t EXCEPT !.column = IF column < MAX_COLUMN THEN column ELSE MAX_COLUMN,
                         !.row = IF row < SCREEN_ROWS THEN row ELSE SCREEN_ROWS - 1] IN
  IF t.mode = "SPLIT" /\ ~InWindow(moved, moved.row)
  THEN lcd_move_cursor(moved, column, row)
  ELSE lcd_move_cursor(moved, moved.column, LineOf(moved, moved.row))

screen_txt_enable_cursor(t, on) == [t EXCEPT !.on = on /\ screen_txt_map_location(t)]

ToCursor(t) == lcd_move_cursor(t, t.column, LineOf(t, t.row))
screen_txt_draw_cursor(t) ==
  IF screen_txt_map_location(t) THEN lcd_draw_cursor(ToCursor(t)) ELSE t
screen_txt_erase_cursor(t) ==
  IF screen_txt_map_location(t) THEN lcd_erase_cursor(ToCursor(t)) ELSE t

-----------------------------------------------------------------------------
(* Writing.                                                                *)

screen_txt_scroll_up(t) ==
  [t EXCEPT !.buf = [r \in Rows |-> IF r = SCREEN_ROWS - 1 THEN BlankRow ELSE @[r + 1]],
            !.dirty = Rows]

\* The cursor has gone past the last row there is to write on.
ScrollText(t) ==
  LET up == screen_txt_scroll_up(t) IN
  [(IF t.mode = "TXT" THEN lcd_scroll_up(up) ELSE up)
     EXCEPT !.row = SCREEN_ROWS - 1, !.scrolled = TRUE]

\* Mutant: the LCD's memory stays where it is when only the window moves
ScrollWindowStill(t) ==
  LET atEnd == t.text_row = SCREEN_ROWS - 1
      moved == IF atEnd THEN lcd_scroll_up(screen_txt_scroll_up(t))
               ELSE [t EXCEPT !.text_row = @ + 1, !.slid = TRUE]
      start == WindowStart(t) + (IF atEnd THEN 0 ELSE 1) IN
  [moved EXCEPT !.row = start + SCREEN_SPLIT_TXT_ROWS - 1, !.scrolled = TRUE]

\* Below the window the buffer scrolls only when the window is at its end.
ScrollWindow(t) ==
  LET atEnd == t.text_row = SCREEN_ROWS - 1
      moved == IF atEnd THEN screen_txt_scroll_up(t)
               ELSE [t EXCEPT !.text_row = @ + 1, !.slid = TRUE]
      start == WindowStart(t) + (IF atEnd THEN 0 ELSE 1) IN
  [lcd_scroll_up(moved)
     EXCEPT !.row = start + SCREEN_SPLIT_TXT_ROWS - 1, !.scrolled = TRUE]

MakeRoom(t) ==
  IF t.mode = "SPLIT"
  THEN IF t.row >= WindowStart(t) + SCREEN_SPLIT_TXT_ROWS THEN ScrollWindow(t) ELSE t
  ELSE IF t.row >= SCREEN_ROWS THEN ScrollText(t) ELSE t

ToStart(t) == screen_txt_set_cursor(t, 0, t.row)
WrittenTo(t) == [t EXCEPT !.text_row = t.row]
LineBelow(t) == MakeRoom([t EXCEPT !.column = 0, !.row = @ + 1])

\* The LCD's cursor follows a newline only when something scrolled.
AfterScroll(t) == IF t.scrolled THEN ToStart(t) ELSE t
Newline(t) == WrittenTo(AfterScroll(LineBelow(t)))

\* A cell is written in the buffer and, when it is on display, at once on the LCD.
Write(t, c) ==
  LET put == [t EXCEPT !.buf[t.row][t.column] = c, !.dirty = @ \cup {t.row}] IN
  IF Displayed(t, t.row)
  THEN lcd_putc_attr(put, t.column, LineOf(t, t.row), c) ELSE put

CellBefore(t) ==
  IF t.column > 0 THEN [t EXCEPT !.column = @ - 1]
  ELSE [t EXCEPT !.row = @ - 1, !.column = MAX_COLUMN]

Erase(t) == IF Displayed(t, t.row) THEN ToCursor(Write(t, Blank)) ELSE Write(t, Blank)
Backspace(t) == IF t.column = 0 /\ t.row = 0 THEN t ELSE Erase(CellBefore(t))

\* Wrapping onto the next row sets text_row only when the screen is split.
Wrap(t) == ToStart(IF t.mode = "SPLIT" THEN WrittenTo(t) ELSE t)

Advance(t) ==
  IF t.column = MAX_COLUMN THEN Wrap(LineBelow(t)) ELSE [t EXCEPT !.column = @ + 1]

PutGlyph(t, c) ==
  Advance(IF Displayed(t, t.row)
          THEN lcd_move_cursor(Write(t, c), t.column + 1, LineOf(t, t.row))
          ELSE Write(t, c))

\* text_row follows the cursor, also back up, and the window follows text_row.
Watched(t, put) ==
  [put EXCEPT !.stray = @ \/ (t.mode = "SPLIT" /\ WindowStart(put) < WindowStart(t))]

Put(t, c) ==
  CASE c = "newline" -> Newline(t)
    [] c = "backspace" -> Backspace(t)
    [] OTHER -> PutGlyph(t, c)

screen_txt_putc(t, c) ==
  Watched(t, Put([t EXCEPT !.scrolled = FALSE, !.slid = FALSE], c))

screen_txt_puts(t, text) == FoldLeft(screen_txt_putc, t, text)

\* The rows on display that are dirty are written again.
screen_txt_update(t) ==
  LET due == {r \in t.dirty : Displayed(t, r)}
      clean == [t EXCEPT !.dirty = @ \ due] IN
  LcdLines(clean, {LineOf(t, r) : r \in due},
           LAMBDA y : t.buf[IF t.mode = "SPLIT"
                            THEN y - SCREEN_SPLIT_TXT_ROW + WindowStart(t) ELSE y])

screen_txt_mark_all_dirty(t) == [t EXCEPT !.dirty = Rows]

screen_txt_clear(t) ==
  LET empty == screen_txt_mark_all_dirty(
                 [t EXCEPT !.text_row = 0, !.buf = [r \in Rows |-> BlankRow],
                           !.stray = FALSE]) IN
  screen_txt_set_cursor(IF t.mode = "SPLIT" THEN lcd_scroll_clear(empty)
                        ELSE lcd_clear_screen(empty), 0, 0)

-----------------------------------------------------------------------------
(* Modes.  The picture is drawn whole when a mode that shows it is entered.*)

ShowPicture(t, lines) == LcdLines(t, 0 .. lines - 1, LAMBDA y : Picture)

SetMode(t, mode) ==
  LET set == [t EXCEPT !.mode = mode, !.stray = FALSE] IN
  CASE mode = "TXT" ->
         screen_txt_update(screen_txt_mark_all_dirty(lcd_define_scrolling(set, 0)))
    [] mode = "GFX" ->
         ShowPicture(lcd_define_scrolling(lcd_erase_cursor(set), 0), SCREEN_ROWS)
    [] OTHER ->
         screen_txt_update(screen_txt_mark_all_dirty(ShowPicture(
           lcd_define_scrolling(lcd_erase_cursor(set), SCREEN_SPLIT_TXT_ROW),
           SCREEN_SPLIT_TXT_ROW)))

screen_set_mode(t, mode) == IF mode = t.mode THEN t ELSE SetMode(t, mode)

ModeKeys == [F1 |-> "TXT", F2 |-> "SPLIT", F3 |-> "GFX"]
screen_handle_mode_key(t, key) ==
  screen_txt_enable_cursor(screen_set_mode(t, ModeKeys[key]), key # "F3")

\* lcd_init tells the controller of an area as high as the display, and the first
\* screen_set_mode, to the mode it is in, tells it nothing.
BootScreen ==
  [buf |-> [r \in Rows |-> BlankRow], column |-> 0, row |-> 0, text_row |-> 0,
   dirty |-> Rows, mode |-> "TXT", lcd |-> [m \in 0 .. FRAME_ROWS - 1 |-> BlankRow],
   under |-> {}, top |-> 0, offset |-> 0, area |-> SCREEN_ROWS, at |-> <<0, 0>>, on |-> TRUE,
   scrolled |-> FALSE, slid |-> FALSE, stray |-> FALSE]

=============================================================================
