------------------------------- MODULE MCConsole -------------------------------
(* Programs for Console on a screen of 3 columns and 4 rows, 2 when split. *)
EXTENDS Console

print(text) == [op |-> "print", text |-> text]
cleartext == [op |-> "cleartext"]
setcursor(column, row) == [op |-> "setcursor", column |-> column, row |-> row]
screen(mode) == [op |-> "screen", mode |-> mode]
readchar(keys) == [op |-> "readchar", keys |-> keys]
line(keys, most) == [op |-> "line", keys |-> keys, most |-> most]

Lines(n) == print([i \in 1 .. n |-> "newline"])
Words == print(<<"a", "b", "a", "b", "newline">>)

\* Scrolls as lcd.c supposes only once the mode has changed.
ModeChanged(program) == <<screen("GFX"), screen("TXT")>> \o program

MCPrograms == {
  \* text that scrolls before the mode ever changes
  <<Lines(5), line({"a", "b", "LEFT"}, 4), screen("SPLIT"), Words, screen("TXT"), Lines(2)>>}
  \cup {ModeChanged(program) : program \in {
  \* a line that wraps and scrolls at the bottom of the screen
  <<Lines(3), line({"a", "b", "BACKSPACE", "LEFT", "HOME", "END"}, 6)>>,
  <<Words, Words, screen("SPLIT"), line({"a", "DEL", "ESC", "LEFT", "RIGHT"}, 5)>>,
  \* a line after other output, and one that starts in the middle
  <<print(<<"a", "a">>), line({"a", "b", "ESC", "HOME"}, 5)>>,
  <<setcursor(1, 2), line({"a", "BACKSPACE", "HOME", "DEL"}, 5), setcursor(2, 0)>>,
  \* more lines than the history holds
  <<line({"a", "b"}, 2), line({"b", " ", "UP"}, 1), line({"a", "UP"}, 2),
    line({"a", "b", "UP", "DOWN"}, 4)>>,
  <<line({"a", "b"}, 5), line({"a", "UP", "DOWN", "BACKSPACE"}, 4)>>,
  \* the mode keys while a line is typed
  <<Lines(3), line({"a", "F1", "F2", "F3", "LEFT"}, 5), Words>>,
  <<Words, line({"a", "b", "F2", "BACKSPACE"}, 5), line({"UP", "F1", "F3"}, 3)>>,
  \* output that goes round the memory of the LCD, in each mode
  <<Lines(7), Words, screen("SPLIT"), Words, Lines(5), Words, screen("TXT"), Words, line({"F2", "a"}, 3)>>,
  <<screen("SPLIT"), Words, Words, print(<<"backspace", "backspace", "a">>), screen("GFX"), Words, Words,
    screen("SPLIT"), Words, readchar({"F1", "F2", "F3", "a"}), Words, cleartext, Words>>,
  <<Words, cleartext, setcursor(0, 3), print(<<"a">>), setcursor(0, 0), screen("SPLIT"),
    line({"a", "F1"}, 2), line({"a", "F1", "F2"}, 3), Words>>}}

=============================================================================
