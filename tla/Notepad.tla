------------------------------- MODULE Notepad -------------------------------
(***************************************************************************)
(* The desktop's Notepad (kernel/src/desktop/apps/notepad.rs) on the one   *)
(* file it knows, /notepad.txt.  The window, wider than any line here, is  *)
(* drawn after every key; where String panics, Notepad does.               *)
(***************************************************************************)
EXTENDS Text

CONSTANTS FileTexts,   \* what may be in the file
          Outcomes,    \* of write_file: "ok", "false", or "full"
          ROWS,        \* rows of text shown
          KEYS         \* bound on the keys pressed

NONE == <<"none">>     \* there is no file

VARIABLES file, lines, cursor_row, cursor_col, scroll, modified, pc, left,
          full   \* ghost: the last save that was reported done met a full volume
vars == <<file, lines, cursor_row, cursor_col, scroll, modified, pc, left, full>>

Row == lines[cursor_row + 1]
Lowest(a, b) == IF a < b THEN a ELSE b

\* Drawing the cursor slices one byte of a row that is shown.
Drawable(ls, row, col, sc) ==
  row < sc + ROWS /\ col < Len(ls[row + 1]) => ls[row + 1][col + 1] \notin {"L", "C"}

Edit(ls, row, col, sc, mod) ==
  /\ lines' = ls /\ cursor_row' = row /\ cursor_col' = col /\ scroll' = sc /\ modified' = mod
  /\ pc' = IF Drawable(ls, row, col, sc) THEN "run" ELSE "panic"
  /\ UNCHANGED <<file, full>>
Went(row, col) == Edit(lines, row, col, scroll, modified)
Changed(ls, row, col) == Edit(ls, row, col, scroll, TRUE)
Panic == pc' = "panic" /\ UNCHANGED <<file, lines, cursor_row, cursor_col, scroll, modified, full>>

-----------------------------------------------------------------------------
Left ==
  \/ cursor_col > 0 /\ Went(cursor_row, cursor_col - 1)
  \/ cursor_col = 0 /\ cursor_row > 0 /\ Went(cursor_row - 1, Len(lines[cursor_row]))
Right ==
  \/ cursor_col < Len(Row) /\ Went(cursor_row, cursor_col + 1)
  \/ cursor_col >= Len(Row) /\ cursor_row + 1 < Len(lines) /\ Went(cursor_row + 1, 0)

\* Up is the one key that scrolls.
Up ==
  /\ cursor_row > 0
  /\ Edit(lines, cursor_row - 1, Lowest(cursor_col, Len(lines[cursor_row])),
          Lowest(scroll, cursor_row - 1), modified)

\* Mutant: the column is not clamped to the new row.
Down_unclamped ==
  /\ cursor_row + 1 < Len(lines) /\ Went(cursor_row + 1, cursor_col)

Down ==
  /\ cursor_row + 1 < Len(lines)
  /\ Went(cursor_row + 1, Lowest(cursor_col, Len(lines[cursor_row + 2])))
Home == Went(cursor_row, 0)
End  == Went(cursor_row, Len(Row))

Delete ==
  \/ /\ cursor_col < Len(Row)
     /\ IF ~IsCharBoundary(Row, cursor_col) THEN Panic
        ELSE Changed([lines EXCEPT ![cursor_row + 1] = Removed(@, cursor_col)], cursor_row, cursor_col)
  \/ /\ cursor_col >= Len(Row) /\ cursor_row + 1 < Len(lines)
     /\ Changed(Joined(lines, cursor_row + 1), cursor_row, cursor_col)

Enter ==
  IF ~IsCharBoundary(Row, cursor_col) THEN Panic
  ELSE Changed(Split(lines, cursor_row + 1, cursor_col), cursor_row + 1, 0)

\* At the start of the text there is nothing to remove, but it counts as a
\* change.
Backspace ==
  IF cursor_col > 0
  THEN IF ~IsCharBoundary(Row, cursor_col - 1) THEN Panic
       ELSE Changed([lines EXCEPT ![cursor_row + 1] = Removed(@, cursor_col - 1)],
                    cursor_row, cursor_col - 1)
  ELSE IF cursor_row > 0
  THEN Changed(Joined(lines, cursor_row), cursor_row - 1, Len(lines[cursor_row]))
  ELSE Changed(lines, 0, 0)

Insert ==
  IF ~IsCharBoundary(Row, cursor_col) THEN Panic
  ELSE Changed([lines EXCEPT ![cursor_row + 1] = Inserted(@, cursor_col, <<"a">>)],
               cursor_row, cursor_col + 1)

\* On a full volume write_file empties the file and returns true.
Save ==
  /\ \E how \in Outcomes :
       IF how = "false" THEN UNCHANGED <<file, modified, full>>
       ELSE /\ file' = IF how = "ok" THEN Content(lines) ELSE << >>
            /\ modified' = FALSE /\ full' = (how = "full")
  /\ UNCHANGED <<lines, cursor_row, cursor_col, scroll, pc>>

\* Ctrl+O and Ctrl+N drop the text, saved or not.
Open == file # NONE /\ Edit(Loaded(file), 0, 0, 0, FALSE)
New  == Edit(<< << >> >>, 0, 0, 0, FALSE)

Key == pc = "run" /\ (Left \/ Right \/ Up \/ Down \/ Home \/ End \/ Delete \/ Enter
                      \/ Backspace \/ Insert \/ Save \/ Open \/ New)

Init ==
  /\ file \in FileTexts \cup {NONE}
  /\ lines = << << >> >> /\ cursor_row = 0 /\ cursor_col = 0 /\ scroll = 0
  /\ modified = FALSE /\ pc = "run" /\ left = KEYS /\ full = FALSE
Next == left > 0 /\ left' = left - 1 /\ Key
Spec == Init /\ [][Next]_vars

-----------------------------------------------------------------------------
(* Properties                                                              *)

\* Every key leaves the cursor on a line and within it, where the next one
\* indexes the text without a check; and text that is not marked as modified
\* is empty or is what the file holds.  Except that a save on a full volume leaves
\* the text unmarked and the file empty.
TextInHand ==
  /\ cursor_row < Len(lines) /\ cursor_col <= Len(Row)
  /\ ~modified => \/ lines = << << >> >>
                  \/ IF full THEN file = << >>
                     ELSE file # NONE /\ lines \in {Loaded(file), Append(Lines(file), << >>)}

\* The cursor's row is on the screen.  Nothing scrolls down: Down, Right and
\* Enter leave the window.
CursorShown == scroll <= cursor_row /\ cursor_row < scroll + ROWS

\* A character of two bytes under the cursor ends in a panic.
NeverPanics == pc # "panic"
=============================================================================
