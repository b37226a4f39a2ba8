-------------------------------- MODULE Editor --------------------------------
(***************************************************************************)
(* The shell's text editor, cmd_edit (kernel/src/shell/editor.rs).         *)
(*                                                                         *)
(* The cursor is a byte position in the text of module Text.  Where String *)
(* panics, the editor does.                                                *)
(***************************************************************************)
EXTENDS Text

CONSTANTS InitialTexts,  \* what may be in the file
          Outcomes,      \* of write_file: "ok", "false", or "full"
          edit_rows,     \* rows of text shown
          KEYS           \* bound on the keys pressed

VARIABLES
  file, lines, cursor_row, cursor_col, scroll_offset, modified,
  pc,    \* "edit", "confirm", "done" or "panic"
  bg,    \* the console's background
  full,  \* ghost: the last save that was reported done met a full volume
  left   \* keys still to come
vars == <<file, lines, cursor_row, cursor_col, scroll_offset, modified, pc, bg, full, left>>

-----------------------------------------------------------------------------
Row == lines[cursor_row + 1]

-----------------------------------------------------------------------------
Panic ==
  /\ pc' = "panic"
  /\ UNCHANGED <<file, lines, cursor_row, cursor_col, scroll_offset, modified, bg, full>>

\* Mutant: the screen scrolls down only.
Moved_down_only(row) ==
  IF row >= scroll_offset + edit_rows THEN row - edit_rows + 1 ELSE scroll_offset

\* The end of the loop keeps the cursor's row on the screen.
Moved(row) ==
  IF row < scroll_offset THEN row
  ELSE IF row >= scroll_offset + edit_rows THEN row - edit_rows + 1 ELSE scroll_offset

Cursor(row, col) ==
  /\ cursor_row' = row /\ cursor_col' = col /\ scroll_offset' = Moved(row)
Changed(ls, row, col) ==
  /\ lines' = ls /\ modified' = TRUE /\ Cursor(row, col)
  /\ UNCHANGED <<file, pc, bg, full>>
Went(row, col) == Cursor(row, col) /\ UNCHANGED <<file, lines, modified, pc, bg, full>>
Still == UNCHANGED <<cursor_row, cursor_col, scroll_offset>>

\* On a full volume write_file empties the file and returns true.
Save ==
  /\ \E how \in Outcomes :
       IF how = "false" THEN UNCHANGED <<file, modified, full>>
       ELSE /\ file' = IF how = "ok" THEN Content(lines) ELSE << >>
            /\ modified' = FALSE /\ full' = (how = "full")
  /\ Still /\ UNCHANGED <<lines, pc, bg>>

Quit ==
  /\ pc' = IF modified THEN "confirm" ELSE "done"
  /\ bg' = IF modified THEN bg ELSE "black"
  /\ Still /\ UNCHANGED <<file, lines, modified, full>>

Goto ==
  /\ cursor_row' = 0 /\ cursor_col' = 0 /\ scroll_offset' = 0
  /\ UNCHANGED <<file, lines, modified, pc, bg, full>>

Enter ==
  IF ~IsCharBoundary(Row, cursor_col) THEN Panic
  ELSE Changed(Split(lines, cursor_row + 1, cursor_col), cursor_row + 1, 0)

\* Mutant: joining two lines does not mark the text.
Backspace_unmarked ==
  IF cursor_col > 0
  THEN IF ~IsCharBoundary(Row, cursor_col - 1) THEN Panic
       ELSE Changed([lines EXCEPT ![cursor_row + 1] = Removed(@, cursor_col - 1)],
                    cursor_row, cursor_col - 1)
  ELSE /\ cursor_row > 0
       /\ lines' = Joined(lines, cursor_row)
       /\ Cursor(cursor_row - 1, Len(lines[cursor_row]))
       /\ UNCHANGED <<file, pc, bg, full, modified>>

Backspace ==
  IF cursor_col > 0
  THEN IF ~IsCharBoundary(Row, cursor_col - 1) THEN Panic
       ELSE Changed([lines EXCEPT ![cursor_row + 1] = Removed(@, cursor_col - 1)],
                    cursor_row, cursor_col - 1)
  ELSE /\ cursor_row > 0
       /\ Changed(Joined(lines, cursor_row), cursor_row - 1, Len(lines[cursor_row]))

\* A printable character, and Tab, which stands for four.
Insert(s) ==
  IF ~IsCharBoundary(Row, cursor_col) THEN Panic
  ELSE Changed([lines EXCEPT ![cursor_row + 1] = Inserted(@, cursor_col, s)],
               cursor_row, cursor_col + Len(s))

Clamped(row) == IF cursor_col <= Len(lines[row + 1]) THEN cursor_col ELSE Len(lines[row + 1])
Up    == cursor_row > 0 /\ Went(cursor_row - 1, Clamped(cursor_row - 1))
Down  == cursor_row < Len(lines) - 1 /\ Went(cursor_row + 1, Clamped(cursor_row + 1))
Left  == cursor_col > 0 /\ Went(cursor_row, cursor_col - 1)
Right == cursor_col < Len(Row) /\ Went(cursor_row, cursor_col + 1)

Key ==
  /\ pc = "edit"
  /\ \/ Save \/ Quit \/ Goto \/ Enter \/ Backspace \/ Insert(<<"a">>)
     \/ Insert(<<" ", " ", " ", " ">>) \/ Up \/ Down \/ Left \/ Right

\* Ctrl+Q again leaves; any other key is dropped.
Confirm ==
  /\ pc = "confirm"
  /\ \/ pc' = "done" /\ bg' = "black"
     \/ pc' = "edit" /\ bg' = bg
  /\ UNCHANGED <<file, lines, cursor_row, cursor_col, scroll_offset, modified, full>>

Init ==
  /\ file \in InitialTexts
  /\ lines = Loaded(file)
  /\ cursor_row = 0 /\ cursor_col = 0 /\ scroll_offset = 0
  /\ modified = FALSE /\ pc = "edit" /\ bg = "teal" /\ full = FALSE
  /\ left = KEYS

Next == left > 0 /\ left' = left - 1 /\ (Key \/ Confirm)
Spec == Init /\ [][Next]_vars

-----------------------------------------------------------------------------
(* Properties                                                              *)

\* The cursor is on a line, within it, and on the screen.
CursorShown ==
  /\ cursor_row < Len(lines) /\ cursor_col <= Len(Row)
  /\ scroll_offset <= cursor_row /\ cursor_row < scroll_offset + edit_rows

\* Text that would be lost by leaving is marked as modified: otherwise the
\* file, opened again, shows these lines, but for an empty one at the end.  Except
\* that a save on a full volume leaves the text unmarked and the file empty.
UnmodifiedIsSaved ==
  ~modified => IF full THEN file = << >>
               ELSE lines \in {Loaded(file), Append(Lines(file), << >>)}

\* The cursor moves by bytes: it can stand inside a character, where the next
\* key ends in a panic.
NeverPanics == pc # "panic"

\* The code says "Restore console", but the background stays black.
ConsoleRestored == pc = "done" => bg = "teal"
=============================================================================
