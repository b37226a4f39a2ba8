-------------------------------- MODULE Prompt --------------------------------
(***************************************************************************)
(* Typing at the shell's prompt: the key loop of shell::run, the command   *)
(* history (kernel/src/shell/mod.rs) and the text console they are shown   *)
(* on (kernel/src/graphics/console.rs).                                    *)
(*                                                                         *)
(* A screen is HEIGHT scanlines of COLS cells, CHAR_HEIGHT scanlines to a  *)
(* row of text.  The last whole row is the status bar.                     *)
(***************************************************************************)
EXTENDS Naturals, Sequences

CONSTANTS HISTORY_SIZE, MAX_CMD_LEN,
          COLS, HEIGHT, CHAR_HEIGHT,
          Chars,       \* printable characters
          COMMANDS,    \* tab_complete's list
          KEYS         \* bound on the keys pressed

\* Room for two rows of two characters, one of them the status bar's.
ASSUME PromptAssumption ==
  /\ HISTORY_SIZE \in Nat \ {0}
  /\ COLS \in Nat /\ COLS >= 2
  /\ CHAR_HEIGHT \in Nat \ {0} /\ HEIGHT \in Nat /\ HEIGHT >= 2 * CHAR_HEIGHT
  /\ "\n" \notin Chars /\ COMMANDS \in Seq(Seq(Chars))

VARIABLES
  cmd,     \* cmd_buf[..cmd_len]
  hist,    \* CMD_HISTORY
  con,     \* CONSOLE and the draw target
  ran,     \* ghost: the commands executed, without repetitions
  long,    \* ghost: this line has reached the edge of the screen
  keys     \* keys still to come
promptVars == <<cmd, hist, con, ran, long, keys>>

Blank == " "
total_rows == HEIGHT \div CHAR_HEIGHT
rows == IF total_rows > 1 THEN total_rows - 1 ELSE total_rows
Scanlines(row) == row * CHAR_HEIGHT .. row * CHAR_HEIGHT + CHAR_HEIGHT - 1

-----------------------------------------------------------------------------
(* The console                                                             *)

draw_char(c, col, row, ch) ==
  [c EXCEPT !.cells = [y \in DOMAIN @ |->
     IF y \in Scanlines(row) THEN [@[y] EXCEPT ![col] = ch] ELSE @[y]]]
fill_row(cells, row, ch) ==
  [y \in DOMAIN cells |->
     IF y \in Scanlines(row) THEN [x \in 0 .. COLS - 1 |-> ch] ELSE cells[y]]

scroll_up(c) ==
  [c EXCEPT !.cells = fill_row(
     [y \in DOMAIN @ |-> IF y < HEIGHT - CHAR_HEIGHT THEN @[y + CHAR_HEIGHT] ELSE @[y]],
     rows - 1, Blank)]

Scrolled(c) == IF c.row >= rows THEN scroll_up([c EXCEPT !.row = rows - 1]) ELSE c
write_char(c, ch) ==
  IF ch = "\n" THEN Scrolled([c EXCEPT !.col = 0, !.row = @ + 1])
  ELSE LET d == draw_char(c, c.col, c.row, ch) IN
       IF c.col + 1 >= COLS THEN Scrolled([d EXCEPT !.col = 0, !.row = @ + 1])
       ELSE [d EXCEPT !.col = @ + 1]

\* The console after so many characters of a string.
Printing(c, s) ==
  LET after[k \in 0 .. Len(s)] == IF k = 0 THEN c ELSE write_char(after[k - 1], s[k]) IN after
print(c, s) == Printing(c, s)[Len(s)]

backspace(c) ==
  IF c.col > 0 THEN draw_char([c EXCEPT !.col = @ - 1], c.col - 1, c.row, Blank) ELSE c
Erasing(c, n) == LET after[k \in 0..n] == IF k = 0 THEN c ELSE backspace(after[k - 1]) IN after
Erased(c, n) == Erasing(c, n)[n]

BlankScreen == [y \in 0 .. HEIGHT - 1 |-> [x \in 0 .. COLS - 1 |-> Blank]]
clear(c) == [cells |-> BlankScreen, col |-> 0, row |-> 0]
draw_status_bar(c) == [c EXCEPT !.cells = fill_row(@, total_rows - 1, "=")]
print_prompt(c) == print(draw_status_bar(c), <<">">>)

-----------------------------------------------------------------------------
(* The history                                                             *)

Previous(i) == IF i = 0 THEN HISTORY_SIZE - 1 ELSE i - 1

\* Mutant: repeated lines are entered again.
push_always(h, line) ==
  [h EXCEPT !.entries[h.write_idx] = line,
            !.write_idx = (@ + 1) % HISTORY_SIZE,
            !.count = IF @ < HISTORY_SIZE THEN @ + 1 ELSE @,
            !.browsing = FALSE]

push(h, line) ==
  IF h.count > 0 /\ h.entries[Previous(h.write_idx)] = line THEN h
  ELSE [h EXCEPT !.entries[h.write_idx] = line,
                 !.write_idx = (@ + 1) % HISTORY_SIZE,
                 !.count = IF @ < HISTORY_SIZE THEN @ + 1 ELSE @,
                 !.browsing = FALSE]

start_browse(h) ==
  IF h.browsing THEN h ELSE [h EXCEPT !.browsing = TRUE, !.browse_idx = h.write_idx]

\* The new history and the line to show, if any.
None == << >>
go_up(h) ==
  IF h.count = 0 THEN <<h, None>>
  ELSE LET b == start_browse(h)
           oldest == IF h.count < HISTORY_SIZE THEN 0 ELSE h.write_idx IN
       IF Previous(b.browse_idx) = oldest /\ b.browse_idx = oldest THEN <<b, None>>
       ELSE LET u == [b EXCEPT !.browse_idx = Previous(@)] IN
            IF u.entries[u.browse_idx] = << >> THEN <<u, None>>
            ELSE <<u, <<u.entries[u.browse_idx]>>>>

go_down(h) ==
  IF ~h.browsing \/ h.count = 0 THEN <<h, None>>
  ELSE LET next == (h.browse_idx + 1) % HISTORY_SIZE IN
       IF next = h.write_idx THEN <<[h EXCEPT !.browsing = FALSE], << << >> >> >>
       ELSE <<[h EXCEPT !.browse_idx = next], <<h.entries[next]>>>>

-----------------------------------------------------------------------------
(* The keys                                                                *)

\* The line on the screen makes way for another.
Replaced(line) ==
  /\ cmd' = line
  /\ con' = print(Erased(con, Len(cmd)), line)
  /\ long' = (long \/ 1 + Len(line) >= COLS)

\* The command prints a line and leaves the cursor below it.
Enter ==
  /\ IF cmd = << >>
     THEN /\ con' = print_prompt(print(con, <<"\n">>))
          /\ UNCHANGED <<hist, ran>>
     ELSE /\ con' = print_prompt(print(con, <<"\n", "o", "\n">>))
          /\ hist' = push(hist, cmd)
          /\ ran' = IF ran # << >> /\ ran[Len(ran)] = cmd THEN ran
                    ELSE Append(IF Len(ran) = HISTORY_SIZE THEN Tail(ran) ELSE ran, cmd)
  /\ cmd' = << >> /\ long' = FALSE

\* Mutant: the character stays on the screen.
Backspace_blind ==
  /\ cmd # << >> /\ cmd' = SubSeq(cmd, 1, Len(cmd) - 1) /\ con' = con
  /\ UNCHANGED <<hist, ran, long>>

Backspace ==
  /\ cmd # << >> /\ cmd' = SubSeq(cmd, 1, Len(cmd) - 1) /\ con' = backspace(con)
  /\ UNCHANGED <<hist, ran, long>>

CtrlC ==
  /\ cmd' = << >> /\ long' = FALSE
  /\ con' = print_prompt(print(con, <<"^", "C", "\n">>))
  /\ UNCHANGED <<hist, ran>>
CtrlL ==
  /\ cmd' = << >> /\ long' = FALSE
  /\ con' = print_prompt(clear(con))
  /\ UNCHANGED <<hist, ran>>

Type(c) ==
  /\ Len(cmd) < MAX_CMD_LEN - 1
  /\ cmd' = Append(cmd, c)
  /\ con' = print(con, <<c>>)
  /\ long' = (long \/ 2 + Len(cmd) >= COLS)
  /\ UNCHANGED <<hist, ran>>

\* tab_complete: the first command that starts with what was typed.
Completes(name) == Len(cmd) <= Len(name) /\ SubSeq(name, 1, Len(cmd)) = cmd
Tab ==
  /\ cmd # << >>
  /\ \E i \in DOMAIN COMMANDS :
       /\ Completes(COMMANDS[i])
       /\ \A j \in 1 .. i - 1 : ~Completes(COMMANDS[j])
       /\ Replaced(COMMANDS[i])
  /\ UNCHANGED <<hist, ran>>

Browse(r) ==
  /\ hist' = r[1] /\ ran' = ran
  /\ IF r[2] = None THEN UNCHANGED <<cmd, con, long>> ELSE Replaced(r[2][1])
Up   == Browse(go_up(hist))
Down == Browse(go_down(hist))

\* Once a second, between keys.
update_status_bar ==
  /\ con' = draw_status_bar(con)
  /\ UNCHANGED <<cmd, hist, ran, long, keys>>

PromptInit ==
  /\ cmd = << >> /\ ran = << >> /\ long = FALSE /\ keys = KEYS
  /\ hist = [entries |-> [i \in 0 .. HISTORY_SIZE - 1 |-> << >>], count |-> 0,
             write_idx |-> 0, browse_idx |-> 0, browsing |-> FALSE]
  /\ con = print_prompt(clear([cells |-> BlankScreen]))

Key ==
  /\ keys > 0 /\ keys' = keys - 1
  /\ \/ Enter \/ Backspace \/ CtrlC \/ CtrlL \/ Tab \/ Up \/ Down
     \/ \E c \in Chars : Type(c)

PromptNext == Key \/ update_status_bar
PromptSpec == PromptInit /\ [][PromptNext]_promptVars

-----------------------------------------------------------------------------
(* Properties                                                              *)

\* The row of the cursor shows the prompt and the line that Enter would
\* execute, whatever scrolled, was erased or recalled, as long as the line
\* has stayed clear of the right edge.
ScreenShowsLine ==
  ~long => \A y \in Scanlines(con.row) : con.cells[y] =
             [x \in 0 .. COLS - 1 |->
                IF x = 0 THEN ">" ELSE IF x <= Len(cmd) THEN cmd[x] ELSE Blank]

\* The ring holds the last HISTORY_SIZE commands executed, oldest first, each
\* repetition counted once.
HistoryRecent ==
  /\ hist.count = Len(ran)
  /\ \A i \in 1 .. Len(ran) :
       hist.entries[(hist.write_idx + HISTORY_SIZE - Len(ran) + i - 1) % HISTORY_SIZE] = ran[i]

\* shell/mod.rs says "Check bounds", but Up at the oldest entry goes on to the
\* newest, or to an empty slot.
UpStopsAtOldest ==
  [][Up /\ hist.browsing /\ hist.count > 0 /\ hist.entries[hist.browse_idx] = ran[1]
       => hist' = hist]_promptVars

\* draw_status_bar says of its row "it won't be overwritten by scrolling".  It
\* is when HEIGHT is no multiple of CHAR_HEIGHT.
StatusBarKept ==
  \A y \in Scanlines(total_rows - 1), x \in 0 .. COLS - 1 : con.cells[y][x] = "="

\* The screen and the history, together.
PromptFaithful == ScreenShowsLine /\ HistoryRecent
=============================================================================
