------------------------------ MODULE MCPrograms ------------------------------
(***************************************************************************)
(* Programs that do not interact, in one run: what the shell keeps over a *)
(* restart (Settings), its prompt (Prompt), its execution of lines (Shell),*)
(* its editor (Editor), its calculator (Calc), and three applications of   *)
(* the desktop (Minesweeper, Snake, Notepad).  A behaviour is one of one   *)
(* of them, part; the others are idle.                                     *)
(***************************************************************************)
EXTENDS Settings, Prompt, TLC

VARIABLES
  part,
  shell_files, env, aliases, active, buffer, work, orders,
  file, lines, cursor_row, cursor_col, modified, mode, strokes, full,
  scroll_offset, bg, scroll,
  mines, states, cursor, won, game_over, body, dir, food, score,
  checks, expr, typed, answer

-----------------------------------------------------------------------------
(* Instances                                                               *)

Part(c) == [cmd |-> c, to |-> "", add |-> FALSE]
To(c, f) == [cmd |-> c, to |-> f, add |-> FALSE]
AddTo(c, f) == [cmd |-> c, to |-> f, add |-> TRUE]
Chain(parts) == [var |-> "", parts |-> parts, stages |-> << >>]
Pipe(c, stages) == [var |-> "", parts |-> <<Part(c)>>, stages |-> stages]
Var(v) == [var |-> v, parts |-> << >>, stages |-> << >>]
St(n, w) == [name |-> n, word |-> w]

echo(w) == [name |-> "echo", word |-> w]
On(n, f) == [name |-> n, file |-> f]
Put(n, f, w) == [name |-> n, file |-> f, word |-> w]
Move(n, f, g) == [name |-> n, file |-> f, to |-> g]
Def(n, k, w) == [name |-> n, key |-> k, word |-> w]

\* Words 1 and 2 are data; 3 to 6 spell lines; 7 begins a comment.
MCMeaning ==
  (3 :> Chain(<<Part(echo(1)), AddTo(echo(2), "f")>>)) @@
  (4 :> Pipe(On("cat", "f"), <<St("sort", 0), St("uniq", 0)>>)) @@
  (5 :> Chain(<<Part(On("run", "s"))>>)) @@
  (6 :> Chain(<<Part(Put("append", "f", 1))>>))

MCTyped ==
  {Chain(<<p>>) : p \in
     {Part(On("run", "s")), To(On("run", "s"), "g"), AddTo(On("cat", "f"), "f"),
      To(Put("time", "f", 3), "g"), Part(Put("write", "s", 5)),
      Part(Put("append", "s", 4)), Part(On("touch", "g")),
      Part(On("rm", "f")), Part(Move("cp", "f", "g")), Part(Move("rename", "f", "g")),
      Part(Move("rename", "g", "f")), Part(Def("set", "V", 3)), Part(Def("alias", "x", 6)),
      Part([name |-> "unset", key |-> "V"]), Part([name |-> "unalias", key |-> "x"]),
      Part([name |-> "x"]), To(Put("head", "f", 1), "g"), To(Put("tail", "f", 1), "g"),
      To(On("sort", "f"), "f"), To(On("uniq", "f"), "g"), To(On("more", "f"), "g"),
      To(Put("grep", "f", 1), "g"), To(On("wc", "f"), "g"), Part(Move("rename", "f", "f"))}} \cup
  {Var("V"),
   Pipe(On("cat", "f"), <<St("grep", 1), St("head", 1)>>),
   Pipe(On("run", "s"), <<St("tail", 1), St("wc", 0)>>),
   Pipe(On("cat", "f"), <<St("more", 0)>>), Pipe(On("cat", "f"), <<St("cat", 0)>>)}

MCInitialFiles ==
  {("f" :> <<2, 0, 1>>) @@ ("s" :> <<7, 3, 0, 4, 0, 3, 0>>),
   ("f" :> <<1>>) @@ ("g" :> <<2, 0>>) @@ ("s" :> <<6, 0, 0, 1, 0>>)}

MCCommands == << <<"b", "a">>, <<"a", "b", "b">> >>

\* Lines ended by both kinds of newline, a character of two bytes, and no text.
MCTexts == {<< >>, <<"a", "r", "n", "a", "a", "n", "n">>, <<"a", "n", "L", "C", "a">>, <<"a", "C">>}

S == INSTANCE Shell WITH Typed <- MCTyped, Meaning <- MCMeaning, Comments <- {7},
       InitialFiles <- MCInitialFiles, ROOM <- 16, STEPS <- 4,
       files <- shell_files, left <- orders
E == INSTANCE Editor WITH InitialTexts <- MCTexts, Outcomes <- {"ok", "false", "full"},
       edit_rows <- 2, KEYS <- 6, pc <- mode, left <- strokes
M == INSTANCE Minesweeper WITH MINE_ROWS <- 3, MINE_COLS <- 3, MINE_COUNT <- 1, FLAGS <- 1
K == INSTANCE Snake WITH SNAKE_ROWS <- 3, SNAKE_COLS <- 4

\* A text with an empty line at its end, one with a character of two bytes, and
\* what is no text.
NotepadTexts == {<<"a", "n", "a", "a", "n", "n">>, <<"a", "n", "L", "C", "a">>, <<"L", "a">>}
N == INSTANCE Notepad WITH FileTexts <- NotepadTexts, Outcomes <- {"ok", "false", "full"},
       ROWS <- 2, KEYS <- 6, pc <- mode, left <- strokes

\* Up to four characters after each of six beginnings, with integers of four
\* bits: parentheses, a signed number, a division by a difference, overflow, the
\* least integer in parentheses.
C == INSTANCE Calc WITH MAX_INT <- 7, Digit <- ("1" :> 1) @@ ("3" :> 3),
       Chars <- {"1", "3", "+", "-", "*", "/", "%", "(", ")"},
       Begun <- {<< >>, <<"3", "-", "(">>, <<"3", "/", "(">>, <<"(", "1", "-">>,
                 <<"1", "-", "3">>, <<"(", "1", "-", "3", "-", "3", "-", "3", ")">>},
       MORE <- 4

-----------------------------------------------------------------------------
(* The sum                                                                 *)

shellVars == <<shell_files, env, aliases, active, buffer, work, orders>>
textVars == <<file, lines, cursor_row, cursor_col, modified, mode, strokes, full>>
editorVars == <<scroll_offset, bg>>
mineVars == <<mines, states, cursor, won>>
snakeVars == <<body, dir, food, score>>
calcVars == <<checks, expr, typed, answer>>

\* Settings and Prompt are idle in an initial state, the others in none.
IdleSettings == Init /\ volume = "none"
IdlePrompt == PromptInit
IdleShell ==
  /\ shell_files = "idle" /\ env = "idle" /\ aliases = "idle" /\ active = "idle"
  /\ buffer = "idle" /\ work = "idle" /\ orders = "idle"
IdleText ==
  /\ file = "idle" /\ lines = "idle" /\ cursor_row = "idle" /\ cursor_col = "idle"
  /\ modified = "idle" /\ mode = "idle" /\ strokes = "idle" /\ full = "idle"
IdleEditor == scroll_offset = "idle" /\ bg = "idle"
IdleNotepad == scroll = "idle"
IdleMines == mines = "idle" /\ states = "idle" /\ cursor = "idle" /\ won = "idle"
IdleSnake == body = "idle" /\ dir = "idle" /\ food = "idle" /\ score = "idle"
IdleGame == game_over = "idle"
IdleCalc == checks = "idle" /\ expr = "idle" /\ typed = "idle" /\ answer = "idle"

IdleSystem == IdleSettings /\ IdlePrompt
IdleWriters == IdleText /\ IdleEditor /\ IdleNotepad
IdleGames == IdleMines /\ IdleSnake /\ IdleGame

MCInit ==
  \/ part = "settings" /\ Init /\ IdlePrompt /\ IdleShell /\ IdleWriters /\ IdleGames /\ IdleCalc
  \/ part = "prompt" /\ PromptInit /\ IdleSettings /\ IdleShell /\ IdleWriters /\ IdleGames
     /\ IdleCalc
  \/ part = "shell" /\ S!Init /\ IdleSystem /\ IdleWriters /\ IdleGames /\ IdleCalc
  \/ part = "editor" /\ E!Init /\ IdleNotepad /\ IdleSystem /\ IdleShell /\ IdleGames /\ IdleCalc
  \/ part = "notepad" /\ N!Init /\ IdleEditor /\ IdleSystem /\ IdleShell /\ IdleGames /\ IdleCalc
  \/ part = "minesweeper" /\ M!Init /\ IdleSnake /\ IdleSystem /\ IdleShell /\ IdleWriters
     /\ IdleCalc
  \/ part = "snake" /\ K!Init /\ IdleMines /\ IdleSystem /\ IdleShell /\ IdleWriters /\ IdleCalc
  \/ part = "calc" /\ C!Init /\ IdleSystem /\ IdleShell /\ IdleWriters /\ IdleGames

KeepSystem == UNCHANGED <<vars, promptVars>>
KeepWriters == UNCHANGED <<textVars, editorVars, scroll>>
KeepGames == UNCHANGED <<mineVars, snakeVars, game_over>>
KeepShell == UNCHANGED shellVars
KeepCalc == UNCHANGED calcVars

MCNext ==
  /\ \/ part = "settings" /\ Next /\ UNCHANGED promptVars /\ KeepShell /\ KeepWriters /\ KeepGames
        /\ KeepCalc
     \/ part = "prompt" /\ PromptNext /\ UNCHANGED vars /\ KeepShell /\ KeepWriters /\ KeepGames
        /\ KeepCalc
     \/ part = "shell" /\ S!Next /\ KeepSystem /\ KeepWriters /\ KeepGames /\ KeepCalc
     \/ part = "editor" /\ E!Next /\ UNCHANGED scroll /\ KeepSystem /\ KeepShell /\ KeepGames
        /\ KeepCalc
     \/ part = "notepad" /\ N!Next /\ UNCHANGED editorVars /\ KeepSystem /\ KeepShell /\ KeepGames
        /\ KeepCalc
     \/ part = "minesweeper" /\ M!Next /\ UNCHANGED snakeVars /\ KeepSystem /\ KeepShell
        /\ KeepWriters /\ KeepCalc
     \/ part = "snake" /\ K!Next /\ UNCHANGED mineVars /\ KeepSystem /\ KeepShell /\ KeepWriters
        /\ KeepCalc
     \/ part = "calc" /\ C!Next /\ KeepSystem /\ KeepShell /\ KeepWriters /\ KeepGames
  /\ part' = part

mcvars == <<part, vars, promptVars, shellVars, textVars, editorVars, scroll, mineVars, snakeVars,
            game_over, calcVars>>
MCSpec == MCInit /\ [][MCNext]_mcvars

-----------------------------------------------------------------------------
(* Properties: those of the parts, of the behaviours that are theirs       *)

\* The innermost capture holds what was printed since it began, in order,
\* until a capture inside it ends (console.rs start_capture, stop_capture).
CaptureExact == part = "shell" => S!CaptureExact

\* A line loses no text of a file it was not told to replace or remove.
TextKept == [][part = "shell" => S!TextKeptStep]_mcvars

\* In the editor and in Notepad the cursor stays in the text, and text that
\* leaving would lose is marked as modified, unless a save on a full volume, which
\* empties the file, was reported done; the editor shows its cursor.
EditorsKeepText == /\ part = "editor" => E!CursorShown /\ E!UnmodifiedIsSaved
                   /\ part = "notepad" => N!TextInHand

\* Minesweeper's flood fill uncovers exactly the hidden cells it should; the
\* snake is a chain that never crosses itself.
GamesSound == /\ [][part = "minesweeper" => M!RevealExactStep]_mcvars
              /\ [](part = "snake" => K!SnakeIsChain)

\* The calculator gives every expression its meaning, and nothing else a value;
\* it panics only where an overflow does.
CalcExact == [][part = "calc" => C!CalcExactStep]_mcvars

\* "Rename/move a file (alias: mv)" (shell/commands/system.rs:53): the text is
\* under the new name afterwards.  Not so when the two names are the same, or on
\* a full volume: see README, section 6.
RenameKeepsText == [][part = "shell" => S!RenameKeepsTextStep]_mcvars
=============================================================================
