----------------------------- MODULE Minesweeper -----------------------------
(***************************************************************************)
(* The desktop's Minesweeper (kernel/src/desktop/apps/minesweeper.rs).     *)
(* The generator seeded from the clock is a choice of the mines.           *)
(***************************************************************************)
EXTENDS Integers, FiniteSets, FiniteSetsExt, Sequences, SequencesExt

CONSTANTS MINE_ROWS, MINE_COLS, MINE_COUNT,
          FLAGS   \* bound on the cells flagged at a time

VARIABLES mines, states, cursor, game_over, won
vars == <<mines, states, cursor, game_over, won>>

Cells == (0 .. MINE_ROWS - 1) \X (0 .. MINE_COLS - 1)

\* The cells around one, in the order of the loops on dr and dc.
Around(c) ==
  LET Cell(dr, dc) == <<c[1] + dr, c[2] + dc>> IN
  SelectSeq(<<Cell(-1, -1), Cell(-1, 0), Cell(-1, 1), Cell(0, -1),
              Cell(0, 1), Cell(1, -1), Cell(1, 0), Cell(1, 1)>>,
            LAMBDA d : d[1] \in 0 .. MINE_ROWS - 1 /\ d[2] \in 0 .. MINE_COLS - 1)
adjacent(c) == Cardinality(ToSet(Around(c)) \cap mines)

\* Mutant: the flood goes through flagged cells.
RECURSIVE reveal_flagged(_, _)
reveal_flagged(st, c) ==
  IF st[c] = "Revealed" THEN st
  ELSE IF c \in mines
  THEN [d \in Cells |-> IF d \in mines \cup {c} THEN "Revealed" ELSE st[d]]
  ELSE IF adjacent(c) # 0 THEN [st EXCEPT ![c] = "Revealed"]
  ELSE FoldLeft(reveal_flagged, [st EXCEPT ![c] = "Revealed"], Around(c))

RECURSIVE minesweeper_reveal(_, _)
minesweeper_reveal(st, c) ==
  IF st[c] # "Hidden" THEN st
  ELSE IF c \in mines
  THEN [d \in Cells |-> IF d \in mines \cup {c} THEN "Revealed" ELSE st[d]]
  ELSE IF adjacent(c) # 0 THEN [st EXCEPT ![c] = "Revealed"]
  ELSE FoldLeft(minesweeper_reveal, [st EXCEPT ![c] = "Revealed"], Around(c))

AllRevealed(st) == \A c \in Cells \ mines : st[c] = "Revealed"

-----------------------------------------------------------------------------
\* Reveal, then look for the end of the game.
Open(c) ==
  /\ states[c] = "Hidden"
  /\ states' = minesweeper_reveal(states, c)
  /\ won' = (c \notin mines /\ AllRevealed(states'))
  /\ game_over' = (c \in mines \/ won')
  /\ UNCHANGED mines

OpenAtCursor == Open(cursor) /\ UNCHANGED cursor
minesweeper_click(c) == cursor' = c /\ (Open(c) \/ (states[c] # "Hidden"
                                       /\ UNCHANGED <<mines, states, game_over, won>>))

ToggleFlag ==
  /\ states[cursor] # "Revealed"
  /\ states[cursor] = "Hidden" => Cardinality({c \in Cells : states[c] = "Flagged"}) < FLAGS
  /\ states' = [states EXCEPT ![cursor] = IF @ = "Hidden" THEN "Flagged" ELSE "Hidden"]
  /\ UNCHANGED <<mines, cursor, game_over, won>>

MoveCursor ==
  /\ cursor' \in {c \in Cells : \/ c[1] = cursor[1] /\ (c[2] = cursor[2] + 1 \/ c[2] + 1 = cursor[2])
                                \/ c[2] = cursor[2] /\ (c[1] = cursor[1] + 1 \/ c[1] + 1 = cursor[1])}
  /\ UNCHANGED <<mines, states, game_over, won>>

\* 'R', once the game is over.
Restart ==
  /\ mines' \in kSubset(MINE_COUNT, Cells)
  /\ states' = [c \in Cells |-> "Hidden"] /\ cursor' = <<0, 0>>
  /\ game_over' = FALSE /\ won' = FALSE

Init ==
  /\ mines \in kSubset(MINE_COUNT, Cells)
  /\ states = [c \in Cells |-> "Hidden"] /\ cursor = <<0, 0>>
  /\ game_over = FALSE /\ won = FALSE

Next ==
  \/ ~game_over /\ (OpenAtCursor \/ ToggleFlag \/ MoveCursor
                    \/ \E c \in Cells : minesweeper_click(c))
  \/ game_over /\ Restart
Spec == Init /\ [][Next]_vars

-----------------------------------------------------------------------------
(* Properties                                                              *)

Shown(st) == {c \in Cells : st[c] = "Revealed"}

\* A set of cells the flood fill may stop with: nothing hidden is left beside
\* a cell with no mine around it.
Flooded(S) ==
  \A c \in S : adjacent(c) = 0 =>
    \A d \in ToSet(Around(c)) : states[d] = "Hidden" => d \in S

\* The recursive fill uncovers, from the chosen cell, the least flooded set of
\* hidden cells and none of the flagged ones, in whatever order it visits
\* them; the game is lost by a mine alone and won exactly with the last safe
\* cell.
RevealExactStep ==
  ~game_over /\ Shown(states') # Shown(states) =>
    LET new == Shown(states') \ Shown(states) IN
    IF cursor' \in mines
    THEN game_over' /\ ~won' /\ new = {cursor'} \cup mines
    ELSE /\ \A c \in new : states[c] = "Hidden" /\ c \notin mines
         /\ cursor' \in new /\ Flooded(new)
         /\ \A S \in SUBSET new : cursor' \in S /\ Flooded(S) => S = new
         /\ won' = (Cells \ mines \subseteq Shown(states')) /\ game_over' = won'
RevealExact == [][RevealExactStep]_vars
=============================================================================
