-------------------------------- MODULE Snake --------------------------------
(***************************************************************************)
(* The desktop's Snake (kernel/src/desktop/apps/snake.rs).  A step is made *)
(* by a key.  The generator's tries for the food are a choice: one of them *)
(* hits a free cell, or none does and the food stays where it is.          *)
(***************************************************************************)
EXTENDS Integers, Sequences, SequencesExt

CONSTANTS SNAKE_ROWS, SNAKE_COLS

VARIABLES body, dir, food, game_over, score
vars == <<body, dir, food, game_over, score>>

Cells == (0 .. SNAKE_ROWS - 1) \X (0 .. SNAKE_COLS - 1)
Vector == [Up |-> <<-1, 0>>, Down |-> <<1, 0>>, Left |-> <<0, -1>>, Right |-> <<0, 1>>]
Opposite == [Up |-> "Down", Down |-> "Up", Left |-> "Right", Right |-> "Left"]

snake_place_food(b, f) == (Cells \ ToSet(b)) \cup {f}

NewBody == LET r == SNAKE_ROWS \div 2  c == SNAKE_COLS \div 2 IN
           << <<r, c>>, <<r, c - 1>>, <<r, c - 2>> >>

\* Mutant: the tail's cell counts as free.
Hits_tail_free(n) == n \notin Cells \/ n \in ToSet(Front(body))

\* The walls (the unsigned row above the first wraps around) and the body,
\* the tail included although it is about to move on.
Hits(n) == n \notin Cells \/ n \in ToSet(body)

snake_step(n) ==
  IF Hits(n) THEN game_over' = TRUE /\ UNCHANGED <<body, food, score>>
  ELSE /\ IF n = food
          THEN body' = <<n>> \o body /\ score' = score + 10
               /\ food' \in snake_place_food(body', food)
          ELSE body' = <<n>> \o Front(body) /\ UNCHANGED <<food, score>>
       /\ UNCHANGED game_over

snake_input(d) ==
  /\ dir' = IF dir = Opposite[d] THEN dir ELSE d
  /\ snake_step(<<body[1][1] + Vector[dir'][1], body[1][2] + Vector[dir'][2]>>)

\* 'R', once the game is over.
Restart ==
  /\ body' = NewBody /\ dir' = "Right" /\ game_over' = FALSE /\ score' = 0
  /\ food' \in snake_place_food(NewBody, food)

Init ==
  /\ body = NewBody /\ dir = "Right" /\ game_over = FALSE /\ score = 0
  /\ food \in snake_place_food(NewBody, <<0, 0>>)

\* Space is a step in the direction of the last arrow key.
Next ==
  \/ ~game_over /\ \/ \E d \in DOMAIN Vector : snake_input(d)
                   \/ snake_input(dir)
  \/ game_over /\ Restart
Spec == Init /\ [][Next]_vars

-----------------------------------------------------------------------------
(* Properties                                                              *)

Distance(a, b) == LET Abs(x) == IF x < 0 THEN -x ELSE x IN
                  Abs(a[1] - b[1]) + Abs(a[2] - b[2])

\* However it turns and grows, the snake is a chain of neighbouring cells
\* that never crosses itself, one cell longer for every ten points, even when
\* the food could not be placed and was left under it.
SnakeIsChain ==
  /\ IsInjective(body) /\ ToSet(body) \subseteq Cells
  /\ \A i \in 1 .. Len(body) - 1 : Distance(body[i], body[i + 1]) = 1
  /\ score = 10 * (Len(body) - 3)
=============================================================================
