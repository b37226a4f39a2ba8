--------------------------------- MODULE Calc ---------------------------------
(***************************************************************************)
(* The calc command of the shell: a tokenizer and a recursive-descent      *)
(* evaluator (shell/calc.rs), on the expressions that can be typed with    *)
(* Chars.  MAX_INT is i64::MAX.  On overflow +, - and * panic in the       *)
(* default build and wrap in a release build; MIN / -1 and MIN % -1 panic  *)
(* in both.                                                                *)
(***************************************************************************)
EXTENDS Integers, Sequences, SequencesExt

CONSTANTS MAX_INT, Chars, Digit, Begun, MORE

VARIABLES
  checks,  \* the build checks for overflow
  expr,    \* the argument of calc, as typed so far
  typed,   \* the number of characters typed after Begun
  answer   \* what calc printed: empty, or one set of values

vars == <<checks, expr, typed, answer>>

Additive == {"+", "-"}
Multiplicative == {"*", "/", "%"}
Ops == Additive \cup Multiplicative

Wrap(n) == ((n + MAX_INT + 1) % (2 * (MAX_INT + 1))) - (MAX_INT + 1)

\* The decimal number that digits spell.
Number(digits) == FoldLeft(LAMBDA n, d : 10 * n + Digit[d], 0, digits)

-----------------------------------------------------------------------------
(* The tokenizer                                                           *)

Num(n) == [kind |-> "num", n |-> n]
Sym(c) == [kind |-> c, n |-> 0]

IsUnary(c, tokens) ==
  c = "-" /\ (tokens = << >> \/ Last(tokens).kind \in Ops \cup {"("})

\* The digits from i on.
DigitsAt(s, i) ==
  SubSeq(s, i, CHOOSE j \in i - 1 .. Len(s) :
                 /\ \A k \in i .. j : s[k] \in DOMAIN Digit
                 /\ j = Len(s) \/ s[j + 1] \notin DOMAIN Digit)

\* A number that is no i64, a minus without digits and an unknown character
\* make the result None, the empty set; otherwise it has one element.
RECURSIVE tokenize_expr(_, _, _)
tokenize_expr(s, i, tokens) ==
  IF i > Len(s) THEN {tokens}
  ELSE IF s[i] = " " THEN tokenize_expr(s, i + 1, tokens)
  ELSE IF s[i] \in DOMAIN Digit \/ IsUnary(s[i], tokens)
  THEN LET neg == s[i] = "-"
           digits == DigitsAt(s, IF neg THEN i + 1 ELSE i)
           n == Number(digits)
       IN IF digits = << >> \/ n > MAX_INT THEN {}
          ELSE tokenize_expr(s, (IF neg THEN i + 1 ELSE i) + Len(digits),
                             Append(tokens, Num(IF neg THEN -n ELSE n)))
  ELSE IF s[i] \in Ops \cup {"(", ")"} THEN tokenize_expr(s, i + 1, Append(tokens, Sym(s[i])))
  ELSE {}

-----------------------------------------------------------------------------
(* The evaluator: a result is None, a panic, or a value and the next       *)
(* position                                                                *)

Panic == MAX_INT + 1  \* no i64
None == [ok |-> FALSE, v |-> 0, pos |-> 0]
Panicked == [ok |-> FALSE, v |-> Panic, pos |-> 0]
Some(v, pos) == [ok |-> TRUE, v |-> v, pos |-> pos]

Abs(n) == IF n < 0 THEN -n ELSE n
Quotient(a, b) ==
  IF (a < 0) = (b < 0) THEN Abs(a) \div Abs(b) ELSE -(Abs(a) \div Abs(b))

Exact(op, a, b) ==
  CASE op = "+" -> a + b
    [] op = "-" -> a - b
    [] op = "*" -> a * b
    [] op = "/" -> Quotient(a, b)
    [] op = "%" -> a - b * Quotient(a, b)

\* MIN / -1 overflows, and MIN % -1 is taken to.
Overflows(op, a, b) ==
  IF op \in {"/", "%"} THEN a = -MAX_INT - 1 /\ b = -1
  ELSE Exact(op, a, b) \notin -MAX_INT - 1 .. MAX_INT

Operate(op, a, b) ==
  IF Overflows(op, a, b) /\ (checks \/ op \in {"/", "%"}) THEN Panic ELSE Wrap(Exact(op, a, b))

\* left op right; what right is if it has no value, None on a division by zero.
Combine(op, left, right) ==
  IF ~right.ok THEN right
  ELSE IF op \in {"/", "%"} /\ right.v = 0 THEN None
  ELSE IF Operate(op, left.v, right.v) = Panic THEN Panicked
  ELSE Some(Operate(op, left.v, right.v), right.pos)

At(t, pos, kinds) == pos <= Len(t) /\ t[pos].kind \in kinds

RECURSIVE AddSubLoop(_, _), MulDivLoop(_, _), parse_primary(_, _)

parse_mul_div(t, pos) == MulDivLoop(t, parse_primary(t, pos))

parse_add_sub(t, pos) == AddSubLoop(t, parse_mul_div(t, pos))

\* Mutant: the right operand takes all that follows.
AddSubLoop_right(t, left) ==
  IF left.ok /\ At(t, left.pos, Additive)
  THEN Combine(t[left.pos].kind, left, parse_add_sub(t, left.pos + 1))
  ELSE left

AddSubLoop(t, left) ==
  IF left.ok /\ At(t, left.pos, Additive)
  THEN AddSubLoop(t, Combine(t[left.pos].kind, left, parse_mul_div(t, left.pos + 1)))
  ELSE left

MulDivLoop(t, left) ==
  IF left.ok /\ At(t, left.pos, Multiplicative)
  THEN MulDivLoop(t, Combine(t[left.pos].kind, left, parse_primary(t, left.pos + 1)))
  ELSE left

parse_primary(t, pos) ==
  LET Closed(r) == IF ~r.ok THEN r
                   ELSE IF At(t, r.pos, {")"}) THEN Some(r.v, r.pos + 1) ELSE None
  IN IF At(t, pos, {"num"}) THEN Some(t[pos].n, pos + 1)
     ELSE IF At(t, pos, {"("}) THEN Closed(parse_add_sub(t, pos + 1))
     ELSE None

\* The values of an expression: none or one, or Panic.
eval_expr(s) ==
  UNION {{r.v : r \in {q \in {parse_add_sub(t, 1)} : q = Panicked \/ (q.ok /\ q.pos = Len(t) + 1)}}
           : t \in tokenize_expr(s, 1, << >>)}

-----------------------------------------------------------------------------
(* Typing an expression and running the command                            *)

Init == checks \in BOOLEAN /\ expr \in Begun /\ typed = 0 /\ answer = << >>

Type(c) ==
  /\ answer = << >> /\ typed < MORE
  /\ expr' = Append(expr, c)
  /\ typed' = typed + 1
  /\ UNCHANGED <<checks, answer>>

\* Without an argument the usage is printed, and no value.
cmd_calc ==
  /\ answer = << >>
  /\ answer' = <<IF expr = << >> THEN {} ELSE eval_expr(expr)>>
  /\ expr' = << >> /\ typed' = 0 /\ checks' = checks

Next == (\E c \in Chars : Type(c)) \/ cmd_calc
Spec == Init /\ [][Next]_vars

-----------------------------------------------------------------------------
(* Properties                                                              *)

Depth(s, i) == Len(SelectSeq(SubSeq(s, 1, i), LAMBDA c : c = "("))
                 - Len(SelectSeq(SubSeq(s, 1, i), LAMBDA c : c = ")"))

\* The operators with two operands outside all parentheses: not a minus at
\* the start or after another operator.
Binary(s, ops) ==
  {i \in 2 .. Len(s) : /\ s[i] \in ops /\ Depth(s, i) = 0
                       /\ s[i] = "-" => s[i - 1] \notin Ops \cup {"("}}

\* What an expression means: its value is that of its last additive operator
\* outside parentheses, or else of its last multiplicative one, applied to the
\* values on its two sides; or what the parentheses around it hold; or a
\* number with an optional minus.  It is Panic when one of the values it needs is,
\* or when its operator overflows and the build does not wrap.
RECURSIVE Meaning(_)
Meaning(s) ==
  LET Apply(op, a, b) == IF Panic \in {a, b} THEN Panic ELSE Operate(op, a, b)
      Split(i) ==
        {Apply(s[i], a, b) :
           a \in Meaning(SubSeq(s, 1, i - 1)),
           b \in {x \in Meaning(SubSeq(s, i + 1, Len(s))) : s[i] \in {"/", "%"} => x # 0}}
      LastOf(I) == CHOOSE i \in I : \A j \in I : j <= i
      digits == IF s # << >> /\ s[1] = "-" THEN Tail(s) ELSE s
  IN IF s = << >> THEN {}
     ELSE IF Binary(s, Additive) # {} THEN Split(LastOf(Binary(s, Additive)))
     ELSE IF Binary(s, Multiplicative) # {} THEN Split(LastOf(Binary(s, Multiplicative)))
     ELSE IF s[1] = "(" /\ Last(s) = ")" THEN Meaning(SubSeq(s, 2, Len(s) - 1))
     ELSE IF digits # << >> /\ ToSet(digits) \subseteq DOMAIN Digit /\ Number(digits) <= MAX_INT
     THEN {IF s[1] = "-" THEN -Number(digits) ELSE Number(digits)}
     ELSE {}

\* Descending through the grammar from the left gives every expression the
\* value that splitting it at its loosest operator gives, and no other text any
\* value: precedence, grouping to the left, the minus of a number, unbalanced
\* parentheses, division by zero, numbers out of range.  The kernel panics when
\* the value does, and otherwise only on text without a value, part of which does.
CalcExactStep ==
  answer' # answer =>
    \/ answer' = <<Meaning(expr)>>
    \/ /\ answer' = <<{Panic}>> /\ Meaning(expr) = {}
       /\ \E i, j \in DOMAIN expr : Meaning(SubSeq(expr, i, j)) = {Panic}
CalcExact == [][CalcExactStep]_vars
=============================================================================
