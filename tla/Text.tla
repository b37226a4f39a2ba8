-------------------------------- MODULE Text ---------------------------------
(***************************************************************************)
(* Text as the editors of the shell and of the desktop hold it, in Rust    *)
(* Strings: sequences of bytes, where "a" is an ASCII character, "L" and   *)
(* "C" the two bytes of one that is not, "r" and "n" the ends of a line.   *)
(***************************************************************************)
EXTENDS Naturals, Sequences, SequencesExt

\* str::lines, which takes "rn" for the end of a line as well.
Chomp(l) == IF l # << >> /\ Last(l) = "r" THEN Front(l) ELSE l
Lines(t) ==
  LET Read(acc, b) == IF b = "n" THEN <<Append(acc[1], Chomp(acc[2])), << >> >>
                      ELSE <<acc[1], Append(acc[2], b)>>
      r == FoldLeft(Read, << << >>, << >> >>, t)
  IN IF r[2] = << >> THEN r[1] ELSE Append(r[1], r[2])

\* from_utf8: what follows an "L" is its "C", and a "C" follows nothing else.
IsUtf8(t) ==
  \A i \in 0 .. Len(t) : (i > 0 /\ t[i] = "L") = (i < Len(t) /\ t[i + 1] = "C")

\* A file that is no text, like an empty one, opens as one empty line.
Loaded(t) == IF t = << >> \/ ~IsUtf8(t) THEN << << >> >> ELSE Lines(t)

\* A newline between the lines, none after the last.
Content(ls) ==
  FlattenSeq([i \in DOMAIN ls |-> IF i < Len(ls) THEN Append(ls[i], "n") ELSE ls[i]])

IsCharBoundary(l, i) == i = Len(l) \/ l[i + 1] # "C"
Inserted(l, i, s) == SubSeq(l, 1, i) \o s \o SubSeq(l, i + 1, Len(l))

\* String::remove of the character that starts at byte i.
Removed(l, i) ==
  LET width == IF l[i + 1] = "L" THEN 2 ELSE 1 IN
  SubSeq(l, 1, i) \o SubSeq(l, i + width + 1, Len(l))

\* Line i split in two, or joined with the one after it (from 1).
Split(ls, i, col) ==
  SubSeq(ls, 1, i - 1) \o <<SubSeq(ls[i], 1, col), SubSeq(ls[i], col + 1, Len(ls[i]))>>
    \o SubSeq(ls, i + 1, Len(ls))
Joined(ls, i) ==
  SubSeq(ls, 1, i - 1) \o <<ls[i] \o ls[i + 1]>> \o SubSeq(ls, i + 2, Len(ls))
=============================================================================
