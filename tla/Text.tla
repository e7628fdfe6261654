-------------------------------- MODULE Text --------------------------------
(***************************************************************************)
(* How the scanners of the code walk over a text: a sequence of characters *)
(* in which a position past either end reads as "end", the way the code    *)
(* reads a terminating NUL or checks its length.  A stretch <<b, e>> holds *)
(* the characters from b up to, and without, e.                            *)
(***************************************************************************)
EXTENDS Integers, Sequences, SequencesExt, FiniteSetsExt

At(s, i) == IF i \in DOMAIN s THEN s[i] ELSE "end"

\* Where the run of a class of characters that starts at k ends: the position
\* after its last character, k when there is none.
RunEnd(s, k, class) == Min({j \in k..(Len(s) + 1) : At(s, j) \notin class})

\* Where s first has a character of a class from k on: its end when it has none.
Until(s, k, class) == Min({j \in k..(Len(s) + 1) : At(s, j) \in class \cup {"end"}})

\* The first of several ends, 0 when there is none.
First(ends) == IF ends = << >> THEN 0 ELSE Head(ends)

\* s without what comes before i, or from end on.
Slice(s, i, end) == SubSeq(s, i, end - 1)

\* s with a mark in the place of each of several stretches.
Replace(s, stretches, mark) ==
  LET Replaced[n \in 0..Len(s)] ==
        IF n = 0 THEN << >>
        ELSE IF \E p \in stretches : p[1] < n /\ n < p[2] THEN Replaced[n - 1]
        ELSE Append(Replaced[n - 1], IF \E p \in stretches : p[1] = n THEN mark ELSE s[n])
  IN Replaced[Len(s)]

-----------------------------------------------------------------------------
(***************************************************************************)
(* What a regular expression finds: of the stretches of its shape the      *)
(* longest from each start, and of these, left to right, the ones that do  *)
(* not begin inside one already taken.                                     *)
(***************************************************************************)
Longest(stretches) == {p \in stretches : \A q \in stretches : q[1] = p[1] => q[2] <= p[2]}

LeftToRight(stretches) ==
  CHOOSE taken \in SUBSET stretches :
    \A p \in stretches : p \in taken <=> ~\E q \in taken : q[1] < p[1] /\ p[1] < q[2]

\* The stretches of s that have a shape.
Shaped(s, Shape(_)) ==
  {p \in (1..Len(s)) \X (2..(Len(s) + 1)) : p[1] < p[2] /\ Shape(Slice(s, p[1], p[2]))}

\* Neither in the middle of a word nor touching one.
StandsAlone(s, p, word) == At(s, p[1] - 1) \notin word /\ At(s, p[2]) \notin word
=============================================================================
