----------------------------- MODULE PiiScrubber -----------------------------
(***************************************************************************)
(* src/pii_scrubber.c: the IBANs and card numbers of a text, found by hand *)
(* the way a backtracking regular expression finds them, and replaced.  A  *)
(* scanner returns the stretches it replaces.  All lengths are the code's. *)
(***************************************************************************)
EXTENDS Text

Digits == <<"0", "1", "2", "3", "4", "5", "6", "7", "8", "9">>
UpperLetters == <<"A", "B", "C", "D", "E", "F", "G", "H", "I", "J", "K", "L", "M",
                  "N", "O", "P", "Q", "R", "S", "T", "U", "V", "W", "X", "Y", "Z">>
Digit == ToSet(Digits)
Upper == ToSet(UpperLetters)
IbanChar == Upper \cup Digit
PiiWord == IbanChar \cup {"a", "_"}
Separator == {" ", "-"}

\* What a character counts: A is 10, Z is 35.
CharValue(c) == IF c \in Digit THEN (CHOOSE n \in 1..10 : Digits[n] = c) - 1
                ELSE (CHOOSE n \in 1..26 : UpperLetters[n] = c) + 9

WordBoundary(s, pos) == (At(s, pos - 1) \in PiiWord) # (At(s, pos) \in PiiWord)

\* How many groups of four follow one another from pos, 7 at most.
IbanGroups(s, pos) ==
  Max({g \in 0..7 : \A k \in 0..(5 * g - 1) :
         IF k % 5 = 0 THEN At(s, pos + k) = " " ELSE At(s, pos + k) \in IbanChar})

\* Where a last, shorter group may end, longest first.
IbanTailEnds(s, after) ==
  LET tail == Min({RunEnd(s, after + 1, IbanChar) - after - 1, 4})
  IN IF At(s, after) = " " THEN [t \in 1..tail |-> after + 2 + tail - t] ELSE << >>

\* iban_candidate_end: every end a backtracking engine tries, in its order,
\* and the first of them at a word boundary; 0 when there is none.
IbanCandidateEnd(s, start) ==
  LET rest == start + 4
      compact == Min({RunEnd(s, rest, IbanChar) - rest, 30})
      compactEnds == [k \in 1..Max({compact - 10, 0}) |-> rest + compact - k + 1]
      groups == IbanGroups(s, rest)
      groupEnds == FlattenSeq([n \in 1..Max({groups - 1, 0}) |->
                     LET after == rest + 5 * (groups - n + 1)
                     IN IbanTailEnds(s, after) \o <<after>>])
  IN IF \/ At(s, start - 1) \in PiiWord
        \/ At(s, start) \notin Upper \/ At(s, start + 1) \notin Upper
        \/ At(s, start + 2) \notin Digit \/ At(s, start + 3) \notin Digit
       THEN 0
     ELSE First(SelectSeq(compactEnds \o groupEnds, LAMBDA end : WordBoundary(s, end)))

\* is_iban: the remainder by 97, a digit at a time.
IsIban(candidate) ==
  LET compact == SelectSeq(candidate, LAMBDA c : c # " ")
      n == Len(compact)
      Step(remainder, k) ==
        LET value == CharValue(compact[1 + ((k + 3) % n)])
        IN IF value < 10 THEN (remainder * 10 + value) % 97
           ELSE (((remainder * 10 + (value \div 10)) % 97) * 10 + (value % 10)) % 97
  IN /\ n \in 15..34
     /\ FoldLeft(Step, 0, [k \in 1..n |-> k]) = 1

\* The stretches scrub_ibans replaces.
Ibans(s) ==
  LET Rest[i \in 1..(Len(s) + 1)] ==
        IF i > Len(s) THEN {}
        ELSE LET end == IbanCandidateEnd(s, i)
             IN IF end = 0 THEN Rest[i + 1]
                ELSE (IF IsIban(Slice(s, i, end)) THEN {<<i, end>>} ELSE {}) \cup Rest[end]
  IN Rest[1]

-----------------------------------------------------------------------------
HasCardPrefix(d) ==
  LET two == CharValue(d[1]) * 10 + CharValue(d[2])
      three == two * 10 + CharValue(d[3])
      four == three * 10 + CharValue(d[4])
  IN \/ d[1] = "4" \/ two \in (51..55) \cup {34, 37, 65, 36, 62}
     \/ four \in (2221..2720) \cup {6011} \cup (3528..3589)
     \/ three \in (644..649) \cup (300..305)

IsCardNumber(digits) ==
  LET n == Len(digits)
      Luhn(k) == LET value == CharValue(digits[n - k])
                 IN IF k % 2 = 0 THEN value ELSE IF 2 * value > 9 THEN 2 * value - 9 ELSE 2 * value
  IN /\ n \in 13..19 /\ HasCardPrefix(digits)
     /\ FoldLeft(LAMBDA sum, k : sum + Luhn(k - 1), 0, [k \in 1..n |-> k]) % 10 = 0

DigitsOf(s, b, end) == SelectSeq(Slice(s, b, end), LAMBDA c : c \in Digit)

\* Takes the first stretch that is a card number.
MutCardsIn(s, start, end) ==
  LET Rest[g \in start..(end + 1)] ==
        IF g >= end THEN {}
        ELSE LET groupEnds == {k \in (g + 1)..end : k = end \/ s[k] \in Separator}
                 cards == {k \in groupEnds : IsCardNumber(DigitsOf(s, g, k))}
             IN IF cards = {} THEN Rest[Min(groupEnds) + 1] ELSE {<<g, Min(cards)>>} \cup Rest[Min(cards) + 1]
  IN Rest[start]

\* scrub_card_numbers_in: from each group on, the longest stretch of whole
\* groups that is a card number.
CardsIn(s, start, end) ==
  LET Rest[g \in start..(end + 1)] ==
        IF g >= end THEN {}
        ELSE LET groupEnds == {k \in (g + 1)..end : k = end \/ s[k] \in Separator}
                 cards == {k \in groupEnds : IsCardNumber(DigitsOf(s, g, k))}
             IN IF cards = {} THEN Rest[Min(groupEnds) + 1] ELSE {<<g, Max(cards)>>} \cup Rest[Max(cards) + 1]
  IN Rest[start]

\* Where digits joined by single separators end.
JoinedEnd(s, i) ==
  LET End[k \in i..(Len(s) + 1)] ==
        IF At(s, k) \in Digit THEN End[k + 1]
        ELSE IF At(s, k) \in Separator /\ At(s, k + 1) \in Digit THEN End[k + 2]
        ELSE k
  IN End[i]

\* The stretches scrub_card_numbers replaces.  A run that a word character
\* follows ends at its last separator instead, and without one is no run.
Cards(s) ==
  LET Rest[i \in 1..(Len(s) + 1)] ==
        IF i > Len(s) THEN {}
        ELSE IF s[i] \notin Digit \/ At(s, i - 1) \in PiiWord THEN Rest[i + 1]
        ELSE LET joined == JoinedEnd(s, i)
                 separators == {k \in i..(joined - 1) : s[k] \in Separator}
                 end == IF At(s, joined) \notin PiiWord THEN joined
                        ELSE IF separators = {} THEN 0 ELSE Max(separators)
             IN IF end = 0 THEN Rest[joined] ELSE CardsIn(s, i, end) \cup Rest[end]
  IN Rest[1]

-----------------------------------------------------------------------------
\* The pattern [0-9]{4}[ -][0-9]{4}[ -][0-9]{4}[ -][0-9]{1,4}.
FormattedCard(t) ==
  /\ Len(t) \in 16..19
  /\ \A k \in DOMAIN t : t[k] \in IF k \in {5, 10, 15} THEN Separator ELSE Digit

\* apply_pattern with word_bounded set: a match that touches a word is passed
\* over and the search goes on from the next byte.
FormattedCards(s) ==
  LET found == Longest({p \in (1..Len(s)) \X (2..(Len(s) + 1)) : FormattedCard(Slice(s, p[1], p[2]))})
      Rest[i \in 1..(Len(s) + 1)] ==
        LET later == {p \in found : p[1] >= i}
            match == CHOOSE p \in later : \A q \in later : p[1] <= q[1]
        IN IF later = {} THEN {}
           ELSE IF StandsAlone(s, match, PiiWord) THEN {match} \cup Rest[match[2]]
           ELSE Rest[match[1] + 1]
  IN Rest[1]

\* The cards are looked for before the IBANs.
MutScrubString(s) ==
  LET formatted == Replace(s, FormattedCards(s), "[CREDIT CARD]")
      cards == Replace(formatted, Cards(formatted), "[CREDIT CARD]")
  IN Replace(cards, Ibans(cards), "[IBAN]")

\* forgeops_scrub_string, of its fixed patterns the formatted card numbers.
ScrubString(s) ==
  LET ibans == Replace(s, Ibans(s), "[IBAN]")
      formatted == Replace(ibans, FormattedCards(ibans), "[CREDIT CARD]")
  IN Replace(formatted, Cards(formatted), "[CREDIT CARD]")

-----------------------------------------------------------------------------
(***************************************************************************)
(* The rules the scanners stand for.                                       *)
(***************************************************************************)

\* [A-Z]{2}\d{2}, then 11 to 30 characters, or groups of four after a space
\* each and perhaps a shorter one.
IbanHead(t) == Len(t) >= 4 /\ t[1] \in Upper /\ t[2] \in Upper /\ t[3] \in Digit /\ t[4] \in Digit
CompactIban(t) == IbanHead(t) /\ Len(t) \in 15..34 /\ ToSet(t) \subseteq IbanChar
SpacedIban(t) ==
  /\ IbanHead(t) /\ Len(t) \in 14..44 /\ Len(t) % 5 # 0
  /\ \A k \in DOMAIN t : IF k % 5 = 0 THEN t[k] = " " ELSE t[k] \in IbanChar

\* The candidates of a text: from each start the longest compact one, or else
\* the longest spaced one.
IbanCandidates(s) ==
  LET alone(shaped) == Longest({p \in shaped : StandsAlone(s, p, PiiWord)})
      compact == alone(Shaped(s, CompactIban))
      spaced == alone(Shaped(s, SpacedIban))
  IN LeftToRight(compact \cup {p \in spaced : ~\E q \in compact : q[1] = p[1]})

\* The IBAN check by the weights of the digits: the first four characters
\* come last, a letter is two digits.
IbanChecks(t) ==
  LET compact == SelectSeq(t, LAMBDA c : c # " ")
      turned == SubSeq(compact, 5, Len(compact)) \o SubSeq(compact, 1, 4)
      digits == FlattenSeq([k \in DOMAIN turned |->
                  LET v == CharValue(turned[k]) IN IF v < 10 THEN <<v>> ELSE <<v \div 10, v % 10>>])
      Weight[n \in 0..Len(digits)] == IF n = 0 THEN 1 ELSE (10 * Weight[n - 1]) % 97
  IN /\ Len(compact) \in 15..34
     /\ FoldLeft(LAMBDA sum, k : sum + digits[k] * Weight[Len(digits) - k], 0,
                 [k \in DOMAIN digits |-> k]) % 97 = 1

\* Exactly the candidates that pass the check are replaced, each as a whole,
\* and no rule that runs later finds a card number in the middle of one
\* (pii_scrubber.c:140-221,340-358).
IbansMatchTheRule(s) ==
  LET rule == {p \in IbanCandidates(s) : IbanChecks(Slice(s, p[1], p[2]))}
      marks == SelectSeq(ScrubString(s), LAMBDA c : c = "[IBAN]")
  IN Ibans(s) = rule /\ Len(marks) = Cardinality(rule)

\* (?<!\w)\d([ -]?\d)*(?!\w)
CardRun(t) ==
  /\ t[1] \in Digit /\ Last(t) \in Digit
  /\ \A k \in DOMAIN t : t[k] \in Digit \/ (t[k] \in Separator /\ t[k + 1] \in Digit)
CardRuns(s) == LeftToRight(Longest({p \in Shaped(s, CardRun) : StandsAlone(s, p, PiiWord)}))

Doubled == <<0, 2, 4, 6, 8, 1, 3, 5, 7, 9>>
LuhnSum(d) ==
  FoldLeft(LAMBDA sum, k : sum + (IF (Len(d) - k) % 2 = 0 THEN CharValue(d[k]) ELSE Doubled[CharValue(d[k]) + 1]),
           0, [k \in DOMAIN d |-> k])

\* In every run of digits the longest card number that starts at a group is
\* replaced, left to right, and nothing else is: neither part of a group nor
\* a run that is part of a word (pii_scrubber.c:255-338).  A formatted number
\* is found wherever one stands alone, also right after one that does not
\* (pii_scrubber.c:71-88).
CardsMatchTheRule(s) ==
  LET inRun(run) ==
        LeftToRight(Longest({p \in (run[1]..run[2]) \X (run[1]..run[2]) :
          /\ p[1] = run[1] \/ s[p[1] - 1] \in Separator
          /\ p[1] < p[2] /\ s[p[1]] \in Digit /\ (p[2] = run[2] \/ s[p[2]] \in Separator)
          /\ LET d == DigitsOf(s, p[1], p[2])
             IN Len(d) \in 13..19 /\ HasCardPrefix(d) /\ LuhnSum(d) % 10 = 0}))
  IN /\ Cards(s) = UNION {inRun(run) : run \in CardRuns(s)}
     /\ FormattedCards(s) = LeftToRight({p \in Shaped(s, FormattedCard) : StandsAlone(s, p, PiiWord)})
=============================================================================
