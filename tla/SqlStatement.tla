----------------------------- MODULE SqlStatement -----------------------------
(***************************************************************************)
(* src/sql_statement.c: a statement's literals are masked, and the names   *)
(* of the objects it touches are read from what is left.                   *)
(*                                                                         *)
(* A text is a sequence of characters and an end is the position after the *)
(* last character, 0 standing for the code's -1.  Of the letters the rules *)
(* name (prefixes, exponents, radixes) one case each is in the sets below; *)
(* a keyword is one letter long, so that short texts hold statements.      *)
(***************************************************************************)
EXTENDS Text

CONSTANTS
  MaxSqlLength,  \* MAX_SQL_LENGTH
  MaxNames       \* MAX_NAMES

ASSUME SqlAssumption == MaxSqlLength \in Nat /\ MaxNames \in Nat

SqlDigit == {"0", "1", "2"}
SqlLetter == {"a", "b", "c", "e", "n", "u", "x"}
            \cup {"F", "J", "I", "C", "S", "V", "X", "P", "N"}   \* the keywords
SqlWord == SqlLetter \cup SqlDigit \cup {"_"}
SqlSpace == {" "}

-----------------------------------------------------------------------------
\* The opening quote of the string literal that starts at i, or 0.
StringQuote(s, i) ==
  LET prefixed == IF s[i] \in {"e", "x", "n", "b"} THEN i + 1
                  ELSE IF s[i] = "u" /\ At(s, i + 1) = "&" THEN i + 2
                  ELSE 0
  IN IF s[i] = "'" THEN i
     ELSE IF At(s, i - 1) \in SqlWord \cup {"$"} THEN 0
     ELSE IF At(s, prefixed) = "'" THEN prefixed
     ELSE 0

\* A reader that stops at the first quote.
MutQuotedEnd(s, open) ==
  Min({j \in (open + 1)..Len(s) : s[j] = s[open]} \cup {Len(s)}) + 1

QuotedEnd(s, open) ==
  LET End[j \in (open + 1)..(Len(s) + 2)] ==
        IF j > Len(s) THEN Len(s) + 1
        ELSE IF s[j] = "\\" THEN End[j + 2]
        ELSE IF s[j] # s[open] THEN End[j + 1]
        ELSE IF At(s, j + 1) = s[open] THEN End[j + 2]
        ELSE j + 1
  IN End[open + 1]

FractionEnd(s, dot) ==
  IF At(s, dot) = "." /\ At(s, dot + 1) \in SqlDigit THEN RunEnd(s, dot + 1, SqlDigit) ELSE 0

ExponentEnd(s, i) ==
  LET k == IF At(s, i + 1) \in {"+", "-"} THEN i + 2 ELSE i + 1
  IN IF At(s, i) = "e" /\ At(s, k) \in SqlDigit THEN RunEnd(s, k, SqlDigit) ELSE 0

RadixEnd(s, i) ==
  LET digits == IF At(s, i + 1) = "x" THEN SqlDigit \cup {"a", "b", "c", "e"}
                ELSE IF At(s, i + 1) = "b" THEN {"0", "1"}
                ELSE {}
  IN IF s[i] = "0" /\ At(s, i + 2) \in digits THEN RunEnd(s, i + 2, digits) ELSE 0

\* The readings of a number at i, longest first: the first one that no word
\* character follows.
NumberEnd(s, i) ==
  LET intEnd == RunEnd(s, i, SqlDigit)
      fraction == FractionEnd(s, intEnd)
      whole == IF intEnd > i THEN intEnd ELSE 0
      readings == <<RadixEnd(s, i), ExponentEnd(s, fraction), fraction, ExponentEnd(s, whole), whole>>
      standing == {k \in DOMAIN readings : readings[k] # 0 /\ At(s, readings[k]) \notin SqlWord}
  IN IF standing = {} THEN 0 ELSE readings[Min(standing)]

\* $tag$ ... $tag$, to the end of the text when it is never closed.
DollarEnd(s, i) ==
  LET j == RunEnd(s, i + 1, SqlLetter \cup {"_"})
      tag == SubSeq(s, i, j)
      closers == {k \in (j + 1)..(Len(s) - Len(tag) + 1) : SubSeq(s, k, k + Len(tag) - 1) = tag}
  IN IF At(s, j) # "$" THEN 0
     ELSE IF closers = {} THEN Len(s) + 1
     ELSE Min(closers) + Len(tag)

\* Where the literal that starts at i ends, or 0.
LiteralEnd(s, i, doubleQuoted) ==
  LET quote == IF StringQuote(s, i) = 0 /\ doubleQuoted /\ s[i] = "\"" THEN i ELSE StringQuote(s, i)
  IN IF quote # 0 THEN QuotedEnd(s, quote)
     ELSE IF s[i] = "$" THEN DollarEnd(s, i)
     ELSE IF s[i] \in SqlDigit \cup {"."} /\ At(s, i - 1) \notin SqlWord \cup {"$", "."}
       THEN NumberEnd(s, i)
     ELSE 0

\* Where the cut to MAX_SQL_LENGTH puts its "...".
Ellipsis == -1

\* forgeops_sql_mask_for_system: the positions that are copied, 0 where a mask
\* stands.  A blank statement has none.
Mask(s, doubleQuoted) ==
  LET Scan[i \in 1..(Len(s) + 1)] ==
        IF i > Len(s) THEN << >>
        ELSE LET end == LiteralEnd(s, i, doubleQuoted)
             IN IF end = 0 THEN <<i>> \o Scan[i + 1] ELSE <<0>> \o Scan[end]
      whole == Scan[1]
  IN IF ToSet(s) \subseteq SqlSpace THEN << >>
     ELSE IF Len(whole) <= MaxSqlLength THEN whole
     ELSE Append(SubSeq(whole, 1, MaxSqlLength), Ellipsis)

\* The masked statement itself, of a system without double quoted strings.
MaskedText(s) ==
  LET mask == Mask(s, FALSE)
  IN [i \in DOMAIN mask |-> IF mask[i] = Ellipsis THEN "..." ELSE IF mask[i] = 0 THEN "?" ELSE s[mask[i]]]

-----------------------------------------------------------------------------
(***************************************************************************)
(* forgeops_sql_objects_json, on the tokens of a masked statement.         *)
(***************************************************************************)
BareChar == SqlWord \cup {"$", "#", "@"}

NamePartEnd(s, i) ==
  LET closers == {j \in (i + 1)..Len(s) : s[j] = s[i]}   \* "[" closes as a quote does
  IN IF At(s, i) \in BareChar THEN RunEnd(s, i, BareChar)
     ELSE IF At(s, i) = "\"" /\ closers # {} /\ Min(closers) > i + 1 THEN Min(closers) + 1
     ELSE 0

NameEnd(s, i) ==
  LET End[end \in 0..(Len(s) + 1)] ==
        LET next == NamePartEnd(s, end + 1)
        IN IF end # 0 /\ At(s, end) = "." /\ next # 0 THEN End[next] ELSE end
  IN End[NamePartEnd(s, i)]

Token(text, name) == [text |-> text, name |-> name]

Tokenize(s) ==
  LET Rest[i \in 1..(Len(s) + 1)] ==
        IF i > Len(s) THEN << >>
        ELSE IF s[i] \in SqlSpace THEN Rest[i + 1]
        ELSE LET end == NameEnd(s, i)
             IN IF end = 0 THEN <<Token(<<s[i]>>, FALSE)>> \o Rest[i + 1]
                ELSE <<Token(SubSeq(s, i, end - 1), TRUE)>> \o Rest[end]
  IN Rest[1]

IsOneOf(tokens, i, words) == i \in DOMAIN tokens /\ tokens[i].name /\ tokens[i].text \in words
IsSign(tokens, i, sign) == i \in DOMAIN tokens /\ tokens[i].text = <<sign>>

From == {<<"F">>}               \* FROM
FromOrJoin == From \cup {<<"J">>}
RelationKeywords == FromOrJoin \cup {<<"I">>}      \* INTO, UPDATE, TABLE
ProcedureKeywords == {<<"C">>}                     \* CALL, EXEC, EXECUTE, PERFORM
NotProcedureNames == {<<"P">>}                     \* IMMEDIATE, FUNCTION, PROCEDURE
KeywordsNotNames == {<<"S">>, <<"V">>}             \* SELECT, VALUES, SET, WHERE, ...
FunctionLikeSkipped == {<<"X">>}                   \* EXTRACT, SUBSTRING, TRIM, OVERLAY
Builtins == {<<"N">>}                              \* COUNT, SUM, NOW, ...
Operations == {<<"S">>, <<"C">>}                   \* SELECT, CALL, INSERT, ...

\* The token that closes the call at i, when no other parenthesis comes first.
CallClose(tokens, i) ==
  LET parens == {j \in (i + 2)..Len(tokens) : IsSign(tokens, j, "(") \/ IsSign(tokens, j, ")")}
  IN IF parens # {} /\ IsSign(tokens, Min(parens), ")") THEN Min(parens) ELSE 0

\* Every token is kept.
MutKeptTokens(tokens) == tokens

KeptTokens(tokens) ==
  LET Rest[i \in 1..(Len(tokens) + 1)] ==
        IF i > Len(tokens) THEN << >>
        ELSE IF IsOneOf(tokens, i, FunctionLikeSkipped) /\ IsSign(tokens, i + 1, "(")
                  /\ CallClose(tokens, i) # 0 THEN Rest[CallClose(tokens, i) + 1]
        ELSE <<tokens[i]>> \o Rest[i + 1]
  IN Rest[1]

FirstPart(name) == SubSeq(name, 1, RunEnd(name, 1, BareChar) - 1)

\* CALL name: the name is taken and not looked at again.
CalledNames(kept) ==
  LET Rest[i \in 1..(Len(kept) + 2)] ==
        IF i >= Len(kept) THEN << >>
        ELSE IF IsOneOf(kept, i, ProcedureKeywords) /\ kept[i + 1].name
                  /\ FirstPart(kept[i + 1].text) \notin NotProcedureNames
          THEN <<kept[i + 1].text>> \o Rest[i + 2]
        ELSE Rest[i + 1]
  IN Rest[1]

\* FROM name and the like: [name, call], call when it is a function's call.
RelationMatches(kept) ==
  LET Rest[i \in 1..(Len(kept) + 2)] ==
        IF i >= Len(kept) THEN << >>
        ELSE IF ~(IsOneOf(kept, i, RelationKeywords) /\ kept[i + 1].name) THEN Rest[i + 1]
        ELSE IF kept[i + 1].text \in KeywordsNotNames THEN Rest[i + 2]
        ELSE <<[name |-> kept[i + 1].text,
                call |-> IsOneOf(kept, i, FromOrJoin) /\ IsSign(kept, i + 2, "(")]>> \o Rest[i + 2]
  IN Rest[1]

NamesOf(matches, call) ==
  LET chosen == SelectSeq(matches, LAMBDA m : m.call = call)
  IN [i \in DOMAIN chosen |-> chosen[i].name]

\* SELECT name(...) with no FROM.
SelectedFunction(kept) ==
  IF /\ IsOneOf(kept, 1, {<<"S">>}) /\ Len(kept) >= 3 /\ kept[2].name
     /\ IsSign(kept, 3, "(") /\ kept[2].text \notin Builtins
     /\ ~\E i \in DOMAIN kept : IsOneOf(kept, i, From)
    THEN <<kept[2].text>> ELSE << >>

CleanList(names) ==
  FoldLeft(LAMBDA kept, name :
             IF name \in ToSet(kept) \/ Len(kept) >= MaxNames THEN kept ELSE Append(kept, name),
           << >>, names)

Operation(kept) ==
  LET word == IF kept = << >> THEN << >>
              ELSE SubSeq(kept[1].text, 1, RunEnd(kept[1].text, 1, SqlWord) - 1)
  IN IF word \in Operations THEN word ELSE << >>

SqlObjects(tokens) ==
  LET kept == KeptTokens(tokens)
      matches == RelationMatches(kept)
  IN [operation  |-> Operation(kept),
      procedures |-> CleanList(CalledNames(kept) \o NamesOf(matches, TRUE) \o SelectedFunction(kept)),
      relations  |-> CleanList(NamesOf(matches, FALSE))]

-----------------------------------------------------------------------------
(***************************************************************************)
(* What the scanners have to agree with: literals read one character at a  *)
(* time, without looking ahead, and names picked by a rule on positions.   *)
(***************************************************************************)
LexStep(s, doubleQuoted, state, i) ==
  LET c == s[i]
      code == IF c = "'" \/ (doubleQuoted /\ c = "\"") THEN [state EXCEPT !.mode = "string", !.quote = c]
              ELSE IF c = "$" THEN [state EXCEPT !.mode = "tag", !.tag = i]
              ELSE [state EXCEPT !.mode = "code"]
      tag == Slice(s, state.tag, state.body)
      closes == i - Len(tag) >= state.body - 1 /\ SubSeq(s, i - Len(tag) + 1, i) = tag
  IN CASE state.mode = "code" -> code
       [] state.mode = "string" ->
            [state EXCEPT !.mode = IF c = "\\" THEN "escape" ELSE IF c = state.quote THEN "closing" ELSE @]
       [] state.mode = "escape" -> [state EXCEPT !.mode = "string"]
       [] state.mode = "closing" -> IF c = state.quote THEN [state EXCEPT !.mode = "string"] ELSE code
       [] state.mode = "tag" ->
            IF c = "$" THEN [state EXCEPT !.mode = "body", !.body = i + 1]
            ELSE IF c \in SqlLetter \cup {"_"} THEN state
            ELSE code
       [] state.mode = "body" -> IF closes THEN [state EXCEPT !.mode = "code"] ELSE state

\* The reader's state after each character: its mode, the quote that opened a
\* string, where a tag and the body after it start.
LexStart == [mode |-> "code", quote |-> "'", tag |-> 0, body |-> 0]
Lex(s, doubleQuoted) ==
  LET After[n \in 0..Len(s)] ==
        IF n = 0 THEN LexStart ELSE LexStep(s, doubleQuoted, After[n - 1], n)
  IN After

\* The positions inside a string, after its opening quote or tag.
LiteralContent(s, doubleQuoted) ==
  {i \in DOMAIN s :
     LET before == Lex(s, doubleQuoted)[i - 1]
     IN before.mode \in {"string", "escape", "body"} \/ (before.mode = "closing" /\ s[i] = before.quote)}

\* From b up to e, and at least one.
AreDigits(s, b, e, digits) == b < e /\ \A k \in b..(e - 1) : s[k] \in digits

\* An integer up to m and a fraction up to f, one of them at least, and an
\* exponent; or a radix and its digits.
IsNumber(s, b, e) ==
  \/ \E m \in b..e : \E f \in m..e :
       /\ m = b \/ AreDigits(s, b, m, SqlDigit)
       /\ f = m \/ (At(s, m) = "." /\ AreDigits(s, m + 1, f, SqlDigit))
       /\ f > b
       /\ \/ f = e
          \/ /\ At(s, f) = "e"
             /\ \/ AreDigits(s, f + 1, e, SqlDigit)
                \/ At(s, f + 1) \in {"+", "-"} /\ AreDigits(s, f + 2, e, SqlDigit)
  \/ s[b] = "0" /\ At(s, b + 1) = "x" /\ AreDigits(s, b + 2, e, SqlDigit \cup {"a", "b", "c", "e"})
  \/ s[b] = "0" /\ At(s, b + 1) = "b" /\ AreDigits(s, b + 2, e, {"0", "1"})

\* The numbers that stand alone: not part of a word, of a $1 placeholder or of
\* another number's fraction.
StandingNumbers(s) ==
  {p \in (1..Len(s)) \X (2..(Len(s) + 1)) :
    /\ p[1] < p[2] /\ IsNumber(s, p[1], p[2])
    /\ At(s, p[1] - 1) \notin SqlWord \cup {"$", "."} /\ At(s, p[2]) \notin SqlWord}

\* The positions of the ones a reader meets from left to right: in 1e-2.5 the
\* 1e-2, and not the 2.5 that begins inside it.
LoneNumbers(s) ==
  UNION {p[1]..(p[2] - 1) : p \in LeftToRight(Longest(StandingNumbers(s)))}

\* No character of a literal is copied into the masked statement, whatever
\* quotes, escapes and tags surround it, and wherever the statement was cut
\* off (sql_statement.c:24-58,117-177): every statement that ends in the
\* middle of a literal is one of the texts.  A number that stands alone is
\* masked whole, however it can be read (sql_statement.c:82-115).
LiteralsNeverSurvive(s) ==
  \A doubleQuoted \in BOOLEAN :
    ToSet(Mask(s, doubleQuoted)) \cap (LiteralContent(s, doubleQuoted) \cup LoneNumbers(s)) = {}

\* What a word is to the rule: a literal is a sign, whatever it holds.
WordToken(word) ==
  IF Head(word) = "'" THEN Token(<<"?">>, FALSE) ELSE Token(word, Head(word) \notin {"(", ")"})

\* The tokens of calls whose FROM names no table.
FlatCalls(tokens) ==
  UNION {call[1]..call[2] : call \in {p \in (DOMAIN tokens) \X (DOMAIN tokens) :
    /\ IsOneOf(tokens, p[1], FunctionLikeSkipped) /\ p[1] + 1 < p[2]
    /\ IsSign(tokens, p[1] + 1, "(") /\ IsSign(tokens, p[2], ")")
    /\ \A k \in (p[1] + 2)..(p[2] - 1) : ~IsSign(tokens, k, "(") /\ ~IsSign(tokens, k, ")")}}

\* The names of tables in a statement: a keyword's next word, unless that
\* keyword is itself the word of the keyword before it.
TableNames(kept) ==
  LET pairs == {i \in DOMAIN kept : IsOneOf(kept, i, RelationKeywords)
                                      /\ i < Len(kept) /\ kept[i + 1].name}
      taken == CHOOSE P \in SUBSET pairs : \A i \in pairs : i \in P <=> i - 1 \notin P
  IN {kept[i + 1].text : i \in {j \in taken :
        /\ kept[j + 1].text \notin KeywordsNotNames
        /\ ~(IsOneOf(kept, j, FromOrJoin) /\ IsSign(kept, j + 2, "("))}}

\* The relations sent are the words that the rule names, each once, at most
\* MAX_NAMES of them; a FROM in a literal or inside EXTRACT(...) names none
\* and costs none (sql_statement.c:275-295,338-365,413-468).
RelationsMatchTheRule(words) ==
  LET statement == FlattenSeq([i \in DOMAIN words |-> words[i] \o <<" ">>])
      tokens == [i \in DOMAIN words |-> WordToken(words[i])]
      flat == FlatCalls(tokens)
      rest == SelectSeq([i \in DOMAIN tokens |-> i], LAMBDA i : i \notin flat)
  IN \A sent \in {Tokenize(MaskedText(statement))}, tables \in {TableNames([i \in DOMAIN rest |-> tokens[rest[i]]])} :
       \A relations \in {SqlObjects(sent).relations} :
         /\ Cardinality(ToSet(relations)) = Len(relations)
         /\ ToSet(relations) \subseteq tables
         /\ Len(relations) = Min({Cardinality(tables), MaxNames})
=============================================================================
