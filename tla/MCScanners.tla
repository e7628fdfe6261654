------------------------------ MODULE MCScanners ------------------------------
(***************************************************************************)
(* The code's readers of texts, for TLC: each on the texts that grow, piece *)
(* by piece, from a start that brings its rules into reach; and the report *)
(* that a crashing process writes piece by piece and the next one reads.   *)
(***************************************************************************)
EXTENDS CrashReport, BreadcrumbEncoding, SqlStatement, PiiScrubber, StrictPrivacy, Configuration

CONSTANTS MaxText, MaxTokens, MaxPieces, MaxNamePieces  \* bounds: how far texts grow

VARIABLES
  subject,  \* what is read
  input,    \* the text, or the entry
  grown     \* how many pieces it has grown by

reportVars == vars
scanVars == <<subject, input, grown, reportVars>>

-----------------------------------------------------------------------------
QuoteChars == {"'", "\"", "\\", "$", "e", "1", " "}
NumberChars == {"0", "1", "x", "e", "-", ".", "a"}
Phrases ==
  { <<<<"F">>, <<"a">>>>, <<<<"J">>, <<"b", ".", "c">>>>, <<<<"I">>, <<"\"", "a", " ", "b", "\"">>>>,
    <<<<"F">>, <<"S">>>>, <<<<"F">>>>, <<<<"X">>, <<"(">>>>, <<<<"(">>>>, <<<<")">>>>, <<<<"a">>>>,
    <<<<"'", "F", " ", "a", "'">>>> }

Spaced(groups) == FlattenSeq([i \in DOMAIN groups |-> IF i = 1 THEN groups[i] ELSE <<" ">> \o groups[i]])
FourTwo == <<"4", "2", "4", "2">>
CardStarts ==
  { << >>, FourTwo \o <<"-">> \o Spaced(<<FourTwo, FourTwo>>), <<"a">> \o Spaced(<<FourTwo, FourTwo, FourTwo>>),
    <<"3", "7", "8", "2", " ", "8", "2", "2", "4", "6", "3">> }
CardPieces ==
  { <<"4">>, FourTwo, FourTwo \o FourTwo, <<"1", "0", "0", "0", "5">>, <<" ">>, <<"-">>, <<"a">> }

GB == <<"G", "B", "8", "2">>
WEST == <<"W", "E", "S", "T">>
N1234 == <<"1", "2", "3", "4">>
IbanStarts ==
  { <<"A">> \o GB \o WEST \o N1234,
    GB \o WEST \o N1234 \o <<"5", "6", "9", "8", "7", "6", "5", "4", "3">>,
    Spaced(<<GB, WEST, N1234, <<"5", "6", "9", "8">>, <<"7", "6", "5", "4">>>>),
    GB \o <<" ">> \o GB \o WEST \o N1234,
    GB \o WEST \o N1234 \o WEST \o N1234 \o WEST \o N1234 \o WEST,
    Spaced(<<<<"D", "E", "8", "9">>, <<"3", "7", "0", "4">>, <<"0", "0", "4", "4">>, <<"0", "5", "3", "2">>,
             <<"0", "1", "3", "0">>>>) }
IbanPieces == {<<"2">>, <<"3">>, <<"0">>, <<" ">>, <<"a">>, <<"3", "2">>, WEST}

Ones(n) == [i \in 1..n |-> "1"]
MessageStarts ==
  { << >>, <<"a", "@", "a", ".", "a">>, <<"a", "@", "a", ".", "a", "a", ".">>, <<"0", "x", "1", "a">>,
    <<"'", "a">>, <<"\"", "a", "@">>,
    Ones(8) \o <<"-">> \o Ones(4) \o <<"-">> \o Ones(4) \o <<"-">> \o Ones(4) \o <<"-">> \o Ones(11) }
MessageChars == {"0", "a", ".", "@", "\"", "'", "-", "x", "newline"}

NameStarts ==
  {<<"/">>, <<"GET", " ">>, <<"GET", " ", "a", ":", "/", "/">>, <<"GET", " ", "a", ":", "/", "/", "a", "@">>}
NameChars == {"/", "?", "@", ":", "1", ".", "a", " ", "localhost", "*"}

KeyChars == {"a", "@", "%", "4", "0", ":", "/"}
HostChars == {"a", "b", "."}
ListChars == {"a", "b", " ", ","}
Targets == {<<"a">>, <<"a", ".", "b">>, <<".", "b">>, <<"b", ".", "a", ".", "b">>}

EntryTexts(lengths) ==
  [length : lengths, growth : {1, 2, 6}, overhang : {0}] \cup [length : lengths, growth : {1}, overhang : {3}]
Pair(key, value) ==
  [key |-> [length |-> key, growth |-> 6, overhang |-> 0], value |-> [length |-> value, growth |-> 1, overhang |-> 3]]
Entries ==
  [message : EntryTexts({0, 16, 37, 300, 301, 5000}),
   category : EntryTexts({6, 200}), level : EntryTexts({6, 64}),
   pairs : {<< >>, <<Pair(2, 2)>>, <<Pair(9, 300), Pair(64, 400), Pair(1, 0)>>}]

Starts ==
  [sql |-> {<< >>}, numbers |-> {<< >>, <<"1", "e", "-">>}, phrases |-> {<< >>}, cards |-> CardStarts, ibans |-> IbanStarts,
   messages |-> MessageStarts, names |-> NameStarts, keys |-> {<<"a">>, <<"@">>}, hosts |-> {<< >>},
   lists |-> {<< >>}, entries |-> Entries]

One(chars) == {<<c>> : c \in chars}
Pieces ==
  [sql |-> One(QuoteChars), numbers |-> One(NumberChars), phrases |-> One(Phrases), cards |-> CardPieces,
   ibans |-> IbanPieces, messages |-> One(MessageChars), names |-> One(NameChars), keys |-> One(KeyChars),
   hosts |-> One(HostChars), lists |-> One(ListChars), entries |-> {}]

MaxGrowth ==
  [sql |-> MaxText, numbers |-> MaxText, phrases |-> MaxTokens, cards |-> MaxPieces, ibans |-> MaxPieces,
   messages |-> MaxPieces, names |-> MaxNamePieces, keys |-> MaxNamePieces, hosts |-> MaxText, lists |-> MaxText,
   entries |-> 0]

-----------------------------------------------------------------------------
\* Nothing to report.
NoReport ==
  /\ frames = 0 /\ crumbs = 0 /\ traced = FALSE
  /\ written = 0 /\ file = << >> /\ phase = "dead" /\ cuts = 0

ScanInit ==
  \/ subject = "report" /\ input = << >> /\ grown = 0 /\ Init
  \/ /\ subject \in DOMAIN Starts /\ input \in Starts[subject] /\ grown = 0
     /\ NoReport

Grow ==
  /\ subject # "report" /\ grown < MaxGrowth[subject]
  /\ \E piece \in Pieces[subject] : input' = input \o piece
  /\ grown' = grown + 1
  /\ UNCHANGED <<subject, reportVars>>

ReportStep == subject = "report" /\ (WriteAll \/ WriteShort \/ Die) /\ UNCHANGED <<subject, input, grown>>

ScanNext == Grow \/ ReportStep

ScanSpec == ScanInit /\ [][ScanNext]_scanVars

-----------------------------------------------------------------------------
\* What a crashing process wrote is read back whole (CrashReport).
CrashReportsReadBack == subject = "report" => ReportReadsBackWhole

\* Every breadcrumb is kept and read back as one line (BreadcrumbEncoding).
EntriesAreKept == subject = "entries" => EntryIsKeptAndReadBack(input)

\* No literal of a statement is in what is sent (SqlStatement).
SqlLiteralsNeverSurvive == subject \in {"sql", "numbers"} => LiteralsNeverSurvive(input)

\* The tables sent are the ones the statement names (SqlStatement).
SqlRelationsMatch == subject = "phrases" => RelationsMatchTheRule(FlattenSeq(input))

\* IBANs are found by their shape and their check digits (PiiScrubber).
IbansAreScrubbed == subject = "ibans" => IbansMatchTheRule(input)

\* Card numbers are found by their groups and their check digit (PiiScrubber).
CardsAreScrubbed == subject = "cards" => CardsMatchTheRule(input)

\* Strict privacy's fingerprint is taken of a message without its varying
\* parts (StrictPrivacy).
MessagesAreNormalized == subject = "messages" => NormalizesByTheRules(input)

\* Names of spans and transactions keep no part of a path that may identify
\* somebody (StrictPrivacy).
NamesAreCut == subject = "names" => NamesHideTheRest(input)

\* The DSN, the targets and the list of fields are read as they are meant
\* (Configuration).
SettingsReadBack ==
  /\ subject = "keys" => DsnReadsBack(input)
  /\ subject = "hosts" => TargetsMatchOnLabels(input, Targets)
  /\ subject = "lists" => FieldsStandInTheList(input)
=============================================================================
