---------------------------- MODULE Configuration ----------------------------
(***************************************************************************)
(* src/configuration.c: what the settings are read for.  A DSN is a text   *)
(* whose "/events" is one character, and so is each of the other endpoints;*)
(* << >> stands for NULL.                                                  *)
(***************************************************************************)
EXTENDS Text

HexValue == <<"0", "1", "2", "3", "4", "5", "6", "7", "8", "9", "a", "b", "c", "d", "e", "f">>

\* The bytes the texts hold that a key has to have encoded, and their codes.
Reserved == [at |-> "@", percent |-> "%", colon |-> ":", slash |-> "/"]
CodeOf == [at |-> <<"4", "0">>, percent |-> <<"2", "5">>, colon |-> <<"3", "a">>, slash |-> <<"2", "f">>]

\* set_privacy_allowed_fields_from_list: the entries between commas, without
\* the blanks around them, and without the blank ones.  Of the entry that
\* starts at start: its end, and where it begins and ends without the blanks.
EntryEnd(list, start) == Min({i \in start..(Len(list) + 1) : At(list, i) \in {",", "end"}})
EntryFrom(list, start) ==
  LET end == EntryEnd(list, start) IN Min({i \in start..end : i = end \/ list[i] # " "})

EntryTo(list, start) ==
  LET from == EntryFrom(list, start)
  IN Max({i \in from..EntryEnd(list, start) : i = from \/ list[i - 1] # " "})

FieldsFromList(list) ==
  LET From[start \in 1..(Len(list) + 1)] ==
        LET end == EntryEnd(list, start)
            from == EntryFrom(list, start)
            to == EntryTo(list, start)
        IN (IF to > from THEN <<Slice(list, from, to)>> ELSE << >>)
             \o (IF At(list, end) = "end" THEN << >> ELSE From[end + 1])
  IN IF list = << >> THEN << >> ELSE From[1]

\* split_dsn: where the parts start, or none of them.
NoDsn == [schemeEnd |-> 0, userStart |-> 0, hostStart |-> 0]

\* The last "@" ends the user.
MutSplitDsn(dsn) ==
  LET separators == {i \in DOMAIN dsn : dsn[i] = ":" /\ At(dsn, i + 1) = "/" /\ At(dsn, i + 2) = "/"}
      schemeEnd == Min(separators)
      ats == {i \in (schemeEnd + 3)..Len(dsn) : dsn[i] = "@"}
      hostStart == IF ats = {} THEN schemeEnd + 3 ELSE Max(ats) + 1
  IN IF separators = {} \/ Min(separators) = 1 \/ hostStart > Len(dsn) THEN NoDsn
     ELSE [schemeEnd |-> schemeEnd, userStart |-> schemeEnd + 3, hostStart |-> hostStart]

SplitDsn(dsn) ==
  LET separators == {i \in DOMAIN dsn : dsn[i] = ":" /\ At(dsn, i + 1) = "/" /\ At(dsn, i + 2) = "/"}
      schemeEnd == Min(separators)
      ats == {i \in (schemeEnd + 3)..Len(dsn) : dsn[i] = "@"}
      hostStart == IF ats = {} THEN schemeEnd + 3 ELSE Min(ats) + 1
  IN IF separators = {} \/ Min(separators) = 1 \/ hostStart > Len(dsn) THEN NoDsn
     ELSE [schemeEnd |-> schemeEnd, userStart |-> schemeEnd + 3, hostStart |-> hostStart]

\* The byte with a code; a code of no other byte of the texts is met.
Decoded(hi, lo) == Reserved[CHOOSE name \in DOMAIN CodeOf : CodeOf[name] = <<hi, lo>>]

PercentDecode(s) ==
  LET Rest[i \in 1..(Len(s) + 3)] ==
        IF i > Len(s) THEN << >>
        ELSE IF s[i] = "%" /\ i + 2 <= Len(s) /\ {s[i + 1], s[i + 2]} \subseteq ToSet(HexValue)
          THEN <<Decoded(s[i + 1], s[i + 2])>> \o Rest[i + 3]
        ELSE <<s[i]>> \o Rest[i + 1]
  IN Rest[1]

ApiKey(dsn) ==
  LET parts == SplitDsn(dsn)
  IN IF parts = NoDsn THEN << >> ELSE PercentDecode(Slice(dsn, parts.userStart, parts.hostStart - 1))

IngestionUrl(dsn) ==
  LET parts == SplitDsn(dsn)
  IN IF parts = NoDsn THEN << >>
     ELSE SubSeq(dsn, 1, parts.schemeEnd + 2) \o SubSeq(dsn, parts.hostStart, Len(dsn))

\* Where samples, metrics, changes and spans go.
Endpoint(dsn, replacement) ==
  LET url == IngestionUrl(dsn)
  IN IF url # << >> /\ Last(url) = "/events" THEN Append(Front(url), replacement) ELSE url

EnvironmentIsEnabled(config) == config.environment \in config.enabledEnvironments

IsEnabled(config) == ApiKey(config.dsn) # << >> /\ EnvironmentIsEnabled(config)

HostMatchesTarget(host, target) ==
  LET bare == IF At(target, 1) = "." THEN Tail(target) ELSE target
      before == Len(host) - Len(bare)
  IN /\ bare # << >> /\ before >= 0
     /\ SubSeq(host, before + 1, Len(host)) = bare
     /\ before = 0 \/ host[before] = "."

\* listed is FALSE while the targets are NULL, which stands for every host.
ShouldPropagateTrace(config, host) ==
  /\ config.propagate
  /\ \/ ~config.listed
     \/ host # << >> /\ \E target \in config.targets : HostMatchesTarget(host, target)

-----------------------------------------------------------------------------
(***************************************************************************)
(* What the readers have to agree with.                                    *)
(***************************************************************************)

\* A key the way it is written into a DSN.
Code(c) ==
  IF \E name \in DOMAIN Reserved : Reserved[name] = c
    THEN <<"%">> \o CodeOf[CHOOSE name \in DOMAIN Reserved : Reserved[name] = c]
    ELSE <<c>>
Encoded(key) ==
  LET From[i \in 1..(Len(key) + 1)] ==
        IF i > Len(key) THEN << >> ELSE Code(key[i]) \o From[i + 1]
  IN From[1]

\* A key is read back from a DSN as it was before it was encoded, no part of
\* it stays in the address, an "@" in the path does not move it, each kind of
\* payload has an address of its own, and with an empty key nothing is enabled
\* (configuration.c:204-375).
DsnReadsBack(key) ==
  \A path \in {<<"/events">>, <<"/", "@", "/events">>} :
    LET address == <<"s", ":", "/", "/">>  rest == <<"h">> \o path
        dsn == address \o Encoded(key) \o <<"@">> \o rest
        config == [dsn |-> dsn, environment |-> "production", enabledEnvironments |-> {"production", "staging"}]
    IN /\ ApiKey(dsn) = key
       /\ IngestionUrl(dsn) = address \o rest
       /\ Endpoint(dsn, "/spans") = address \o <<"h">> \o Front(path) \o <<"/spans">>
       /\ IsEnabled(config) /\ ~IsEnabled([config EXCEPT !.dsn = address \o <<"@">> \o rest])

\* A name is a field of the list exactly when it stands in it with nothing but
\* blanks between it and a comma, or an end of the list, on either side
\* (configuration.c:32-61): a field that strict privacy lets through is one
\* the list names as a whole.
FieldsStandInTheList(list) ==
  LET comma == {0, Len(list) + 1} \cup {i \in DOMAIN list : list[i] = ","}
      named == {p \in (1..Len(list)) \X (2..(Len(list) + 1)) :
                  /\ p[1] < p[2] /\ list[p[1]] # " " /\ list[p[2] - 1] # " "
                  /\ "," \notin ToSet(Slice(list, p[1], p[2]))
                  /\ \E before \in comma, after \in comma :
                       /\ before < p[1] /\ p[2] <= after
                       /\ \A i \in ((before + 1)..(p[1] - 1)) \cup (p[2]..(after - 1)) : list[i] = " "}
  IN ToSet(FieldsFromList(list)) = {Slice(list, p[1], p[2]) : p \in named}

\* The labels of a host, last first.
Labels(host) ==
  LET UpTo[e \in 0..Len(host)] ==
        LET dot == Max({0} \cup {i \in 1..e : host[i] = "."})
        IN <<Slice(host, dot + 1, e + 1)>> \o (IF dot = 0 THEN << >> ELSE UpTo[dot - 1])
  IN UpTo[Len(host)]

\* A header is sent to the targets of whichever list is set and to the hosts
\* below them in the tree of names, and to no other host that ends the same;
\* to none when the list is empty (configuration.c:170-188).
TargetsMatchOnLabels(host, hosts) ==
  \A targets \in SUBSET hosts :
    ShouldPropagateTrace([propagate |-> TRUE, listed |-> TRUE, targets |-> targets], host) <=>
      \E target \in targets :
        LET bare == IF target[1] = "." THEN Tail(target) ELSE target
        IN IsPrefix(Labels(bare), Labels(host)) /\ Len(host) >= Len(bare)
=============================================================================
