---------------------------- MODULE StrictPrivacy ----------------------------
(***************************************************************************)
(* src/strict_privacy.c: what strict privacy makes of a message before it  *)
(* is hashed, and of the names of requests and outbound calls.  The hash   *)
(* itself is opaque.                                                       *)
(*                                                                         *)
(* Texts are over a few characters of each class the code tells apart; the *)
(* words "GET" and "localhost" and the marks that are put in are single    *)
(* characters.  Names hold no newline, and of the bracketed forms of a     *)
(* route parameter the one in braces is modelled.                          *)
(***************************************************************************)
EXTENDS Text

CONSTANTS
  MaxSegment   \* MAX_SEGMENT_CHARACTERS

ASSUME StrictAssumption == MaxSegment \in Nat \ {0}

StrictDigit == {"0", "1"}
HexDigit == StrictDigit \cup {"a", "b"}
Alpha == {"a", "b", "x"}
StrictWord == Alpha \cup StrictDigit \cup {"_", "0x"}
EmailLocal == Alpha \cup StrictDigit \cup {"_", ".", "-"}
EmailDomain == EmailLocal \ {"_"}

-----------------------------------------------------------------------------
(***************************************************************************)
(* forgeops_strict_privacy_normalize_message.  Each step returns the       *)
(* stretches it replaces.                                                  *)
(***************************************************************************)

\* The steps' common loop: match[i] is the end of what is replaced from i on,
\* skip[i] where the scan goes on when that is 0.
Scan(s, match, skip) ==
  LET Rest[i \in 1..(Len(s) + 1)] ==
        IF i > Len(s) THEN {}
        ELSE IF match[i] # 0 THEN {<<i, match[i]>>} \cup Rest[match[i]]
        ELSE Rest[skip[i]]
  IN Rest[1]

OneByOne(s) == [i \in DOMAIN s |-> i + 1]

\* Takes the first dot of the domain.
MutEmailAt(s, i) ==
  LET atSign == RunEnd(s, i, EmailLocal)
      domainEnd == RunEnd(s, atSign + 1, EmailDomain)
      dots == {d \in (atSign + 2)..(domainEnd - 1) : s[d] = "." /\ RunEnd(s, d + 1, Alpha) >= d + 3}
  IN IF atSign = i \/ At(s, atSign) # "@" \/ dots = {} THEN 0 ELSE RunEnd(s, Min(dots) + 1, Alpha)

EmailAt(s, i) ==
  LET atSign == RunEnd(s, i, EmailLocal)
      domainEnd == RunEnd(s, atSign + 1, EmailDomain)
      dots == {d \in (atSign + 2)..(domainEnd - 1) : s[d] = "." /\ RunEnd(s, d + 1, Alpha) >= d + 3}
  IN IF atSign = i \/ At(s, atSign) # "@" \/ dots = {} THEN 0 ELSE RunEnd(s, Max(dots) + 1, Alpha)

\* A local part that is no email is copied whole.
Emails(s) ==
  Scan(s, [i \in DOMAIN s |-> EmailAt(s, i)], [i \in DOMAIN s |-> Max({i + 1, RunEnd(s, i, EmailLocal)})])

QuotedAt(s, quote, atWordBoundary, i) ==
  LET end == Min({k \in (i + 1)..(Len(s) + 1) : At(s, k) \in {quote, "newline", "end"}})
  IN IF /\ s[i] = quote /\ At(s, end) = quote
        /\ ~atWordBoundary \/ StandsAlone(s, <<i, end + 1>>, StrictWord)
       THEN end + 1 ELSE 0

Quoted(s, quote, atWordBoundary) ==
  Scan(s, [i \in DOMAIN s |-> QuotedAt(s, quote, atWordBoundary, i)], OneByOne(s))

\* What is put in, "0x", is a part of a word too.
HexAt(s, i) ==
  LET end == RunEnd(s, i + 2, HexDigit)
  IN IF s[i] = "0" /\ At(s, i + 1) = "x" /\ end >= i + 6 THEN end ELSE 0

HexObjectIds(s) == Scan(s, [i \in DOMAIN s |-> HexAt(s, i)], OneByOne(s))

\* 8-4-4-4-12
UuidLength == 36
IsUuidAt(s, i) ==
  \A k \in 0..(UuidLength - 1) :
    IF k \in {8, 13, 18, 23} THEN At(s, i + k) = "-" ELSE At(s, i + k) \in HexDigit

UuidAt(s, i) ==
  IF IsUuidAt(s, i) /\ StandsAlone(s, <<i, i + UuidLength>>, StrictWord) THEN i + UuidLength ELSE 0

Uuids(s) == Scan(s, [i \in DOMAIN s |-> UuidAt(s, i)], OneByOne(s))

\* A number that touches a word is copied whole.
NumberAt(s, i) ==
  LET end == RunEnd(s, i, StrictDigit)
  IN IF end > i /\ StandsAlone(s, <<i, end>>, StrictWord) THEN end ELSE 0

Numbers(s) ==
  Scan(s, [i \in DOMAIN s |-> NumberAt(s, i)], [i \in DOMAIN s |-> Max({i + 1, RunEnd(s, i, StrictDigit)})])

\* The steps in their order, each on what the one before made of the message.
NormalizeMessage(message) ==
  LET emails == Replace(message, Emails(message), "<email>")
      double == Replace(emails, Quoted(emails, "\"", FALSE), "<str>")
      single == Replace(double, Quoted(double, "'", TRUE), "<str>")
      hex == Replace(single, HexObjectIds(single), "0x")
      uuids == Replace(hex, Uuids(hex), "<uuid>")
  IN Replace(uuids, Numbers(uuids), "<n>")

-----------------------------------------------------------------------------
(***************************************************************************)
(* Paths and the names of outbound calls.                                  *)
(***************************************************************************)
NameDigit == {"1"}
NameAlpha == {"a", "b"}

IsRouteParameter(segment) ==
  \/ Len(segment) >= 2 /\ segment[1] = ":"
  \/ Len(segment) >= 1 /\ segment[1] = "*"
  \/ Len(segment) >= 3 /\ segment[1] = "{" /\ Last(segment) = "}"

IsIdSegment(segment) == ToSet(segment) \cap NameDigit # {} \/ Len(segment) > MaxSegment

\* The segment that starts at i, which may be empty.
SegmentEnd(path, i) == Until(path, i, {"/"})
Segment(path, i) == Slice(path, i, SegmentEnd(path, i))

IsTemplate(path) ==
  \E i \in 1..(Len(path) + 1) : (i = 1 \/ path[i - 1] = "/") /\ IsRouteParameter(Segment(path, i))

\* A text up to the first character of cut.
BareOf(text, cut) == Slice(text, 1, Until(text, 1, cut))
QueryCut == {"?", "#"}

\* A route template stays as it is; of a raw path the first segment stays.
PathOf(bare) ==
  LET first == RunEnd(bare, 1, {"/"})
      rest == RunEnd(bare, SegmentEnd(bare, first), {"/"})
  IN IF IsTemplate(bare) THEN bare
     ELSE IF first > Len(bare) THEN <<"/">>
     ELSE (IF bare[1] = "/" THEN <<"/">> ELSE << >>)
            \o (IF IsIdSegment(Segment(bare, first)) THEN <<":", "id">> ELSE Segment(bare, first))
            \o (IF rest <= Len(bare) THEN <<"/", ":", "path">> ELSE << >>)

StrictPath(path) == PathOf(BareOf(path, QueryCut))

SchemeChars == NameAlpha \cup NameDigit \cup {".", "-"}
SchemeLength(target) ==
  LET i == RunEnd(target, 1, SchemeChars)
  IN IF At(target, 1) \in NameAlpha /\ At(target, i) = ":" /\ At(target, i + 1) = "/" /\ At(target, i + 2) = "/"
       THEN i + 2 ELSE 0

\* Stops at the first "@".
MutAfterUser(authority) ==
  LET at == {i \in DOMAIN authority : authority[i] = "@"}
  IN IF at = {} THEN authority ELSE SubSeq(authority, Min(at) + 1, Len(authority))

\* What is left of an authority without its user and its password, which may
\* hold an "@" themselves.
AfterUser(authority) ==
  SubSeq(authority, Max({0} \cup {i \in DOMAIN authority : authority[i] = "@"}) + 1, Len(authority))

AuthorityCut == QueryCut \cup {"/"}
Authority(target, scheme) == Slice(target, scheme + 1, Until(target, scheme + 1, AuthorityCut))

\* The host of an authority without its port: << >> when there is none.
HostFrom(scheme, authority) ==
  LET ports == {i \in 1..(Len(authority) - 1) :
                  authority[i] = ":" /\ ToSet(SubSeq(authority, i + 1, Len(authority))) \subseteq NameDigit}
      host == IF ports = {} THEN authority ELSE SubSeq(authority, 1, Max(ports) - 1)
  IN IF scheme # 0 \/ ports # {} \/ "." \in ToSet(host) \/ host = <<"localhost">> THEN host ELSE << >>

HostOf(target) ==
  LET scheme == SchemeLength(target) IN HostFrom(scheme, AfterUser(Authority(target, scheme)))

\* An outbound call is named by the host of its target, or by its path.
NamedBy(target) ==
  IF target[1] # "/" /\ HostOf(target) # << >> THEN HostOf(target) ELSE StrictPath(target)

\* forgeops_strict_privacy_span_name, and of a transaction that has a name.
SpanName(name) ==
  LET target == BareOf(SubSeq(name, RunEnd(name, 2, {" "}), Len(name)), {" "})
  IN IF At(name, 1) = "/" THEN StrictPath(name)
     ELSE IF At(name, 1) # "GET" \/ At(name, 2) # " " \/ target = << >> THEN name
     ELSE <<"GET", " ">> \o NamedBy(target)

-----------------------------------------------------------------------------
(***************************************************************************)
(* The rules the scanners stand for.                                       *)
(***************************************************************************)
EmailShape(t) ==
  \E at \in DOMAIN t : \E dot \in (at + 2)..(Len(t) - 2) :
    /\ t[at] = "@" /\ t[dot] = "." /\ at > 1
    /\ ToSet(Slice(t, 1, at)) \subseteq EmailLocal
    /\ ToSet(Slice(t, at + 1, dot)) \subseteq EmailDomain
    /\ ToSet(SubSeq(t, dot + 1, Len(t))) \subseteq Alpha

QuotedShape(t, quote) ==
  /\ Len(t) > 1 /\ t[1] = quote /\ Last(t) = quote
  /\ \A k \in 2..(Len(t) - 1) : t[k] \notin {quote, "newline"}

HexShape(t) ==
  Len(t) >= 6 /\ t[1] = "0" /\ t[2] = "x" /\ ToSet(SubSeq(t, 3, Len(t))) \subseteq HexDigit

UuidShape(t) ==
  LET dashes == {k \in DOMAIN t : t[k] = "-"}
  IN Len(t) = 36 /\ dashes = {9, 14, 19, 24} /\ ToSet(t) \subseteq HexDigit \cup {"-"}

\* Each step replaces what its rule finds, and finds it in what the steps
\* before left: an email before the quotes and digits in it, a whole UUID
\* before its groups are taken for numbers (strict_privacy.c:121-294).  Two
\* messages that differ only in such values have one fingerprint.
NormalizesByTheRules(message) ==
  LET Found(s, Shape(_)) == LeftToRight(Longest(Shaped(s, Shape)))
      Alone(s, Shape(_)) == LeftToRight(Longest({p \in Shaped(s, Shape) : StandsAlone(s, p, StrictWord)}))
      emails == Replace(message, Found(message, EmailShape), "<email>")
      double == Replace(emails, Found(emails, LAMBDA t : QuotedShape(t, "\"")), "<str>")
      single == Replace(double, Alone(double, LAMBDA t : QuotedShape(t, "'")), "<str>")
      hex == Replace(single, Found(single, HexShape), "0x")
      uuids == Replace(hex, Alone(hex, UuidShape), "<uuid>")
      numbers == Replace(uuids, Alone(uuids, LAMBDA t : ToSet(t) \subseteq StrictDigit), "<n>")
  IN NormalizeMessage(message) = numbers

TargetCut == QueryCut \cup {" "}
Separators == TargetCut \cup {"/"}

\* The positions from i on that have a character of a class before them.
Beyond(text, i, class) == {j \in i..Len(text) : \E k \in i..(j - 1) : text[k] \in class}

\* In a raw path: what follows the first segment.
HiddenInPath(text, cut) ==
  IF At(text, 1) = "/" /\ ~IsTemplate(BareOf(text, cut))
    THEN {j \in Beyond(text, RunEnd(text, 1, {"/"}), {"/"}) : text[j] \notin Separators} ELSE {}

\* In an address with a scheme: the user, the password and everything after
\* the authority.  One without a host is read as a path, whose templates stay.
AuthorityFrom(text, cut) == SchemeLength(BareOf(text, cut)) + 1
AuthorityTo(text, cut) == Until(text, AuthorityFrom(text, cut), Separators)
HasHost(text, from, to) == from < to /\ text[to - 1] \notin NameDigit \cup {"@"}
UserIn(text, from, to) == {j \in from..to : \E k \in (j + 1)..(to - 1) : text[k] = "@"}
HiddenInAddress(text, cut) ==
  LET from == AuthorityFrom(text, cut)
      to == AuthorityTo(text, cut)
      host == HasHost(text, from, to)
  IN IF from > 1 /\ (host \/ ~IsTemplate(BareOf(text, cut)))
       THEN {j \in UserIn(text, from, to) \cup (to + 1)..Len(text) : host \/ text[j] \notin Separators} ELSE {}

\* The part of a text that a strict name must not depend on, when the text is
\* a path or an address up to a character of cut.
HiddenIn(text, cut) == Beyond(text, 1, cut) \cup HiddenInPath(text, cut) \cup HiddenInAddress(text, cut)

\* The text with a "b" for what is hidden.
Masked(text, H) == [i \in DOMAIN text |-> IF i \in H THEN "b" ELSE text[i]]

\* A strict name is the same whatever stands in the parts it hides, also when
\* a password holds an "@", a query a path or an address has no path at all
\* (strict_privacy.c:344-379,393-467).
NamesHideTheRest(name) ==
  LET isPath == At(name, 1) = "/"
      from == IF isPath THEN 1 ELSE RunEnd(name, 2, {" "})
      text == SubSeq(name, from, Len(name))
      other == Masked(text, HiddenIn(text, IF isPath THEN QueryCut ELSE TargetCut))
  IN isPath \/ (At(name, 1) = "GET" /\ At(name, 2) = " ") => SpanName(SubSeq(name, 1, from - 1) \o other) = SpanName(name)
=============================================================================
