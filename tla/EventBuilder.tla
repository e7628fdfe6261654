----------------------------- MODULE EventBuilder -----------------------------
(***************************************************************************)
(* What a payload carries: src/event_builder.c, the fields that            *)
(* src/signal_handler.c adds to a raw report, the spans of src/spans.c and *)
(* the transaction names of src/performance.c, under a configuration.      *)
(*                                                                         *)
(* A payload is a set of items: a field, the call whose text is in it, and *)
(* what became of that text.  How a text is scrubbed, masked, hashed or    *)
(* cut is the subject of PiiScrubber, SqlStatement and StrictPrivacy;      *)
(* settings are [dsn, production, strict, scrub], the first two saying     *)
(* whether there is a DSN with a key, and an environment that sends.       *)
(***************************************************************************)
EXTENDS Integers, Sequences, FiniteSets

CONSTANTS
  ContextKeys,    \* the keys of a context, two of them named below
  AllowedFields,  \* privacy_allowed_fields
  UserKeys        \* the keys of a user, "id" among them

\* The payload's own fields.  A key stands for its place in the payload, under
\* "context" or under "user".
OwnFields ==
  {"message", "fingerprint", "crumb", "sql_objects", "sql_statement", "span name", "db.statement", "span data",
   "transaction"}

ASSUME EventAssumption ==
  /\ AllowedFields \subseteq ContextKeys /\ "id" \in UserKeys
  /\ ContextKeys \cap UserKeys = {} /\ (ContextKeys \cup UserKeys) \cap OwnFields = {}

SensitiveKeys == {"password"}

\* history: built records whether the payload was built under strict privacy.
Item(config, field, form, of) == [field |-> field, form |-> form, of |-> of, built |-> config.strict]

\* A text that is scrubbed when scrub_pii is on.
Scrubbed(config, field, of) == Item(config, field, IF config.scrub THEN "scrubbed" ELSE "raw", of)

MessageItem(config, of) ==
  IF config.strict THEN Item(config, "fingerprint", "hash", of) ELSE Scrubbed(config, "message", of)

ContextItems(config, of) ==
  {IF config.scrub /\ key \in SensitiveKeys THEN Item(config, key, "redacted", of) ELSE Scrubbed(config, key, of) :
     key \in {k \in ContextKeys : config.strict => k \in AllowedFields}}

\* Never scrubbed: a structured field.  user is the call that set it, or 0.
UserItems(config, user) ==
  {Item(config, key, "raw", user) : key \in {k \in UserKeys : user # 0 /\ (config.strict => k = "id")}}

\* capture_sql_objects and capture_sql_statement are both on.
SqlItems(config, of) ==
  {Item(config, "sql_objects", "names", of)}
    \cup (IF config.strict THEN {} ELSE {Item(config, "sql_statement", "masked", of)})

\* A trail's entries are items already, scrubbed when they were added.
TrailItems(config, trail) ==
  IF config.strict THEN {} ELSE {[item EXCEPT !.built = config.strict] : item \in trail}

\* forgeops_build_event_json_with_sql
BuildEvent(config, of, user, trail) ==
  {MessageItem(config, of)} \cup ContextItems(config, of) \cup UserItems(config, user)
    \cup TrailItems(config, trail) \cup SqlItems(config, of)

\* forgeops_signal_handler_complete_json: its message is the signal's name.
CompleteReport(config, user, trail) == UserItems(config, user) \cup TrailItems(config, trail)

\* append_span, of the root and of a database span with its statement and
\* other data.
SpanName(config, of) == Item(config, "span name", IF config.strict THEN "strict name" ELSE "raw", of)
SpanItems(config, of) ==
  {SpanName(config, of), Item(config, "db.statement", "masked", of)}
    \cup (IF config.strict THEN {} ELSE {Item(config, "span data", "raw", of)})

\* forgeops_performance_record's bucket.
SampleItem(config, of) ==
  Item(config, "transaction", IF config.strict THEN "strict name" ELSE "raw", of)
=============================================================================
