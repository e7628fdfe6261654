----------------------------- MODULE CrashReport -----------------------------
(***************************************************************************)
(* The raw report of one crash: forgeops_signal_handler_write_report       *)
(* writes it on the crashing thread, one write() after the other, and a    *)
(* later run's forgeops_signal_handler_complete_json reads back whatever   *)
(* reached the disk.  The process may die between two writes (a fault in   *)
(* the handler, SIGKILL), and a device that fills up cuts a write short.   *)
(*                                                                         *)
(* A report is a sequence of tokens.  A breadcrumb is an object with text  *)
(* and an inner object, a prefix and a trace id are two tokens each, so    *)
(* that a cut can fall inside any of them.  Fields that complete_json adds *)
(* from the configuration are left out.                                    *)
(***************************************************************************)
EXTENDS Integers, Sequences, SequencesExt

CONSTANTS
  MaxFrames,      \* bound: lines of the backtrace
  MaxCrumbs,      \* bound: entries of the trail
  MaxCuts         \* bound: writes that are cut short

ASSUME CrashReportAssumption ==
  MaxFrames \in Nat /\ MaxCrumbs \in Nat /\ MaxCuts \in Nat

NewLine == "newline"
Name == <<"signal name">>
Frame == <<"frame", "frame end">>
CrumbPrefix == <<"#bread", "crumb ">>
TracePrefix == <<"#trace", "_id ">>
Crumb == <<"{", "text", "{", "}", "}">>
TraceId == <<"id", "id end">>

ReportToken ==
  {NewLine, "signal name", "frame", "frame end", "#bread", "crumb ", "#trace", "_id ",
   "{", "text", "}", "id", "id end"}

VARIABLES
  frames, crumbs, traced,  \* what there is to report
  written,                 \* how many of the write() calls are done
  file,                    \* what is on disk
  phase,                   \* "writing" or "dead"
  cuts                     \* history: how many writes were cut short

vars == <<frames, crumbs, traced, written, file, phase, cuts>>

\* The handler's writes, in order: the name, a line per frame
\* (backtrace_symbols_fd), three per entry of the trail, three for the id.
NameWrites == <<Name, <<NewLine>>>>
CrumbWrites == <<CrumbPrefix, Crumb, <<NewLine>>>>
TraceWrites == <<TracePrefix, TraceId, <<NewLine>>>>

WriteCount == 2 + frames + 3 * crumbs + (IF traced THEN 3 ELSE 0)

Write(n) ==
  IF n <= 2 THEN NameWrites[n]
  ELSE IF n <= 2 + frames THEN Frame \o <<NewLine>>
  ELSE IF n <= 2 + frames + 3 * crumbs THEN CrumbWrites[((n - 3 - frames) % 3) + 1]
  ELSE TraceWrites[n - 2 - frames - 3 * crumbs]

TypeOK ==
  /\ frames \in 0..MaxFrames /\ crumbs \in 0..MaxCrumbs /\ traced \in BOOLEAN
  /\ written \in 0..WriteCount
  /\ file \in Seq(ReportToken)
  /\ phase \in {"writing", "dead"}
  /\ cuts \in 0..MaxCuts

Init ==
  /\ frames \in 0..MaxFrames /\ crumbs \in 0..MaxCrumbs /\ traced \in BOOLEAN
  /\ written = 0
  /\ file = << >>
  /\ phase = "writing"
  /\ cuts = 0

\* write() takes everything.
WriteAll ==
  /\ phase = "writing" /\ written < WriteCount
  /\ file' = file \o Write(written + 1)
  /\ written' = written + 1
  /\ UNCHANGED <<frames, crumbs, traced, phase, cuts>>

\* write() takes part of it, or nothing: its result is not looked at, and a
\* later write may find room again.
WriteShort ==
  /\ phase = "writing" /\ written < WriteCount
  /\ cuts < MaxCuts
  /\ cuts' = cuts + 1
  /\ \E n \in 0..(Len(Write(written + 1)) - 1) : file' = file \o SubSeq(Write(written + 1), 1, n)
  /\ written' = written + 1
  /\ UNCHANGED <<frames, crumbs, traced, phase>>

\* The handler is through and re-raises, or the process dies before that.
Die ==
  /\ phase = "writing"
  /\ phase' = "dead"
  /\ UNCHANGED <<frames, crumbs, traced, written, file, cuts>>

Terminated == phase = "dead" /\ UNCHANGED vars

Next == WriteAll \/ WriteShort \/ Die \/ Terminated

Spec == Init /\ [][Next]_vars

-----------------------------------------------------------------------------
(***************************************************************************)
(* forgeops_signal_handler_complete_json, on the file as it is.            *)
(***************************************************************************)

\* What the reader has of the line it is in, and what it took from the lines
\* before: << >> or <<name>>, frames, entries, << >> or <<id>>.
Unread == [name |-> << >>, line |-> << >>, frames |-> << >>, crumbs |-> << >>, trace |-> << >>]

\* Takes every entry.
MutLooksComplete(json) == Len(json) >= 0

\* "at least looks like a complete object"
LooksComplete(json) == Len(json) >= 2 /\ json[1] = "{" /\ json[Len(json)] = "}"

After(prefix, line) == SubSeq(line, Len(prefix) + 1, Len(line))

\* FORGEOPS_TRACE_ID_LENGTH hex digits.
ValidId(id) == id = TraceId

\* What a line of the report is.  The first one is the signal's name; of the
\* others, empty ones skipped, a line with a prefix is the trace id or an entry
\* of the trail, and any other is a frame.
EndLine(report) ==
  LET line == report.line
      next == [report EXCEPT !.line = << >>]
      id == After(TracePrefix, line)
      json == After(CrumbPrefix, line)
  IN IF report.name = << >> THEN [next EXCEPT !.name = <<line>>]
     ELSE IF line = << >> THEN next
     ELSE IF IsPrefix(TracePrefix, line)
       THEN IF ValidId(id) THEN [next EXCEPT !.trace = <<id>>] ELSE next
     ELSE IF IsPrefix(CrumbPrefix, line)
       THEN IF LooksComplete(json) THEN [next EXCEPT !.crumbs = Append(@, json)] ELSE next
     ELSE [next EXCEPT !.frames = Append(@, line)]

\* fgets, token by token.
ReadToken(report, token) ==
  IF token = NewLine THEN EndLine(report) ELSE [report EXCEPT !.line = Append(@, token)]

Read(text) ==
  LET Reading[n \in 0..Len(text)] == IF n = 0 THEN Unread ELSE ReadToken(Reading[n - 1], text[n])
  IN Reading[Len(text)]

\* The last line may have no newline.
Completed == LET report == Read(file) IN IF report.line = << >> THEN report ELSE EndLine(report)

-----------------------------------------------------------------------------
\* Wherever the handler stops between two writes, the completed report's
\* breadcrumbs array is well-formed JSON: the trail's entries, oldest first,
\* as far as they were written (signal_handler.c:186-197).  A write cut one
\* brace short is taken too, and breaks it: LooksComplete does not tell.
CrumbsAreWhole ==
  cuts = 0 =>
    /\ \A i \in 1..Len(Completed.crumbs) : Completed.crumbs[i] = Crumb
    /\ Len(Completed.crumbs) <= crumbs

\* The trail and the id never cost or add a frame (signal_handler.c:50-52),
\* and the first frame is never taken for the signal's name.
FramesAreFrames ==
  cuts = 0 =>
    /\ Completed.name \in {<< >>, <<Name>>}
    /\ \A i \in 1..Len(Completed.frames) : Completed.frames[i] = Frame
    /\ Len(Completed.frames) <= frames
    /\ Completed.crumbs # << >> \/ Completed.trace # << >> => Len(Completed.frames) = frames

\* The report carries the whole id of the trace the thread had open, or none,
\* whatever writes were cut short (signal_handler.c:175-184).
TraceIdWholeOrAbsent ==
  \A i \in 1..Len(Completed.trace) : traced /\ Completed.trace[i] = TraceId

\* A handler that got to write everything loses nothing: the later run has the
\* name, every frame, every entry and the id (signal_handler.c:159-206).
NothingIsLost ==
  cuts = 0 /\ written = WriteCount =>
    /\ Completed.name = <<Name>>
    /\ Len(Completed.frames) = frames
    /\ Len(Completed.crumbs) = crumbs
    /\ Len(Completed.trace) = (IF traced THEN 1 ELSE 0)

\* What a later run makes of the file a dying process left, whichever of its
\* writes it got to: entries, frames and a trace id that were there, each of
\* them whole.
ReportReadsBackWhole == CrumbsAreWhole /\ FramesAreFrames /\ TraceIdWholeOrAbsent /\ NothingIsLost
=============================================================================
