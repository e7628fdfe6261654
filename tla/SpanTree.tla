------------------------------ MODULE SpanTree ------------------------------
(***************************************************************************)
(* One thread's traces (src/spans.c, without its delivery queue, and the   *)
(* calls of forgeops_tracker.c that drive it): trace_start and trace_stop  *)
(* bracket a unit of work, spans opened in between nest under whatever is  *)
(* open, and a slow trace becomes one body for the delivery queue.         *)
(*                                                                         *)
(* The application may stop its spans in any order, leave one open, stop   *)
(* one after its trace has ended or inside a later trace, nest traces, and *)
(* change the configuration at any moment.  Handles are values on the      *)
(* application's stack: it starts one only while it is idle.               *)
(*                                                                         *)
(* Ids are random in the code and counted here (a collision is left out).  *)
(* Names, kinds, times and data of a span are left out: append_span writes *)
(* them next to the ids kept here.  A root's id stands for its trace; the   *)
(* trace id itself is the caller's or a random one, and is not kept.       *)
(***************************************************************************)
EXTENDS Integers, Sequences, FiniteSets, SequencesExt

CONSTANTS
  TraceHandles,   \* the application's forgeops_trace_t values
  SpanHandles,    \* its forgeops_span_t and forgeops_http_span_t values
  Remotes,        \* usable traceparent values: another service's trace and span
  NoRemote,       \* NULL, or a value traceparent_parse refuses
  NoTrace,        \* current_trace = NULL
  MaxDepth,       \* FORGEOPS_SPANS_MAX_DEPTH
  MaxSpans,       \* FORGEOPS_SPANS_MAX_SPANS, the root included
  MaxIds          \* bound: ids drawn

Ids == 1..MaxIds

\* What traceparent_parse makes of the value it is given.
TraceParents == Remotes \cup {NoRemote}

Span == [id : Ids, parent : Ids]

Traces ==
  [root : Ids, remote : TraceParents, send : BOOLEAN, spans : Seq(Span), open : Seq(Ids)]

ASSUME SpanTreeAssumption ==
  /\ MaxDepth \in Nat \ {0} /\ MaxSpans \in Nat \ {0} /\ MaxIds \in Nat
  /\ NoRemote \notin Remotes
  /\ NoTrace \notin Traces

VARIABLES
  enabled, track_tracing,  \* configuration
  current_trace,           \* NoTrace, or the thread's open trace
  owns,                    \* of each trace handle
  span,                    \* the state of each span handle
  queued,                  \* bodies handed to enqueue, with a history field
  home                     \* history: home[i] is the root of the trace that drew id i

vars == <<enabled, track_tracing, current_trace, owns, span, queued, home>>

\* Closed: a handle that is not active.
Closed == [active |-> FALSE]
Open(id, parent) == [active |-> TRUE, id |-> id, parent |-> parent]

IdsOf(spans) == {spans[i].id : i \in DOMAIN spans}

\* The spans the application holds open that were started in trace root.
HeldOpen(root) ==
  {span[s].id : s \in {h \in SpanHandles : span[h].active /\ home[span[h].id] = root}}

Bodies ==
  [root : Ids, spans : Seq([id : Ids, parent : Ids \cup TraceParents]), held : SUBSET Ids]

TypeOK ==
  /\ enabled \in BOOLEAN /\ track_tracing \in BOOLEAN
  /\ current_trace # NoTrace =>
       /\ current_trace \in Traces
       /\ Len(current_trace.open) <= MaxDepth
       /\ Len(current_trace.spans) <= MaxSpans - 1
  /\ owns \in [TraceHandles -> BOOLEAN]
  /\ span \in [SpanHandles -> {Closed} \cup [active : {TRUE}, id : Ids, parent : Ids]]
  /\ queued \in Seq(Bodies)
  /\ \A b \in DOMAIN queued : Len(queued[b].spans) <= MaxSpans
  /\ home \in Seq(Ids) /\ Len(home) <= MaxIds

Init ==
  /\ enabled \in BOOLEAN /\ track_tracing \in BOOLEAN
  /\ current_trace = NoTrace
  /\ owns = [h \in TraceHandles |-> FALSE]
  /\ span = [s \in SpanHandles |-> Closed]
  /\ queued = << >>
  /\ home = << >>

-----------------------------------------------------------------------------
\* forgeops_trace_random_id, in the trace whose root is given.
FreshId == Len(home) + 1
Draws(root) == FreshId \in Ids /\ home' = Append(home, root)

\* current_parent
CurrentParent(trace) == IF trace.open = << >> THEN trace.root ELSE Last(trace.open)

HasRoom(trace) == Len(trace.spans) < MaxSpans - 1

\* record: the trace with one more finished span, or as it was when it is full.
Record(trace, id, parent) ==
  [trace EXCEPT !.spans = IF HasRoom(trace) THEN Append(@, [id |-> id, parent |-> parent]) ELSE @]

\* Starts over, whatever is open.
MutMayBegin == enabled

MayBegin == enabled /\ current_trace = NoTrace

\* forgeops_tracker_trace_start_with_traceparent (and trace_start: NoRemote):
\* a fresh trace, owned by the handle.
TraceStart(h, remote) ==
  /\ ~owns[h]
  /\ MayBegin
  /\ Draws(FreshId)
  /\ current_trace' =
       [root |-> FreshId, remote |-> remote, send |-> track_tracing,
        spans |-> << >>, open |-> << >>]
  /\ owns' = [owns EXCEPT ![h] = TRUE]
  /\ UNCHANGED <<enabled, track_tracing, span, queued>>

\* The same call inside an open trace, or with reporting off.
TraceStartIgnored(h) ==
  /\ ~owns[h]
  /\ ~MayBegin
  /\ UNCHANGED vars

\* The body of a slow trace: its root, pointing at the caller's span if there
\* is one, then the finished spans.  held is history: what was still open.
Body(trace) ==
  [root  |-> trace.root,
   spans |-> <<[id |-> trace.root, parent |-> trace.remote]>> \o trace.spans,
   held  |-> HeldOpen(trace.root)]

\* forgeops_spans_trace_end: slow says whether the root took
\* trace_capture_threshold_ms.
EndTrace(slow) ==
  /\ current_trace' = NoTrace
  /\ queued' = IF current_trace # NoTrace /\ current_trace.send /\ slow
               THEN Append(queued, Body(current_trace)) ELSE queued

\* forgeops_tracker_trace_stop: only the owner ends the trace, once.
TraceStop(h, slow) ==
  /\ owns[h]
  /\ owns' = [owns EXCEPT ![h] = FALSE]
  /\ EndTrace(slow)
  /\ UNCHANGED <<enabled, track_tracing, span, home>>

\* forgeops_spans_start: the trace with id open in it, unless the stack is full.
Opened(trace, id) == [trace EXCEPT !.open = IF Len(@) < MaxDepth THEN Append(@, id) ELSE @]

\* forgeops_tracker_span_start and http_span_start: in a trace, the span nests
\* under what is open (outside one the handle stays inactive).  The header an
\* http span hands out names the id drawn here.
SpanStart(s) ==
  /\ ~span[s].active
  /\ current_trace # NoTrace
  /\ Draws(current_trace.root)
  /\ span' = [span EXCEPT ![s] = Open(FreshId, CurrentParent(current_trace))]
  /\ current_trace' = Opened(current_trace, FreshId)
  /\ UNCHANGED <<enabled, track_tracing, owns, queued>>

\* Closes whatever is on top.
MutCloses(open, id) == IF open = << >> THEN open ELSE Front(open)

\* The stack of open ids without id: from the top down, the first slot that
\* holds it is closed up.
Closes(open, id) ==
  LET holds == {i \in DOMAIN open : open[i] = id}
      top == CHOOSE i \in holds : \A j \in holds : j <= i
  IN IF holds = {} THEN open ELSE RemoveAt(open, top)

\* Records only what is on the stack: a span opened too deep is lost.
MutStopped(trace, id, parent) ==
  IF Contains(trace.open, id)
    THEN Record([trace EXCEPT !.open = Closes(@, id)], id, parent) ELSE trace

\* forgeops_spans_stop: the trace with the span closed and recorded.
Stopped(trace, id, parent) == Record([trace EXCEPT !.open = Closes(@, id)], id, parent)

\* A second stop on the same handle records it again.
MutSpanStop(s) ==
  /\ span[s].active
  /\ current_trace # NoTrace
  /\ current_trace' = Stopped(current_trace, span[s].id, span[s].parent)
  /\ UNCHANGED <<enabled, track_tracing, owns, span, queued, home>>

\* forgeops_tracker_span_stop and http_span_stop, with and without data: into
\* whatever trace is open now.
SpanStop(s) ==
  /\ span[s].active
  /\ span' = [span EXCEPT ![s] = Closed]
  /\ current_trace' = IF current_trace = NoTrace THEN NoTrace
                      ELSE Stopped(current_trace, span[s].id, span[s].parent)
  /\ UNCHANGED <<enabled, track_tracing, owns, queued, home>>

\* forgeops_tracker_record_span and its _with_sql form: a span already over.
RecordSpan ==
  /\ current_trace # NoTrace
  /\ Draws(current_trace.root)
  /\ current_trace' = Record(current_trace, FreshId, CurrentParent(current_trace))
  /\ UNCHANGED <<enabled, track_tracing, owns, span, queued>>

\* The application edits the configuration.
Configure ==
  /\ enabled' \in BOOLEAN /\ track_tracing' \in BOOLEAN
  /\ UNCHANGED <<current_trace, owns, span, queued, home>>

Next ==
  \/ \E h \in TraceHandles :
       \/ \E remote \in TraceParents : TraceStart(h, remote)
       \/ TraceStartIgnored(h)
       \/ \E slow \in BOOLEAN : TraceStop(h, slow)
  \/ \E s \in SpanHandles : SpanStart(s) \/ SpanStop(s)
  \/ RecordSpan
  \/ Configure

Spec == Init /\ [][Next]_vars

-----------------------------------------------------------------------------
\* A trace is open exactly while one handle owns it, so the one trace_stop
\* that ends it is still to come, and a nested trace_start's trace_stop does
\* nothing to it (forgeops_tracker.c:207-211, README "A `trace_start` inside
\* an open trace does not start a second one, and its `trace_stop` does
\* nothing").
OneOwner ==
  Cardinality({h \in TraceHandles : owns[h]}) = IF current_trace = NoTrace THEN 0 ELSE 1

\* The next span nests under the root or under a span of this trace that the
\* application still holds open, in whatever order spans are stopped: the
\* stack is the tracked ones, oldest first (spans.c:300-328).
NestsUnderOpenSpan ==
  current_trace # NoTrace =>
    LET open == current_trace.open
    IN /\ ToSet(open) \subseteq HeldOpen(current_trace.root)
       /\ \A i, j \in DOMAIN open : i < j => open[i] < open[j]
       /\ \A i \in DOMAIN open : open[i] <= CurrentParent(current_trace)

\* A queued trace has at most MAX_SPANS spans with its root, which is added
\* last, and its own spans form a tree: each is there once, and its parent is
\* older, of the same trace, and in the body too, unless it was still open
\* when the trace ended or the body is full (spans.c:169-178, 274-298).
QueuedTracesAreTrees ==
  \A b \in DOMAIN queued :
    LET body == queued[b]
        own == {i \in 2..Len(body.spans) : home[body.spans[i].id] = body.root}
    IN /\ Len(body.spans) <= MaxSpans
       /\ Cardinality(IdsOf(body.spans)) = Len(body.spans)
       /\ \A i \in own :
            LET s == body.spans[i]
            IN /\ s.parent < s.id
               /\ s.parent = body.root \/ home[s.parent] = body.root
               /\ \/ s.parent \in IdsOf(body.spans) \cup body.held
                  \/ Len(body.spans) = MaxSpans

\* A span the application stopped before its trace ended is in the queued
\* trace, and so is the one a traceparent header named, unless the trace is
\* full: "the span the call is then recorded as" (forgeops_tracker.c:246-247).
StoppedSpansAreQueued ==
  \A b \in DOMAIN queued :
    LET body == queued[b]
    IN \/ Len(body.spans) = MaxSpans
       \/ \A id \in DOMAIN home :
            home[id] = body.root => id \in IdsOf(body.spans) \cup body.held
=============================================================================
