# A TLA+ development of the ForgeOps tracker C client

The client reports errors, crashes, metrics, performance tallies, traces and
deployment changes of a C program to a server. Its difficulty is not in any one
call: it is a library of threads, exit hooks, a fatal-signal handler and files
that outlive the process, most of it meant to lose nothing and to block nobody,
and of hand-written readers that decide what of a text may leave the process.
The modules here model both parts of `src/src/*.c`; paths below are relative to
the repository root unless they name a module.

## Inventory

| Component | State | Operations | Who shares it | Where it is hard | What makes it correct |
|---|---|---|---|---|---|
| HTTP client (`client.c`) | none | `forgeops_client_deliver_*` | every sender | a lost reply looks like a failure | 408 and 429 may be retried, other 4xx never |
| Metric buffers (`metrics.c`) | two bounded lists, failure counts, a worker each | record, flush, worker, exit hook | application threads, worker, exiting thread | the lock is released around the request | a metric is sent until it is answered for, in a bounded number of attempts, and never removed unsent |
| Performance flusher (`performance.c`) | buckets by name, period start, worker | record, flush, worker, exit hook | as above | a delivered snapshot is subtracted from live buckets | tallies and periods are those of the durations not yet sent |
| Delivery queues (`spans.c`, `changes.c`) | bounded FIFO, condition variable, worker | enqueue, worker loop, drain | callers, worker, exiting thread | wakeups, stop and join | each accepted body is handed over once, in order, and exit ends |
| Trace and span tree (`spans.c`, `trace_parent.c`) | the thread's trace: finished spans, stack of open ids | trace start/stop, span start/stop/record | one thread | any order of stops, nesting, two caps | what is sent is a tree of what was opened |
| Crash store and uploads (`crash_store.c`, `reporter.c`) | files on disk, a counter | capture, list, upload pass, exit hook | threads, and successive runs | crash and restart, one-second clock, no lock | a stored report stays until it is answered for or evicted |
| Breadcrumb trail (`breadcrumbs.c`) | a ring per thread | add, clear, dump | the thread and its signal handler | a signal between any two stores | no half-written entry is reported |
| Fatal-signal handler (`signal_handler.c`) | the raw report | write, complete on the next run | crashing thread, next run | death between writes, cut writes | the completed report is well formed |
| Public API (`forgeops_tracker.c`) | shared configuration, a warning flag, current user per thread, exit-hook flags | one function per operation | all | state created lazily without a lock; settings that change between two calls; hooks in the reverse of their registration | what a setting promises holds for everything that leaves, the warning comes once, exit leaves nothing behind |
| Configuration (`configuration.c`) | the settings | create from the environment, DSN, targets, list of fields | all readers | percent-encoding, `@` in a path, prefixes of names | a key is read back whole and stays out of addresses; a header goes to the hosts listed |
| Event builder (`event_builder.c`) | none | build an event, a completed report | captures, uploads | six fields, each with its own rule under each setting | strict privacy and scrubbing reach every field |
| PII scrubber (`pii_scrubber.c`) | none | scrub a text or a value | event builder, breadcrumbs | backtracking by hand, order of the rules | exactly what the patterns and check digits describe is replaced |
| Strict privacy (`strict_privacy.c`) | none | normalise and hash a message, cut paths and names | event builder, spans, performance | order of the steps, what counts as a host | what varies or identifies is not in the result |
| SQL masking (`sql_statement.c`) | none | mask, tokenize, find objects | event builder, spans | quotes, escapes, tags, unterminated literals | no part of a literal is sent; the tables named are the ones found |
| String buffer (`strbuf.h`) | a growing array of its caller | append | all builders | - | not modelled, see below |

Interaction is by direct call and by shared statics: the public API calls the
components; all senders call the HTTP client; the signal handler reads the
breadcrumb ring and the trace id of its own thread and writes into the crash
store's directory; a later run's upload pass reads what the handler wrote.
Each component registers its own `atexit` hook the first time it is used. The
event builder calls the scrubber, strict privacy and the SQL masking; the
configuration is read anew by every call.

## Modules

| Module | Models | Runs |
|---|---|---|
| `Client` | status and outcome of a request | (extended by the senders) |
| `MetricsBuffer`, `MCMetricsBuffer`, `MetricsBuffer_proofs` | `metrics.c` | `metrics`, `metrics_live`, `metrics_overlap` |
| `PerformanceFlusher`, `MCPerformanceFlusher`, `PerformanceFlusher_proofs` | `performance.c` | `performance`, `performance_max` |
| `FifoOutbox` | what the delivery queues promise | (refined by `DeliveryQueue`) |
| `DeliveryQueue`, `MCDeliveryQueue`, `DeliveryQueue_proofs` | the queue of `spans.c` and its copy in `changes.c` | `queue` |
| `SpanTree`, `MCSpanTree`, `SpanTree_proofs` | traces and spans of `spans.c` | `span_tree` |
| `CrashStore`, `MCCrashStore`, `CrashStore_proofs` | `crash_store.c`, `reporter.c`, install/capture/exit of `forgeops_tracker.c` | `crash_store`, `crash_store_race` |
| `Breadcrumbs`, `MCBreadcrumbs`, `Breadcrumbs_proofs` | the ring of `breadcrumbs.c` | `breadcrumbs` |
| `EventBuilder` | which texts a payload carries, and in which form: `event_builder.c`, and what `signal_handler.c`, `spans.c` and `performance.c` put into theirs | (extended by `Tracker`) |
| `Tracker`, `MCTracker`, `Tracker_proofs` | `forgeops_tracker.c`: the public calls on the settings they share, and how their texts leave the process | `tracker` |
| `Text` | how a scanner walks over a text, and what a regular expression finds in it | (extended by the scanners) |
| `SqlStatement` | `sql_statement.c` | `scanners` |
| `PiiScrubber` | the IBAN and card scanners of `pii_scrubber.c` | `scanners` |
| `StrictPrivacy` | `strict_privacy.c` without the hash | `scanners` |
| `Configuration` | the readers of `configuration.c` | `scanners` |
| `BreadcrumbEncoding` | the loop of `breadcrumbs.c` that fits an entry to its slot | `scanners` |
| `CrashReport` | `signal_handler.c`, writer and reader | `scanners` |
| `MCScanners`, `Scanners_proofs` | the texts, entries and reports the last six are checked on | `scanners` |

### How the modules follow the code

*Critical sections are steps.* `MetricsBuffer`, `PerformanceFlusher` and
`DeliveryQueue` take one step per section under the mutex. A flush is therefore
two steps, `FlushSnapshot` and `FlushFinish`, with everything else free to
happen in between; a worker turn is cut at the condition wait and at the
request. `pthread_create` may fail at every attempt. The condition variable is
modelled: a signal reaches a worker only if it waits, and spurious wakeups
happen.

*Stores are steps where a signal may strike.* `Breadcrumbs` takes one step per
store to the ring, two for the `memcpy`, and `FatalSignal` may come between any
two. The order is that of the source: the fence before `count++` keeps the
compiler from moving the copy behind it, and the other stores are taken in
program order.

*System calls are steps where the process may die.* In `CrashStore` a capture is
three steps (name, `fopen`, write and close), and so is a fatal signal (`open`, the
writes and `close`, `raise`), during which the other threads go on and may list,
send and delete what the handler has written so far. An upload pass is one step for
the listing and up to three per file: it is read, the answer comes, it is deleted.
Between the answer (`reporter.c:59`) and the delete (`reporter.c:62`) a signal, a
kill or the end of the process leaves an answered report on disk, to be sent again.
A file that cannot be read is deleted unsent (`reporter.c:53-56`). The process may
crash, be killed, exit and be started again; the disk stays. `counter++` is a data race: a thread may read the value another
one has read and not yet stored. In `CrashReport` each `write()` is a step, may
be cut short, and its result is not looked at.

*Data are what the properties tell apart.* Metrics, bodies, reports and
breadcrumbs are numbered by the call that made them; a duration is a small
number; a file name is its kind, its second and its counter or its signal (of
one or two digits), compared as `strcmp` compares the written numbers; a key of
a context or of a user stands for its place in the payload, so that
`EventAssumption` may say that no two fields are one; a text to encode is its length, its
growth when escaped and the bytes a cut has to step back; a raw report is a
sequence of tokens coarse enough to count and fine enough for a cut to fall
inside each part. Id collisions are left out of `SpanTree`.

*The public calls share settings.* `Tracker` cuts a call where the code reads or
writes shared state without a lock: it reads `shared_configuration` (`Begin`),
creates and stores a struct when it found none (`Create`), reads it again
(`Have`: the stored one or the one shared by then, since without synchronisation
the compiler may use either), looks at the warning flag (`WarnCheck`),
exchanges it (`WarnExchange`) and prints the warning, unless there is no memory for
its text (`WarnPrint`). The rest of a call is one step, for the modules of the
components model its parts, except of a capture. That reads the settings and sets
the flag of the upload (`Capture`), calls `atexit` (`CaptureHook`), and stores its
report if the settings, read again, are enabled (`CaptureWrite`): other threads may
be in `exit()` all the while, and the hook may run before the report is there. A
trace that is queued creates the worker of the span queue or fails to, each time it
has none; without one nothing is delivered, and the hook does nothing
(`spans.c:248`). Settings change between such steps. A payload is
a set of items, each a field, the call whose text is in it and what became of
that text (`EventBuilder`); items wait in a thread's trail or trace, in the
buckets, in the span queue or on disk, and leave in this run or, through the
disk, in a later one under other settings.

*Scanners are functions on texts.* A text is a sequence of characters from a
small alphabet with one or two members of each class the code tells apart; a
mark that is put in, a keyword or an endpoint is one character. The code's loops
are recursive functions on positions, in the code's order of attempts. Each
module ends with the rule its scanner stands for, written in another way: the
positions inside a literal by a one-character-at-a-time lexer, an IBAN by its
shape and the weights of its digits instead of a backtracking search and a
running remainder, a number or an email by its shape, a host by its labels, a
name by what may be changed in it without changing the result.

*History variables* (`fate`, `sent`, `recorded`, `overlapped`, `reused`, `torn`,
`cutShort`, `exitMark`, `home`, `trail` of `Breadcrumbs`, `cuts`, `asked`, `handed`, `built`, ...) are read by no action of the code; they
let a property speak of what happened.

`Exit` models `exit()`: other threads go on running while the hooks run, and die
where they stand when the hooks have returned. `phase = "corrupt"` in
`MetricsBuffer` is undefined behaviour (a double free, a wrapped `size_t`): the
model stops there.

## Runs

| Run | What is checked |
|---|---|
| `metrics` | Two threads, the worker, an exit at any moment. `TypeOK` (the buffer never exceeds its array), `BatchStaysInFront` (what a removal takes is what was sent), `BufferedUntilSettled` (nothing is lost or sent after it was settled), `RetriesBounded`, `GivesUpOnlyWhenEarned` (the failures of one batch never count against the next), `ExitOffersEveryCapture` (also when the worker could never be created). |
| `metrics_live` | `EveryCaptureSettles`: no entry stays for ever while the worker runs, with overlapping flushes included. |
| `metrics_overlap` | Violated: `RemovesExactlyItsBatch`. |
| `performance` | `TalliesMatchRecords`, `MaxNeverUnderstates`, `PeriodsPartitionRecords`, and `EveryTallySettles`. |
| `performance_max` | Violated: `MaxNeverOverstates`. |
| `queue` | `TypeOK`, `EachBodyOnceInOrder`, `ExitDrainsQueue`, `EveryBodyIsHandedOver` (no lost wakeup), `ExitCompletes` (the join always returns), and `OutboxSpec`: the queue implements `FifoOutbox` with `waiting <- inHand \o queue`. |
| `span_tree` | `OneOwner`, `NestsUnderOpenSpan`, `QueuedTracesAreTrees` (the root always has room), `StoppedSpansAreQueued`, for spans stopped in any order, left open, or stopped in a later trace. |
| `crash_store` | Two threads, three runs of the program, crashes, kills and exits. `StoredReportsSurvive`, `AnsweredReportsGo` (what the server answered for is on disk only until the delete that follows, or because a death came between the two), `ExitUploadsEverything`, `ExitWaitsForOneFailure` (and what a pass lists is within the cap). |
| `crash_store_race` | Violated: `WritesNeverCollide`. |
| `breadcrumbs` | `RingIsTrail` (with `max_breadcrumbs` raised and lowered), `NoTornEntry`, `SurvivorsAreReported`. |
| `tracker` | Six programs of two threads, with exits, crashes and a second run. `StrictTextNeverLeaves` (no free text leaves in a payload built under strict privacy, or that was handed over while strict privacy was asked for, and none unscrubbed that was handed over while scrubbing was; across changes of settings, trails and traces that outlive them, and reports completed in the next run), `WarnsOnceWhenDue` (at most once in a process; when a call goes on that found it due it was given, or a thread is giving it just then, or there was no memory for it), `ExitLeavesNothingBehind` (the hooks of three features, registered in any order by any threads, also while `exit()` runs; queued traces only if there ever was a worker for them). |
| `scanners` | Every reader on every text that grows from its starts. `SqlLiteralsNeverSurvive`, `SqlRelationsMatch`, `IbansAreScrubbed`, `CardsAreScrubbed`, `MessagesAreNormalized`, `NamesAreCut`, `SettingsReadBack` (DSN, targets, list of fields); `EntriesAreKept` with the code's own limits (a breadcrumb always fits its slot, the branch that drops one is never reached, and it is read back as one line); `CrashReportsReadBack`, for reports whose writer died or was cut short at any write. |

`TypeOK` documents the state of each module. It is proved of every module with
proofs; a run checks it where it bounds an array (`metrics`, `queue`), and the
other bounds worth checking are part of the properties named above.

### The three violations

- `metrics_overlap`. `forgeops_metrics_flush` removes the first N entries, not
  the entries it sent. The worker and a caller of `forgeops_tracker_flush` (or
  the exit hook) may be in flight with the same batch: the second to finish
  removes N entries more, sent or not, and with fewer than N left frees freed
  pointers. `metrics.h:20` says a flush "removes exactly those N".
- `performance_max`. The max of a bucket that survives the subtraction is that
  of durations already sent, and the next period reports it. `performance.c:241`
  says that leaving it "never overstates the next period's own max".
- `crash_store_race`. Two captures that race on `counter++` in one second get
  one file name, and one report replaces the other; a restart within the second
  does the same without any race. `crash_store.h:25-26` and `crash_store.c:32-33`
  say that this does not happen.

### Other differences between the code and its documents

Met while modelling, visible in the modules, and not given a run:

- Two flushes of `performance.c` in flight subtract the same snapshot twice, for
  the same reason as in `metrics.c` (`performance.h:42`: "Only exactly what this
  snapshot delivered (or dropped) is removed afterward"). The properties of
  `PerformanceFlusher` are stated up to the first overlap.
- `drain_at_exit` delivers nothing when the worker could not be created
  (`README.md:442-443`); `ExitDrainsQueue` excludes `hook = "skipped"`, and
  `ExitLeavesNothingBehind` a span queue without a worker.
- A first capture sets the flag of the upload before it calls `atexit`
  (`forgeops_tracker.c:122-123`). Another thread that captures and exits in between
  has no hook, although a comment (`forgeops_tracker.c:93-96`) says that a program
  which captures one error and returns from main delivers it on its first run. Its
  report is on disk and goes up in the next one. `ExitLeavesNothingBehind` leaves
  this window out (`Registering`).
- A report that was answered for is sent again when the process dies before the
  delete; the server may get a report twice, which no document denies.
- A span left open in one trace and stopped in the next is recorded in the next
  (`spans.h:10`); `QueuedTracesAreTrees` speaks of a trace's own spans.
- The cap of 20 reports (`README.md:468`) is applied when a pass lists, not when
  a report is written.
- Within one second reports are ordered by `strcmp`, so the eleventh (`-10`) comes
  before the third (`-2`); `crash_store.c:59-60` calls this the order they were
  written.
- `forgeops_signal_handler_install` makes one directory level and the default
  directory has two (`configuration.c:77`), so a first run that crashes before
  any capture leaves no report; `signal_handler.h:19` says install creates it.
- An add to a full ring trims before it publishes: a crash in between reports a
  trail one entry short, or, between the two stores of the trim, one that ends
  in a stale slot. `breadcrumbs.c:184-185` says the ring is "exactly as it was".
  `SurvivorsAreReported` states what does hold.
- A breadcrumb line cut one brace short still looks complete
  (`signal_handler.c:187-191`): `CrashReportsReadBack` asks for whole breadcrumbs
  without cut writes only.
- `forgeops_tracker.h:162` says names are copied; a span handle keeps the pointer
  until it is stopped. Names are not modelled.
- The masking of a statement treats a backslash as an escape on every system
  (`sql_statement.c`), so on a system where it is none a literal that ends in one
  is read on to the next quote: more is masked, never less. `1.5.3` becomes
  `?.3`: masking a masked statement again may change it.
- The statement of an event is masked without a system (`event_builder.c`), that
  of a span with its `db.system`; only the latter knows double quoted strings.
- An IBAN whose length is a multiple of four and which is followed by a word of
  four capitals or digits is read as one longer candidate, as the pattern itself
  would, and stays when that one fails the check. `IbansMatchTheRule` is stated
  on candidates.
- Under strict privacy an outbound call to a host without a dot whose name holds a
  digit (`GET db1`) is read as a path and becomes `GET :id`.
- A text handed over while strict privacy was off, and still in a trail, a trace
  or a bucket, may leave after it was switched on in a payload built before or
  encoded earlier; `StrictTextNeverLeaves` speaks of payloads built under it and
  of texts handed over under it. Changes and metrics are not touched by it at all.
- Two threads whose first calls coincide may each create a configuration
  (`forgeops_tracker.c:47-52`): what the application then writes may land in the
  one that is lost. `StrictTextNeverLeaves` is stated up to that.

### Bounds

Capacities are 1 to 3 and the number of calls exceeds them, so full buffers,
drops and evictions happen; two application threads beside the worker are enough
for every pair of actors to overlap, one exiting while another captures included
(`performance` has one beside the worker, which already makes every overlap of a
record with a delivery and of two flushes). `MaxFailures` is 2 or 3, so a batch
fails, is retried and is given up, and another one after it. The statuses name
each outcome class. `MaxDepth = 2` with three span handles overflows the stack;
`MaxSpans = 4` fills a trace. `RingLimit = 3` with settings off, below, at and
above it covers every relation between limit and ring. `crash_store` has three
reports for a cap of two, two seconds and an age of less than one, so that a pass
evicts by number and by age, and three runs: what the first one answered and did not
delete the second sends again, and may fail to delete as well. The third report is
made only in a first run that exits (`ThirdAtExit`, a constraint), where the exit's
pass lists beside it and has two files to take. `crash_store_race`
has a cap of two and two runs.

`tracker` runs six programs: two threads making any one call each, which is
where first calls and the warning meet; one thread with four or five calls
around settings that change between a breadcrumb, a user and a capture, around
an open trace, and around samples; an installed handler with a trail that a crash
hands to the next run; and two threads whose features register their hooks in
both orders. `MaxRuns = 2`, two environments and three changes switch strict
privacy, scrubbing and the environment on and off in both directions.

In `scanners` a text grows by up to `MaxText = 5` characters (statements, numbers,
hosts, lists), `MaxTokens = 4` phrases of a statement, `MaxPieces = 3` pieces
(cards, IBANs, messages) or `MaxNamePieces = 4` characters (names, keys). Cards,
IBANs, messages and names start from texts one or two pieces short of what their
rules look for, so that both sides of each length are reached; card and IBAN
lengths are the code's. Segments of more than `MaxSegment = 2` characters are long,
`MaxNames = 2` tables are kept of up to four, `MaxSqlLength = 40` is beyond every
text and the cut is met as a text that stops anywhere. `MaxCuts = 2` cut writes
reach two damaged neighbours of a report. Breadcrumb entries use the code's
constants (`SlotSize`, `MaxMessageBytes`, `MaxTagBytes`), with texts on both sides
of each, plain, escaped and multibyte.

Two more constraints cut the exploration: `UpToOverlap` and `UpToReuseOrTear` stop
after the first overlap, name reuse or torn file. The flags are never reset and
the properties of those runs promise nothing once one is set, so what is cut off
cannot violate them; the state that sets the flag is still checked.
`ExitWaitsForOneFailure` alone does not mention the flags; it is checked up to
them, and proved beyond. Symmetry permutes threads and handles, which are never compared by order,
and is used in no run that checks liveness.

### Fairness

Only the library's own threads are assumed to run: the worker's timed wait
expires (`WorkerFlush`), libcurl's timeout ends every request (`FlushFinish`,
`WorkerSent`; `client.c` sets `CURLOPT_TIMEOUT` on every one), the worker of a
queue is scheduled, and so is the thread in the exit hooks. All of it is weak
fairness. Nothing is assumed of the application's calls, and no liveness property
relies on a spurious wakeup. `ExitCompletes` rests on there being finitely many
enqueue calls (`MaxBodies`): the worker leaves its loop only at an empty queue
(`spans.c:222`), so that threads which go on enqueueing during `exit()` can hold the
join.

## Proofs

`MetricsBuffer_proofs` proves, for any set of threads, any `MaxEntries` and
`MaxFailures` above zero, any number of captures and any set of statuses:

- `TypeCorrect`: `Spec => []TypeOK`, also when flushes overlap;
- `FrontIsStable`: `Spec => []BatchStaysInFront`;
- `NothingLost`: `Spec => []BufferedUntilSettled`;
- `RetriesAreBounded`: `Spec => []RetriesBounded`.

The assumptions are the modules' own, `ThreadsAssumption`, `LimitsAssumption` and
`StatusesAssumption`. None of the invariants is inductive alone. `IndInv` adds

- `CaptureOrder`: the entries are in capture order, hence distinct. Without it a
  removal of the front could leave a copy of a settled entry behind;
- `NothingAhead`: captures yet to come have left no trace, so that an append is
  of a fresh entry;
- until an overlap, `Quiet`: at most one flush is in flight (`OneInFlight`), its
  batch is the front of the buffer (`Front`), an entry is buffered exactly while
  its fate says so (`Buffered`), and entries were sent once per failure in a row
  and once more in flight, the ones behind the batch never (`Attempts`).

`Inductive` shows `Spec => []IndInv` with one lemma per action; the theorems
follow by `IndInv => Inv`. Two more invariants rest on it:

- `OldestCounts`: until an overlap the failure count, which the code keeps per
  buffer, is the number of finished attempts of the oldest entry
  (`FailuresAreTheOldests`). From it the action property: `GivingUpIsEarned`,
  `Spec => GivesUpOnlyWhenEarned`;
- `Offered`: what is in flight or settled was sent, and how far the exit has come:
  a hook that was never registered leaves an empty buffer, and one that has
  started has sent all that was captured before `exit()` (`NothingLeavesUnsent`).
  From it `ExitOffersAll`, `Spec => []ExitOffersEveryCapture`.

`DeliveryQueue_proofs` proves, for any set of threads, any `QueueLimit` above zero
and any number of enqueue calls (`QueueAssumption`):

- `TypeCorrect`: `Spec => []TypeOK`, hence the array never overflows;
- `OnceInOrder`: `Spec => []EachBodyOnceInOrder`;
- `ExitDrains`: `Spec => []ExitDrainsQueue`;
- `ImplementsOutbox`: `Spec => OutboxSpec`, with `waiting <- inHand \o queue`.

Its `IndInv` adds to the first two

- `WorkerLinks`: the thread exists exactly when `worker_running` says so, and has a
  body in hand exactly while it sends. Taking a body off the queue keeps the order
  only because the hand is empty then, and enqueue never restarts a worker that
  is done;
- `ExitProgress`: how far the exit has come. The worker is done only after the
  hook asked it to stop, with everything accepted before `exit()` handed over; a
  hook that joined found it done;
- `OldBodies`: an accepted body has the number of a call already made, so that
  the body of the next call is a fresh one, as `FifoOutbox!Accept` asks.

In the refinement `Enqueue` is an `Accept`, `WorkerSent` a `HandOver`, and every
other step, `WorkerTake` among them, leaves the box as it is.

`Breadcrumbs_proofs` proves, for any `RingLimit` above zero, any settings of
`max_breadcrumbs` (negative ones too) and any number of adds:

- `ReportsAreWhole`: `Spec => []NoTornEntry`;
- `RingHoldsTheLatest`: `Spec => []RingIsTrail`;
- `SurvivorsReachTheReport`: `Spec => []SurvivorsAreReported`.

The three speak of the ring between calls or of what a signal finds; `IndInv` says
what every single store leaves: `HoldsLatest`, that slot by slot the ring holds the
latest entries of the trail, one fewer than `count` says between the two stores of
a trim; `WritesPastNewest`, that the slot being copied into is the one past the
newest, and no other slot is torn; `Sized`, that a ring has slots before it has
entries. `ModFacts` and `PlaceFacts` are the arithmetic of a ring: at most one wrap
is taken off, and distinct entries lie in distinct slots.

`SpanTree_proofs` proves, for any handles, `MaxDepth` and `MaxSpans` above zero and
any number of ids:

- `OneHandleOwns`: `Spec => []OneOwner`;
- `ParentsAreHeldOpen`: `Spec => []NestsUnderOpenSpan`;
- `BodiesAreTrees`: `Spec => []QueuedTracesAreTrees`;
- `StoppedSpansAreThere`: `Spec => []StoppedSpansAreQueued`.

What a queued trace promises is earned while it is open. `TraceWell` says of the open
trace that each id it drew is its root, recorded once, or still held by a handle,
unless it is full (`Complete`), that a recorded span is held no more (`Recorded`),
and that the stack is spans still held, oldest first (`Stacked`); `HandlesDiffer`,
that no two handles hold one span, without which a stop could take another's id off
the stack. `BodyWell` is what stays of it in a queued body, and `Over` says why it
stays: a queued trace draws no more ids. An id is a number in the order of drawing,
so that a parent is older than its child.

`PerformanceFlusher_proofs` proves, for any threads, names, natural durations, slots
and failures:

- `BucketsAreExact`: `Spec => []TalliesMatchRecords`;
- `MaxIsEnough`: `Spec => []MaxNeverUnderstates`;
- `PeriodsPartition`: `Spec => []PeriodsPartitionRecords`.

`FlightWell` says what a flush in flight holds while no other is: the exact tally of
the records it covers, which are still open, for a period that starts where the
current one does and ends before anything recorded since. The subtraction that
follows is then of a subset's tally. That a sum over a set is the sum over a subset
and over the rest is `SumDifference`; that `MapThenSumSet`, defined by an arbitrary
choice of the next element, does not depend on it is `SumAnyStep`.

`CrashStore_proofs` proves, for any threads, any number of reports and runs, any cap
above zero and any age:

- `StoredSurvives`: `Spec => []StoredReportsSurvive`;
- `AnsweredGo`: `Spec => []AnsweredReportsGo`;
- `ExitEmptiesTheStore`: `Spec => []ExitUploadsEverything`;
- `ExitWaitIsBounded`: `Spec => []ExitWaitsForOneFailure`, with no condition.

As long as no name was given twice and no pass met a file half-written, `FilesWell`
says that file and report belong together: no two files of one report, a whole file
is a stored report or an answered one, a partial one has a writer or lost it in a crash. `WritersWell`
gives a capture its name and file to itself. `ReadWell` is the point of the proof: what
a pass has read under a name is still what lies there, if anything does, so the
delete that follows an answer takes the report that was answered for, also when two
passes work on one file or a capture runs beside them. Between the answer and the
delete, `Settled` takes over: a file a pass is about to delete is one it has listed,
nobody is writing it, and after an answer nobody waits for it (`DeleteWell`); and
whatever was answered and still lies on disk is about to be deleted, or has its mark
in `cutShort` (`AnsweredWell`). `ExitListed` says that what
was stored at `exit()` and still is has been listed by the hook's pass; `HasWriter`
and `Marked`, that nothing is stored behind its back that `exit()` counted. Whether
`exit()` waits for at most `MaxPending` requests depends on the order of names being
total: `CapLeaves` counts the files that the cap keeps, from the proof that the
decimal digits of two numbers differ (the recursive function `DecimalDigits` exists,
and is injective) and that `ComparePending` is a strict total order.

`Tracker_proofs` proves, for any threads, programs, settings, keys and number of runs:

- `WarningIsGivenOnce`: `Spec => []WarnsOnceWhenDue`;
- `ExitIsComplete`: `Spec => []ExitLeavesNothingBehind`;
- `TextIsPrivate`: `Spec => []StrictTextNeverLeaves`.

Each has an argument of its own. `WarnWell`: once the flag is set the warning was
given, could not be, or is being given by one thread, which is the only one to print;
and a call past the check that found the warning due has seen the flag set.
`HookWell`: while nothing was missed, what there is to deliver, and each report of
this run, has its hook still to come (`Comes`: it is registered, or a capture is
about to register it), the span queue unless it has no worker; the features have one
flag each, and hooks run last first, so that popping one hook takes the claim of its
own feature only. `SpansWell`: the hook of the span queue runs once, and only it stops
the worker, so that a worker is running when that hook runs or there never was one. For privacy, while no
two first calls have overlapped: `OneConfig`, there is one struct, each call that
holds one holds that, and it has what the application asked for last; therefore
`ItemsWell`, each item, wherever it lies, was made under the settings asked for when
its text was handed over, and a breadcrumb, which later payloads take up under later
settings, was handed over without strict privacy. `InTrace` says that a call on a
trace is in one. One lemma per builder of a payload (`TrailTaken`, `UserTaken`,
`TextTaken`, `EventTaken`, `ReportTaken`) says that what it makes may leave.

`Scanners_proofs` proves what the readers of texts compute, for texts of any length,
first as a fact about the reader and then as the invariant of the run, for every
bound on its growth:

- `SqlLiterals`, `ScannedLiteralsNeverSurvive`: `ScanSpec => []SqlLiteralsNeverSurvive`;
- `MessagesNormalize`, `ScannedMessagesAreNormalized`: `ScanSpec => []MessagesAreNormalized`;
- `ListedFields`, `TargetsMatch`, `DsnKeys`, `ScannedSettingsReadBack`:
  `ScanSpec => []SettingsReadBack`;
- `NamesHide`, `ScannedNamesAreCut`: `ScanSpec => []NamesAreCut`;
- `EveryEntryIsKept`, `ScannedEntriesAreKept`: `ScanSpec => []EntriesAreKept`;
- `ReportsReadBackWhole`, `ScannedReportsReadBack`: `ScanSpec => []CrashReportsReadBack`.

The step from the one to the other is the same for all of them: what is read of a
subject stays a text of its characters when a piece is added (`InputsAreTexts`).

A scanner's loop is a recursive function on positions. The first lemmas show that
such a function exists, that a loop which moves forward ends, and that what it
returns is the join of what its turns return (`RecursiveFunction`, `Joined`). Each
reader then has its own argument:

- *Statements.* The masking scanner and the one-character lexer of the property walk
  over the same text at different speeds. Wherever the scanner stops between two
  turns it is outside every literal of the lexer; a turn that starts at a quote ends
  where the lexer leaves the literal, or at the end of the text if nothing closes it.
  Numbers are met left to right, and a number that stands alone is met at its first
  digit.
- *Messages.* Each of the six steps finds what the longest shaped match, left to
  right, describes (`Finds`, `ScanFinds`), from the one fact that a step's matcher
  returns the longest match at a position or none; and what a step leaves is again a
  text, on which the next one works. "end", what a scanner sees past the last
  character, is a character of no text.
- *Settings.* The entries of a list are what lies between two neighbouring commas,
  and each is trimmed from both sides (`FieldsSplit`, `FieldsFound`). A target is a
  suffix of a host that starts at a dot exactly when its labels are the last of the
  host's (`LabelsAgree`); a target of a single dot names nothing and is left out. The
  decoder takes one encoded character off the front of a key at a time, and the
  encoding has no `@`, so that the first `@` of a DSN ends the key (`DsnSplits`).
- *Names.* The property compares the names made of two texts, one with a letter for
  everything that is hidden. What is hidden leaves the places of the separators up to
  the query, the scheme, what follows the last `@` of the authority and the first
  segment alone (`KeepsBare`, `HostStays`, `KeepsSegments`), and a segment that is
  hidden starts with no mark of a parameter, so that a raw path is not taken for a
  template (`NoTemplate`). Both texts are then cut at the same places and read as the
  same host or the same path (`PathHidden`, `AddressHidden`).
- *Entries.* The loop drops a pair only when the entry does not fit, and then the
  entry gets smaller; when all pairs are gone what the message has left is at least
  16 bytes. `SlotAssumption` says that a slot has room for that with the longest
  category and level, all of it escaped: with the code's constants, 1024 bytes of a
  slot against at most 64 in either tag, it has.
- *Crash reports.* `ReportInv`: as long as no write was cut, the reader of the next
  run gets exactly what was written so far, part by part; and no report has the token
  of a trace id if there was no trace.

The assumptions of every proof are the ASSUMEs of the modules, which TLC evaluates on
the instances it checks. Each `IndInv` was checked with TLC on the instance of its
run before it was proved. Attempts to prove corrected the models: a pass over a
directory in which every file is too old lists nothing (`crash_store.c`, `listed ==
0`), `SpanTree`'s assumptions now say that no trace is `NoTrace`, and the rule for
the numbers of a statement now takes those met from left to right: in `1e-2.5` the
`1e-2`, and not the `2.5` that begins inside it.

Inductions over data are written as the search for a least counterexample
(`LeastNatural`), since the library's induction rules take an operator that the
provers cannot instantiate.

Only model-checked: liveness (`EveryCaptureSettles`, `EveryTallySettles`,
`EveryBodyIsHandedOver`, `ExitCompletes`), which is out of the prover's reach; and of
the scanners `IbansAreScrubbed` and `CardsAreScrubbed`, which compare sums and
remainders over the digits of a text, and `SqlRelationsMatch`, which compares two
ways of folding over the tokens of a statement. The operators they are built from
(`FoldLeft`, `SelectSeq`) are not known to the provers.

## Not modelled

The string buffer is a growing array private to its caller, and the tests are
read as documentation. Left out of the modules that are there:

- the wording and encoding of payloads (JSON, numbers, times) and the HTTP
  exchange itself; allocation failures (each is an early return that loses the
  call at hand) other than that of the warning's text; I/O errors other than a
  missing directory, an unreadable report and cut writes: a capture whose `mkdir`,
  `fopen` or `fwrite` fails is lost, or leaves a report cut short; the
  test-only entry points (`*_for_testing`, hooks); NaN durations;
- the parsing of `backtrace_symbols` lines, and source context, which is taken for
  frames marked `in_app` only, and no frame is;
- the seven patterns of the scrubber, other than formatted cards, that are fixed
  texts handed to `regexec`; SHA-256; the cap of 200 bytes on a name in a
  statement and the step back to a UTF-8 boundary at its cut;
- the parsing of a `traceparent` value (usable or not in `SpanTree`) and the
  normalisation of changes;
- the bytes of two threads that crash at once into one report file, which depend on
  lengths the model abstracts from (`CrashStore` has the file, whole, replaced or
  mixed up); a second fatal signal on a thread that is inside the handler; a tick of
  the clock between `time()` and `open()` in the handler;
- the normalisation of a key and the match with the list of sensitive ones
  (`pii_scrubber.c:371-387`): `EventBuilder` has one key that is sensitive and others
  that are not;
- of a DSN without a key, other shapes than `s://@host...`: `s://h/@/events` is read
  as one with a key, and `SettingsReadBack` does not speak of it. The 20 bytes into
  which card digits are joined are not bounded in the model: `CardsAreScrubbed`
  compares results, and an overflow of that array could not be seen;
- settings written by one thread in the middle of another's call, and two
  first calls of `install_handlers` at once (`handlers_installed` is a plain int);
- in `Tracker`, metrics and changes, whose calls and hooks have the shape of the
  ones there: their modules have them.

## Plan

Done: metric buffers, performance, queues with their abstract specification, span
tree, crash store, breadcrumbs, crash report; the public calls on their shared
settings with what leaves the process; the readers of statements, texts, names and
settings against the rules they stand for. Every safety property of the runs is
proved, except three of the scanners': the tables of a statement, IBANs and cards.

Next, in this order:

1. Proofs that reach across modules: the order of two flushes as a condition on the
   callers under which `overlapped` stays false, so that the promises of the two
   buffers hold without it.
2. The bytes of two threads crashing into one report file.
3. `traceparent` parsing and the normalisation of changes.
