--------------------------- MODULE MetricsBuffer ---------------------------
(***************************************************************************)
(* One of the two metric buffers of src/metrics.c, the threads that        *)
(* capture into it, and everything that flushes it: the buffer's own       *)
(* worker thread, any application thread that calls forgeops_tracker_flush *)
(* or forgeops_tracker_flush_metrics, and the atexit hook.                 *)
(*                                                                         *)
(* A critical section of the code is one step.  A flush is two: it copies  *)
(* the entries under the lock, releases the lock around the network call,  *)
(* and takes it again to remove what it sent.  Nothing stops a second      *)
(* flush from starting in between.                                         *)
(*                                                                         *)
(* Entries are numbered by the capture call that made them.                *)
(***************************************************************************)
EXTENDS Client, Sequences, Functions

CONSTANTS
  Threads,      \* application threads
  Worker,       \* the buffer's flush thread
  NoThread,     \* "no thread has called exit()"
  MaxEntries,   \* FORGEOPS_METRICS_MAX_ENTRIES
  MaxFailures,  \* FORGEOPS_METRICS_MAX_CONSECUTIVE_FAILURES
  MaxRecords    \* bound: how many capture calls a behaviour makes

ASSUME ThreadsAssumption ==
  /\ Worker \notin Threads
  /\ NoThread \notin Threads \cup {Worker}
ASSUME LimitsAssumption ==
  /\ MaxEntries \in Nat \ {0}
  /\ MaxFailures \in Nat \ {0}
  /\ MaxRecords \in Nat

Flushers == Threads \cup {Worker}
Ids == 1..MaxRecords

VARIABLES
  \* the buffer_t
  entries,        \* entries[0 .. count-1], oldest first
  failures,       \* consecutive_failures
  workerRunning,  \* worker_running
  \* the process
  phase,          \* "running", "exiting", "ended", or "corrupt": the heap is gone
  exiter,         \* the thread inside exit(), or NoThread
  hook,           \* flush_at_exit: "none", "registered" or "started"
  batch,          \* per thread, the entries of its flush in flight; << >> outside one
  \* history, read by no action of the code
  recorded,       \* capture calls made so far
  fate,           \* per entry, what became of it
  sent,           \* per entry, the delivery attempts that carried it
  exitMark,       \* capture calls that had returned when exit() was called
  overlapped      \* some flush started while another one was in flight

bufferVars  == <<entries, failures, workerRunning>>
processVars == <<phase, exiter, hook, batch>>
historyVars == <<recorded, fate, sent, exitMark, overlapped>>
vars == <<bufferVars, processVars, historyVars>>

Fates == {"unrecorded", "dropped", "buffered", "abandoned", Delivered, Rejected}

TypeOK ==
  /\ entries \in Seq(Ids) /\ Len(entries) <= MaxEntries
  /\ failures \in 0..(MaxFailures - 1)
  /\ workerRunning \in BOOLEAN
  /\ phase \in {"running", "exiting", "ended", "corrupt"}
  /\ exiter \in Threads \cup {NoThread}
  /\ hook \in {"none", "registered", "started"}
  /\ batch \in [Flushers -> Seq(Ids)]
  /\ recorded \in 0..MaxRecords
  /\ fate \in [Ids -> Fates]
  /\ sent \in [Ids -> Nat]
  /\ exitMark \in 0..MaxRecords
  /\ overlapped \in BOOLEAN

Init ==
  /\ entries = << >> /\ failures = 0 /\ workerRunning = FALSE
  /\ phase = "running" /\ exiter = NoThread /\ hook = "none"
  /\ batch = [t \in Flushers |-> << >>]
  /\ recorded = 0 /\ exitMark = 0 /\ overlapped = FALSE
  /\ fate = [e \in Ids |-> "unrecorded"]
  /\ sent = [e \in Ids |-> 0]

-----------------------------------------------------------------------------
Alive == phase \in {"running", "exiting"}

\* Application code runs on t: t is in no flush and not in the exit hooks.
Free(t) == Alive /\ t # exiter /\ batch[t] = << >>

InFlight == {t \in Flushers : batch[t] # << >>}

\* A registration that waits for the worker thread to be there.
MutEnsureWorkerStarted ==
  /\ workerRunning' \in (IF workerRunning THEN {TRUE} ELSE BOOLEAN)
  /\ hook' = IF hook = "none" /\ workerRunning' THEN "registered" ELSE hook

\* ensure_worker_started: the atexit hook is registered once; pthread_create
\* may fail, and is then tried again by the next capture.
EnsureWorkerStarted ==
  /\ hook' = IF hook = "none" THEN "registered" ELSE hook
  /\ workerRunning' \in (IF workerRunning THEN {TRUE} ELSE BOOLEAN)

\* One entry more than the array holds.
MutHasRoom == Len(entries) <= MaxEntries

HasRoom == Len(entries) < MaxEntries

\* A full buffer that makes room by dropping its oldest entry.
MutRecordFull(t) ==
  /\ Free(t)
  /\ recorded < MaxRecords
  /\ ~HasRoom
  /\ recorded' = recorded + 1
  /\ entries' = Append(Tail(entries), recorded + 1)
  /\ fate' = [fate EXCEPT ![recorded + 1] = "buffered", ![entries[1]] = "dropped"]
  /\ UNCHANGED <<failures, workerRunning, processVars, sent, exitMark, overlapped>>

\* forgeops_metrics_record on a full buffer: the newest entry is dropped,
\* before the worker is looked at.
RecordFull(t) ==
  /\ Free(t)
  /\ recorded < MaxRecords
  /\ ~HasRoom
  /\ recorded' = recorded + 1
  /\ fate' = [fate EXCEPT ![recorded + 1] = "dropped"]
  /\ UNCHANGED <<bufferVars, processVars, sent, exitMark, overlapped>>

\* forgeops_metrics_record, the entry kept.
Record(t) ==
  /\ Free(t)
  /\ recorded < MaxRecords
  /\ HasRoom
  /\ EnsureWorkerStarted
  /\ recorded' = recorded + 1
  /\ entries' = Append(entries, recorded + 1)
  /\ fate' = [fate EXCEPT ![recorded + 1] = "buffered"]
  /\ UNCHANGED <<failures, phase, exiter, batch, sent, exitMark, overlapped>>

-----------------------------------------------------------------------------
(***************************************************************************)
(* forgeops_metrics_flush.                                                 *)
(***************************************************************************)

\* From the lock to the unlock before the request.  An empty buffer is an
\* early return.
FlushSnapshot(t) ==
  /\ entries # << >>
  /\ batch' = [batch EXCEPT ![t] = entries]
  /\ sent' = [e \in Ids |-> IF e \in Range(entries) THEN sent[e] + 1 ELSE sent[e]]
  /\ overlapped' = (overlapped \/ InFlight # {})

\* A worker that stops trying once a delivery has failed.
MutWorkerFlush ==
  /\ Alive /\ workerRunning /\ batch[Worker] = << >> /\ failures = 0
  /\ FlushSnapshot(Worker)
  /\ UNCHANGED <<bufferVars, phase, exiter, hook, recorded, fate, exitMark>>

\* The worker's timed wait ran out (or woke spuriously).
WorkerFlush ==
  /\ Alive /\ workerRunning /\ batch[Worker] = << >>
  /\ FlushSnapshot(Worker)
  /\ UNCHANGED <<bufferVars, phase, exiter, hook, recorded, fate, exitMark>>

\* An application thread calls forgeops_tracker_flush[_metrics].
CallerFlush(t) ==
  /\ Free(t)
  /\ FlushSnapshot(t)
  /\ UNCHANGED <<bufferVars, phase, exiter, hook, recorded, fate, exitMark>>

\* One failure too many before the batch is let go.
MutKeepForRetry(status) ==
  OutcomeForStatus(status) = Failed /\ failures + 1 <= MaxFailures

\* A failure for now keeps the batch where it is, up to MaxFailures in a row.
KeepForRetry(status) ==
  OutcomeForStatus(status) = Failed /\ failures + 1 < MaxFailures

\* The Ruby gem's flush: clears the list.
MutRemoveFirst(n) ==
  IF n <= Len(entries)
    THEN entries' = << >> /\ UNCHANGED phase
    ELSE phase' = "corrupt" /\ UNCHANGED entries

\* free the first n entries, memmove the rest down, count -= n.  With fewer
\* than n entries left the frees hit pointers already freed and the unsigned
\* count wraps: undefined, and the model stops there.
RemoveFirst(n) ==
  IF n <= Len(entries)
    THEN entries' = SubSeq(entries, n + 1, Len(entries)) /\ UNCHANGED phase
    ELSE phase' = "corrupt" /\ UNCHANGED entries

FinishedFate(status) ==
  IF OutcomeForStatus(status) = Failed THEN "abandoned" ELSE OutcomeForStatus(status)

FlushKept(t, status) ==
  /\ Alive /\ batch[t] # << >>
  /\ KeepForRetry(status)
  /\ failures' = failures + 1
  /\ batch' = [batch EXCEPT ![t] = << >>]
  /\ UNCHANGED <<entries, workerRunning, phase, exiter, hook, historyVars>>

\* Let go without forgetting the failures that led to it.
MutFlushRemoved(t, status) ==
  /\ Alive /\ batch[t] # << >>
  /\ ~KeepForRetry(status)
  /\ failures' = IF OutcomeForStatus(status) = Failed THEN failures ELSE 0
  /\ RemoveFirst(Len(batch[t]))
  /\ fate' = [e \in Ids |-> IF e \in Range(batch[t]) THEN FinishedFate(status) ELSE fate[e]]
  /\ batch' = [batch EXCEPT ![t] = << >>]
  /\ UNCHANGED <<workerRunning, exiter, hook, recorded, sent, exitMark, overlapped>>

\* Delivered, rejected, or failed once too often.
FlushRemoved(t, status) ==
  /\ Alive /\ batch[t] # << >>
  /\ ~KeepForRetry(status)
  /\ failures' = 0
  /\ RemoveFirst(Len(batch[t]))
  /\ fate' = [e \in Ids |-> IF e \in Range(batch[t]) THEN FinishedFate(status) ELSE fate[e]]
  /\ batch' = [batch EXCEPT ![t] = << >>]
  /\ UNCHANGED <<workerRunning, exiter, hook, recorded, sent, exitMark, overlapped>>

\* The reply arrived and the lock is taken again.
FlushFinish(t) == \E status \in Statuses : FlushKept(t, status) \/ FlushRemoved(t, status)

-----------------------------------------------------------------------------
(***************************************************************************)
(* A normal exit.  The other threads, the worker among them, go on running *)
(* until the hooks have returned.                                          *)
(***************************************************************************)

\* A thread returns from main or calls exit().
Exit(t) ==
  /\ phase = "running" /\ Free(t)
  /\ phase' = "exiting"
  /\ exiter' = t
  /\ exitMark' = recorded
  /\ UNCHANGED <<bufferVars, hook, batch, recorded, fate, sent, overlapped>>

\* flush_at_exit reaches this buffer.
ExitFlush ==
  /\ phase = "exiting" /\ hook = "registered"
  /\ hook' = "started"
  /\ \/ FlushSnapshot(exiter)
     \/ entries = << >> /\ UNCHANGED <<batch, sent, overlapped>>
  /\ UNCHANGED <<bufferVars, phase, exiter, recorded, fate, exitMark>>

\* The hooks have returned: every thread dies where it stands.
ProcessEnd ==
  /\ phase = "exiting" /\ hook # "registered" /\ batch[exiter] = << >>
  /\ phase' = "ended"
  /\ UNCHANGED <<bufferVars, exiter, hook, batch, historyVars>>

\* Nothing runs any more.
Terminated == ~Alive /\ UNCHANGED vars

Next ==
  \/ \E t \in Threads : \/ RecordFull(t) \/ Record(t)
                        \/ CallerFlush(t) \/ Exit(t)
  \/ WorkerFlush
  \/ \E t \in Flushers : FlushFinish(t)
  \/ ExitFlush
  \/ ProcessEnd
  \/ Terminated

Spec == Init /\ [][Next]_vars

\* The worker's wait always times out, and libcurl's timeout ends every
\* request, so a flush in flight always finishes.
Fairness ==
  /\ WF_vars(WorkerFlush)
  /\ \A t \in Flushers : WF_vars(FlushFinish(t))

FairSpec == Spec /\ Fairness

-----------------------------------------------------------------------------
(***************************************************************************)
(* What the buffer promises.  All of it needs flushes not to overlap, which *)
(* the code does not ensure: see RemovesExactlyItsBatch.                    *)
(***************************************************************************)

\* The removal after a flush (metrics.c:171-173) takes the first N entries,
\* whatever they are: it is right only while the batch in flight is still
\* the front of the buffer, and never reaches freed memory.
BatchStaysInFront ==
  ~overlapped =>
    /\ phase # "corrupt"
    /\ \A t \in Flushers :
         /\ Len(batch[t]) <= Len(entries)
         /\ \A i \in 1..Len(batch[t]) : batch[t][i] = entries[i]

\* An accepted capture stays in the buffer until its own batch was
\* delivered, rejected or let go, whatever was captured while requests were
\* in flight; and an entry whose batch is settled is not in the buffer, so it
\* is never sent again.
BufferedUntilSettled ==
  ~overlapped => \A e \in Ids : fate[e] = "buffered" <=> e \in Range(entries)

\* A server that never answers sees no entry more than MaxFailures times.
RetriesBounded ==
  ~overlapped => \A e \in Ids : sent[e] <= MaxFailures

\* A batch is only let go when its oldest entry has failed MaxFailures
\* times: failures of earlier batches never count against it.
GivesUpOnlyWhenEarned ==
  [][LET gone == {e \in Ids : fate[e] # "abandoned" /\ fate'[e] = "abandoned"}
     IN  ~overlapped /\ gone # {} => \E e \in gone : sent[e] = MaxFailures]_vars

\* A normal exit offers every capture accepted before exit() was called to
\* the server at least once, also when the worker thread could never be
\* started (the atexit hook of metrics.c:59-74).
ExitOffersEveryCapture ==
  phase = "ended" /\ ~overlapped =>
    \A e \in 1..exitMark : fate[e] # "dropped" => sent[e] >= 1

\* While the worker runs no entry stays in the buffer for ever, not even when
\* no delivery ever succeeds and other threads keep flushing.
EveryCaptureSettles ==
  \A e \in Ids : (e \in Range(entries) /\ workerRunning) ~> (e \notin Range(entries) \/ ~Alive)

\* metrics.h: "A flush snapshots the first N entries and, on success,
\* removes exactly those N".  Violated by two flushes in flight at once.
RemovesExactlyItsBatch ==
  [][\A t \in Flushers :
       batch[t] # << >> /\ batch'[t] = << >> /\ failures' = 0
         => batch[t] \o entries' = entries]_vars
=============================================================================
