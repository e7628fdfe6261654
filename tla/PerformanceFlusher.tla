------------------------- MODULE PerformanceFlusher -------------------------
(***************************************************************************)
(* src/performance.c: durations tallied per transaction name, and their    *)
(* periodic flush.  Where metrics.c keeps a list, this keeps one bucket    *)
(* (count, sum, max) per name and, after a delivery, subtracts from each   *)
(* bucket what the delivered snapshot held.                                *)
(*                                                                         *)
(* A critical section is one step; a flush is two, around the unlocked     *)
(* network call.  Durations are whole milliseconds; names are the ones     *)
(* that remain after strict privacy has cut them.                          *)
(***************************************************************************)
EXTENDS Client, Sequences, FiniteSetsExt

CONSTANTS
  Threads,          \* application threads
  Worker,           \* the flush thread
  NoThread,         \* "no thread has called exit()"
  Names,            \* transaction names
  Durations,        \* durations a call may take, in ms
  MaxTransactions,  \* FORGEOPS_PERFORMANCE_MAX_TRANSACTIONS
  MaxFailures,      \* FORGEOPS_PERFORMANCE_MAX_CONSECUTIVE_FAILURES
  MaxRecords,       \* bound: how many durations a behaviour records
  MaxTime           \* bound: how far the clock runs

ASSUME PerformanceAssumption ==
  /\ Worker \notin Threads
  /\ NoThread \notin Threads \cup {Worker}
  /\ Durations \subseteq Nat
  /\ MaxTransactions \in Nat \ {0}
  /\ MaxFailures \in Nat \ {0}
  /\ MaxRecords \in Nat
  /\ MaxTime \in Nat

Flushers == Threads \cup {Worker}
Bucket == [count : Nat, sum : Nat, max : Nat]
IsTally(f) == DOMAIN f \subseteq Names /\ f \in [DOMAIN f -> Bucket]

VARIABLES
  buckets,        \* per name that has one, its bucket
  periodStart,    \* period_started_at
  failures,       \* consecutive_failures
  workerRunning,  \* worker_running
  clock,          \* time(NULL)
  phase,          \* "running", "exiting" or "ended"
  exiter,         \* the thread inside exit(), or NoThread
  hook,           \* flush_at_exit: "none", "registered" or "started"
  flight,         \* per thread, its flush in flight, or NoFlush
  \* history, read by no action of the code
  records,        \* every duration that was tallied: name, duration, time
  open,           \* the ones no finished batch has taken away
  overlapped      \* some flush started while another one was in flight

tallyVars   == <<buckets, periodStart, failures, workerRunning>>
processVars == <<phase, exiter, hook>>
historyVars == <<records, open, overlapped>>
vars == <<tallyVars, clock, processVars, flight, historyVars>>

\* A flush between its two critical sections: the snapshot, the period it is
\* sent for, and (history) the records that were open when it was taken.
\* A flush always holds a bucket, so the empty snapshot means "in no flush".
NoFlush == [snapshot |-> << >>, from |-> 0, to |-> 0, covers |-> {}]
InFlight == {t \in Flushers : flight[t] # NoFlush}

TypeOK ==
  /\ IsTally(buckets)
  /\ Cardinality(DOMAIN buckets) <= MaxTransactions
  /\ \A n \in DOMAIN buckets : buckets[n].count > 0
  /\ periodStart \in 0..MaxTime
  /\ failures \in 0..(MaxFailures - 1)
  /\ workerRunning \in BOOLEAN
  /\ clock \in 0..MaxTime
  /\ phase \in {"running", "exiting", "ended"}
  /\ exiter \in Threads \cup {NoThread}
  /\ hook \in {"none", "registered", "started"}
  /\ \A t \in InFlight : /\ IsTally(flight[t].snapshot)
                         /\ flight[t].from \in 0..MaxTime
                         /\ flight[t].to \in 0..MaxTime
                         /\ flight[t].covers \subseteq 1..Len(records)
  /\ records \in Seq([name : Names, duration : Durations, at : 0..MaxTime])
  /\ Len(records) <= MaxRecords
  /\ open \subseteq 1..Len(records)
  /\ overlapped \in BOOLEAN

Init ==
  /\ buckets = << >> /\ periodStart = 0 /\ failures = 0 /\ workerRunning = FALSE
  /\ clock = 0
  /\ phase = "running" /\ exiter = NoThread /\ hook = "none"
  /\ flight = [t \in Flushers |-> NoFlush]
  /\ records = << >> /\ open = {} /\ overlapped = FALSE

-----------------------------------------------------------------------------
Alive == phase # "ended"
Free(t) == Alive /\ t # exiter /\ flight[t] = NoFlush

Tick ==
  /\ Alive /\ clock < MaxTime
  /\ clock' = clock + 1
  /\ UNCHANGED <<tallyVars, processVars, flight, historyVars>>

\* ensure_worker_started: pthread_create may fail and is then tried again.
EnsureWorkerStarted ==
  /\ hook' = IF hook = "none" THEN "registered" ELSE hook
  /\ workerRunning' \in (IF workerRunning THEN {TRUE} ELSE BOOLEAN)

EmptyBucket == [count |-> 0, sum |-> 0, max |-> 0]

Larger(a, b) == IF a > b THEN a ELSE b

\* A max that follows the latest duration.
MutTallied(bucket, duration) ==
  [count |-> bucket.count + 1, sum |-> bucket.sum + duration, max |-> duration]

Tallied(bucket, duration) ==
  [count |-> bucket.count + 1,
   sum   |-> bucket.sum + duration,
   max   |-> Larger(bucket.max, duration)]

\* A name keeps its bucket; a new one needs a free slot.
HasSlot(name) ==
  name \in DOMAIN buckets \/ Cardinality(DOMAIN buckets) < MaxTransactions

\* The first bucket of an empty set starts the period.
PeriodAfterRecord(name) == IF DOMAIN buckets = {} THEN clock ELSE periodStart

\* forgeops_performance_record, the duration tallied.
Record(t, name, duration) ==
  /\ Free(t)
  /\ Len(records) < MaxRecords
  /\ HasSlot(name)
  /\ EnsureWorkerStarted
  /\ periodStart' = PeriodAfterRecord(name)
  /\ buckets' = [n \in DOMAIN buckets \cup {name} |->
                   LET current == IF n \in DOMAIN buckets THEN buckets[n] ELSE EmptyBucket
                   IN  IF n = name THEN Tallied(current, duration) ELSE current]
  /\ records' = Append(records, [name |-> name, duration |-> duration, at |-> clock])
  /\ open' = open \cup {Len(records) + 1}
  /\ UNCHANGED <<failures, clock, phase, exiter, flight, overlapped>>

\* forgeops_performance_record past the cap: the new name is dropped, after
\* the worker was looked at.
RecordPastCap(t, name) ==
  /\ Free(t)
  /\ ~HasSlot(name)
  /\ EnsureWorkerStarted
  /\ UNCHANGED <<buckets, periodStart, failures, clock, phase, exiter, flight, historyVars>>

-----------------------------------------------------------------------------
(***************************************************************************)
(* forgeops_performance_flush.                                             *)
(***************************************************************************)

\* From the lock to the unlock before the request.  No bucket is an early
\* return.
FlushSnapshot(t) ==
  /\ DOMAIN buckets # {}
  /\ flight' = [flight EXCEPT ![t] =
       [snapshot |-> buckets, from |-> periodStart, to |-> clock, covers |-> open]]
  /\ overlapped' = (overlapped \/ InFlight # {})

\* A worker that stops trying once a delivery has failed.
MutWorkerFlush ==
  /\ Alive /\ workerRunning /\ flight[Worker] = NoFlush /\ failures = 0
  /\ FlushSnapshot(Worker)
  /\ UNCHANGED <<tallyVars, clock, processVars, records, open>>

\* worker_main's timed wait ran out.
WorkerFlush ==
  /\ Alive /\ workerRunning /\ flight[Worker] = NoFlush
  /\ FlushSnapshot(Worker)
  /\ UNCHANGED <<tallyVars, clock, processVars, records, open>>

\* An application thread calls forgeops_tracker_flush.
CallerFlush(t) ==
  /\ Free(t)
  /\ FlushSnapshot(t)
  /\ UNCHANGED <<tallyVars, clock, processVars, records, open>>

\* A failure for now keeps the tallies, up to MaxFailures in a row.
KeepForRetry(status) ==
  OutcomeForStatus(status) = Failed /\ failures + 1 < MaxFailures

Minus(a, b) == IF a > b THEN a - b ELSE 0

\* What is left of a name's bucket once its share of the snapshot is gone;
\* the max stays.
Subtracted(name, snapshot) ==
  IF name \in DOMAIN snapshot
    THEN [count |-> Minus(buckets[name].count, snapshot[name].count),
          sum   |-> Minus(buckets[name].sum, snapshot[name].sum),
          max   |-> buckets[name].max]
    ELSE buckets[name]

\* Clears every bucket the snapshot names, whatever was tallied since.
MutRemoveSnapshot(snapshot) ==
  buckets' = [n \in DOMAIN buckets \ DOMAIN snapshot |-> buckets[n]]

\* Subtracts the snapshot and gives up the buckets that become empty.
RemoveSnapshot(snapshot) ==
  buckets' = [n \in {m \in DOMAIN buckets : Subtracted(m, snapshot).count > 0} |->
                Subtracted(n, snapshot)]

FlushKept(t, status) ==
  /\ Alive /\ flight[t] # NoFlush
  /\ KeepForRetry(status)
  /\ failures' = failures + 1
  /\ flight' = [flight EXCEPT ![t] = NoFlush]
  /\ UNCHANGED <<buckets, periodStart, workerRunning, clock, processVars, historyVars>>

\* The next period starts when this batch was finished, not when it was cut.
MutFlushRemoved(t, status) ==
  /\ Alive /\ flight[t] # NoFlush
  /\ ~KeepForRetry(status)
  /\ failures' = 0
  /\ RemoveSnapshot(flight[t].snapshot)
  /\ periodStart' = clock
  /\ open' = open \ flight[t].covers
  /\ flight' = [flight EXCEPT ![t] = NoFlush]
  /\ UNCHANGED <<workerRunning, clock, processVars, records, overlapped>>

\* Delivered, rejected, or failed once too often.
FlushRemoved(t, status) ==
  /\ Alive /\ flight[t] # NoFlush
  /\ ~KeepForRetry(status)
  /\ failures' = 0
  /\ RemoveSnapshot(flight[t].snapshot)
  /\ periodStart' = flight[t].to
  /\ open' = open \ flight[t].covers
  /\ flight' = [flight EXCEPT ![t] = NoFlush]
  /\ UNCHANGED <<workerRunning, clock, processVars, records, overlapped>>

FlushFinish(t) == \E status \in Statuses : FlushKept(t, status) \/ FlushRemoved(t, status)

-----------------------------------------------------------------------------
Exit(t) ==
  /\ phase = "running" /\ Free(t)
  /\ phase' = "exiting"
  /\ exiter' = t
  /\ UNCHANGED <<tallyVars, clock, hook, flight, historyVars>>

\* flush_at_exit.
ExitFlush ==
  /\ phase = "exiting" /\ hook = "registered"
  /\ hook' = "started"
  /\ \/ FlushSnapshot(exiter)
     \/ DOMAIN buckets = {} /\ UNCHANGED <<flight, overlapped>>
  /\ UNCHANGED <<tallyVars, clock, phase, exiter, records, open>>

ProcessEnd ==
  /\ phase = "exiting" /\ hook # "registered" /\ flight[exiter] = NoFlush
  /\ phase' = "ended"
  /\ UNCHANGED <<tallyVars, clock, exiter, hook, flight, historyVars>>

Terminated == phase = "ended" /\ UNCHANGED vars

Next ==
  \/ Tick
  \/ \E t \in Threads :
       \/ \E n \in Names : RecordPastCap(t, n) \/ \E d \in Durations : Record(t, n, d)
       \/ CallerFlush(t) \/ Exit(t)
  \/ WorkerFlush
  \/ \E t \in Flushers : FlushFinish(t)
  \/ ExitFlush
  \/ ProcessEnd
  \/ Terminated

Spec == Init /\ [][Next]_vars

\* The worker's wait always times out and libcurl's timeout ends a request.
Fairness ==
  /\ WF_vars(WorkerFlush)
  /\ \A t \in Flushers : WF_vars(FlushFinish(t))

FairSpec == Spec /\ Fairness

-----------------------------------------------------------------------------
OpenOf(name) == {r \in open : records[r].name = name}

TalliesAreExact ==
  /\ DOMAIN buckets = {records[r].name : r \in open}
  /\ Cardinality(DOMAIN buckets) <= MaxTransactions
  /\ \A n \in DOMAIN buckets :
       /\ buckets[n].count = Cardinality(OpenOf(n))
       /\ buckets[n].sum = MapThenSumSet(LAMBDA r : records[r].duration, OpenOf(n))

\* As long as flushes do not overlap (two that do subtract the same snapshot
\* twice), the buckets hold exactly the durations no finished batch has
\* carried, the ones recorded while a request was in flight included, in at
\* most MAX_TRANSACTIONS slots (performance.c:99-109, 232-248).
TalliesMatchRecords == ~overlapped => TalliesAreExact

\* A max is never below a duration still to be sent, although it is never
\* recomputed when part of its bucket is subtracted (performance.c:239-243).
MaxNeverUnderstates ==
  ~overlapped => \A r \in open : buckets[records[r].name].max >= records[r].duration

\* The period a batch is sent for contains every duration in it, and the
\* start of the next period separates what was settled from what is left:
\* also when failed flushes made the period grow, and for what is recorded
\* during a delivery (performance.c:111, 211-212, 249).
PeriodsPartitionRecords ==
  ~overlapped =>
    /\ \A r \in open : periodStart <= records[r].at
    /\ \A r \in DOMAIN records \ open : records[r].at <= periodStart
    /\ \A t \in InFlight : \A r \in flight[t].covers :
         flight[t].from <= records[r].at /\ records[r].at <= flight[t].to

\* While the worker runs no tally waits for ever, not even when no delivery
\* ever succeeds and other threads flush too (one after the other).
EveryTallySettles ==
  \A r \in 1..MaxRecords : (r \in open /\ workerRunning) ~> (r \notin open \/ overlapped \/ ~Alive)

\* performance.c:241: leaving the max "never overstates the next period's
\* own max".  Violated by one duration recorded while a longer one was being
\* delivered, without any overlap.
MaxNeverOverstates ==
  ~overlapped =>
    \A t \in InFlight : \A n \in DOMAIN flight[t].snapshot :
      \E r \in flight[t].covers :
        records[r].name = n /\ records[r].duration = flight[t].snapshot[n].max
=============================================================================
