--------------------------- MODULE DeliveryQueue ---------------------------
(***************************************************************************)
(* The delivery queue of src/spans.c, and its copy in src/changes.c: a     *)
(* bounded FIFO of encoded bodies, the thread that delivers them one by    *)
(* one, and the atexit hook that drains it.                                *)
(*                                                                         *)
(* A critical section is one step, and so is one turn of the worker's loop *)
(* between two places where it gives the lock up: the wait on queue_wake   *)
(* and the network call.  The condition variable is modelled: a signal or  *)
(* a broadcast wakes the worker only if it waits already.                  *)
(*                                                                         *)
(* Bodies are numbered by the enqueue call that brought them.  What the    *)
(* server answers changes nothing here: a body is freed after its first    *)
(* delivery, whatever the outcome.                                         *)
(***************************************************************************)
EXTENDS Integers, Sequences

CONSTANTS
  Threads,     \* application threads
  NoThread,    \* "no thread has called exit()"
  QueueLimit,  \* FORGEOPS_SPANS_QUEUE_LIMIT, FORGEOPS_CHANGES_QUEUE_LIMIT
  MaxBodies    \* bound: how many enqueue calls a behaviour makes

ASSUME QueueAssumption ==
  /\ NoThread \notin Threads
  /\ QueueLimit \in Nat \ {0}
  /\ MaxBodies \in Nat

Bodies == 1..MaxBodies

VARIABLES
  queue,          \* queue[0 .. queue_count-1]
  workerRunning,  \* worker_running: set when the thread was created, never cleared
  workerStop,     \* worker_stop
  worker,         \* the thread: "none", "awake", "waiting", "sending" or "done"
  inHand,         \* the body the worker took off the queue, as << >> or <<b>>
  phase,          \* "running", "exiting" or "ended"
  exiter,         \* the thread inside exit(), or NoThread
  hook,           \* drain_at_exit: "none", "registered", "joining", "joined" or "skipped"
  \* history, read by no action of the code
  calls,          \* enqueue calls made so far
  handed,         \* bodies given to the HTTP client, in order
  accepted,       \* bodies enqueue took, in order
  exitMark        \* how many of them had been taken when exit() was called

queueVars   == <<queue, workerRunning, workerStop>>
processVars == <<phase, exiter, hook>>
historyVars == <<calls, handed, accepted, exitMark>>
vars == <<queueVars, worker, inHand, processVars, historyVars>>

TypeOK ==
  /\ queue \in Seq(Bodies) /\ Len(queue) <= QueueLimit
  /\ workerRunning \in BOOLEAN
  /\ workerStop \in BOOLEAN
  /\ worker \in {"none", "awake", "waiting", "sending", "done"}
  /\ inHand \in {<< >>} \cup {<<b>> : b \in Bodies}
  /\ phase \in {"running", "exiting", "ended"}
  /\ exiter \in Threads \cup {NoThread}
  /\ hook \in {"none", "registered", "joining", "joined", "skipped"}
  /\ calls \in 0..MaxBodies
  /\ handed \in Seq(Bodies)
  /\ accepted \in Seq(Bodies)
  /\ exitMark \in Nat

Init ==
  /\ queue = << >> /\ workerRunning = FALSE /\ workerStop = FALSE
  /\ worker = "none" /\ inHand = << >>
  /\ phase = "running" /\ exiter = NoThread /\ hook = "none"
  /\ calls = 0 /\ handed = << >> /\ accepted = << >> /\ exitMark = 0

-----------------------------------------------------------------------------
(***************************************************************************)
(* The callers: trace_end for spans, record_change for changes.            *)
(***************************************************************************)

Free(t) == phase # "ended" /\ t # exiter

\* pthread_cond_signal and pthread_cond_broadcast: at most one thread waits.
Signalled(thread) == IF thread = "waiting" THEN "awake" ELSE thread

\* One body more than the array holds.
MutHasRoom == Len(queue) <= QueueLimit

HasRoom == Len(queue) < QueueLimit

\* enqueue finds the queue full: the body is freed.
EnqueueFull(t) ==
  /\ Free(t)
  /\ calls < MaxBodies
  /\ ~HasRoom
  /\ calls' = calls + 1
  /\ UNCHANGED <<queueVars, worker, inHand, processVars, handed, accepted, exitMark>>

\* Without the signal at the end.
MutEnqueueSignal(started) == IF started THEN "awake" ELSE worker

\* Where the worker is after enqueue created it, or not, and signalled.
EnqueueSignal(started) == IF started THEN "awake" ELSE Signalled(worker)

\* The newest body goes to the front.
MutPutInQueue(b) == queue' = <<b>> \o queue

PutInQueue(b) == queue' = Append(queue, b)

\* enqueue.  A worker that does not run yet is created; pthread_create may
\* fail, and is then tried again by the next call.
Enqueue(t) ==
  /\ Free(t)
  /\ calls < MaxBodies
  /\ HasRoom
  /\ calls' = calls + 1
  /\ PutInQueue(calls + 1)
  /\ accepted' = Append(accepted, calls + 1)
  /\ hook' = IF hook = "none" THEN "registered" ELSE hook
  /\ \E started \in (IF workerRunning THEN {FALSE} ELSE BOOLEAN) :
       /\ workerRunning' = (workerRunning \/ started)
       /\ worker' = EnqueueSignal(started)
  /\ workerStop' = (workerStop /\ workerRunning)
  /\ UNCHANGED <<inHand, phase, exiter, handed, exitMark>>

-----------------------------------------------------------------------------
(***************************************************************************)
(* The worker: worker_deliver_loop, changes.c's worker_main.               *)
(***************************************************************************)

\* Nothing to do: pthread_cond_wait.
WorkerWait ==
  /\ phase # "ended" /\ worker = "awake"
  /\ queue = << >> /\ ~workerStop
  /\ worker' = "waiting"
  /\ UNCHANGED <<queueVars, inHand, processVars, historyVars>>

\* A condition variable may wake a thread nobody signalled.
SpuriousWakeup ==
  /\ phase # "ended" /\ worker = "waiting"
  /\ worker' = "awake"
  /\ UNCHANGED <<queueVars, inHand, processVars, historyVars>>

\* Takes the oldest body off the queue and gives the lock up to send it.
WorkerTake ==
  /\ phase # "ended" /\ worker = "awake"
  /\ queue # << >>
  /\ inHand' = <<queue[1]>>
  /\ queue' = Tail(queue)
  /\ worker' = "sending"
  /\ UNCHANGED <<workerRunning, workerStop, processVars, historyVars>>

\* The delivery returned, well or not; the body is freed either way.
WorkerSent ==
  /\ phase # "ended" /\ worker = "sending"
  /\ handed' = handed \o inHand
  /\ inHand' = << >>
  /\ worker' = "awake"
  /\ UNCHANGED <<queueVars, processVars, calls, accepted, exitMark>>

\* The loop that stops as soon as it is told to.
MutWorkerExit ==
  /\ phase # "ended" /\ worker = "awake"
  /\ workerStop
  /\ worker' = "done"
  /\ UNCHANGED <<queueVars, inHand, processVars, historyVars>>

\* Stopping, and drained.
WorkerExit ==
  /\ phase # "ended" /\ worker = "awake"
  /\ queue = << >> /\ workerStop
  /\ worker' = "done"
  /\ UNCHANGED <<queueVars, inHand, processVars, historyVars>>

-----------------------------------------------------------------------------
(***************************************************************************)
(* A normal exit.                                                          *)
(***************************************************************************)

Exit(t) ==
  /\ phase = "running" /\ Free(t)
  /\ phase' = "exiting"
  /\ exiter' = t
  /\ exitMark' = Len(accepted)
  /\ UNCHANGED <<queueVars, worker, inHand, hook, calls, handed, accepted>>

\* Without the broadcast.
MutDrainAtExit ==
  /\ phase = "exiting" /\ hook = "registered"
  /\ workerStop' = TRUE
  /\ hook' = IF workerRunning THEN "joining" ELSE "skipped"
  /\ UNCHANGED <<worker, queue, workerRunning, inHand, phase, exiter, historyVars>>

\* drain_at_exit up to the join, which only happens if the worker was running.
DrainAtExit ==
  /\ phase = "exiting" /\ hook = "registered"
  /\ workerStop' = TRUE
  /\ worker' = Signalled(worker)
  /\ hook' = IF workerRunning THEN "joining" ELSE "skipped"
  /\ UNCHANGED <<queue, workerRunning, inHand, phase, exiter, historyVars>>

\* pthread_join returns.
DrainJoined ==
  /\ phase = "exiting" /\ hook = "joining" /\ worker = "done"
  /\ hook' = "joined"
  /\ UNCHANGED <<queueVars, worker, inHand, phase, exiter, historyVars>>

ProcessEnd ==
  /\ phase = "exiting" /\ hook \in {"none", "joined", "skipped"}
  /\ phase' = "ended"
  /\ UNCHANGED <<queueVars, worker, inHand, exiter, hook, historyVars>>

Terminated == phase = "ended" /\ UNCHANGED vars

WorkerStep == WorkerWait \/ WorkerTake \/ WorkerSent \/ WorkerExit

Next ==
  \/ \E t \in Threads : EnqueueFull(t) \/ Enqueue(t) \/ Exit(t)
  \/ WorkerStep \/ SpuriousWakeup
  \/ DrainAtExit \/ DrainJoined \/ ProcessEnd
  \/ Terminated

Spec == Init /\ [][Next]_vars

\* The scheduler runs the worker and the exiting thread; libcurl's timeout
\* ends every request.  Nothing is assumed of the callers, and no spurious
\* wakeup is ever relied on.
Fairness ==
  /\ WF_vars(WorkerStep)
  /\ WF_vars(DrainAtExit \/ DrainJoined \/ ProcessEnd)

FairSpec == Spec /\ Fairness

-----------------------------------------------------------------------------
\* An accepted body has gone to the client, is in the worker's hand or waits
\* in the queue: in the order of the enqueue calls, none missing, none twice
\* (the memmove of spans.c:225, and the unlock around the delivery).
EachBodyOnceInOrder == handed \o inHand \o queue = accepted

\* Unless the exit hook found no worker to join, every body accepted before
\* exit() was called has been handed to the client when the process ends
\* (spans.c:242-249: the worker stops only when drained).
ExitDrainsQueue ==
  phase = "ended" /\ hook # "skipped" => Len(handed) >= exitMark

\* A body accepted while there is a worker is handed over, even if the
\* process is told to exit meanwhile: no wakeup is lost (spans.c:221, 270).
EveryBodyIsHandedOver ==
  \A b \in Bodies :
    ((\E i \in DOMAIN queue : queue[i] = b) /\ worker \notin {"none", "done"} /\ phase = "running")
      ~> (\E i \in DOMAIN handed : handed[i] = b)

\* exit() returns: the hook never joins a worker that sleeps through the
\* stop (spans.c:245-248).
ExitCompletes == phase = "exiting" ~> phase = "ended"

\* The two queues implement the abstract outbox.
Outbox == INSTANCE FifoOutbox WITH waiting <- inHand \o queue

OutboxSpec == Outbox!BoxSpec
=============================================================================
