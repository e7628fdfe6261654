------------------------ MODULE DeliveryQueue_proofs ------------------------
(***************************************************************************)
(* Proofs about DeliveryQueue, for any number of callers and any limit:    *)
(* the order of delivery, the drain at exit, and that the queue implements *)
(* the abstract outbox.                                                    *)
(*                                                                         *)
(* The drain needs three links that the run's invariants leave implicit:   *)
(* the thread exists exactly when worker_running says so, it holds a body  *)
(* exactly while it sends, and it only stops once the exit hook has asked  *)
(* for it, when everything accepted before exit() is through.              *)
(***************************************************************************)
EXTENDS DeliveryQueue, SequenceTheorems, TLAPS

\* The thread and what worker_running and its hand say of it.
WorkerLinks ==
  /\ workerRunning <=> worker # "none"
  /\ inHand # << >> <=> worker = "sending"

\* Every body accepted so far was brought by a call made so far.
OldBodies == \A i \in 1..Len(accepted) : accepted[i] <= calls

\* How far the exit has come, and what it may rely on by then.
ExitProgress ==
  /\ exitMark <= Len(accepted)
  /\ hook = "none" => accepted = << >>
  /\ workerStop => hook \notin {"none", "registered"}
  /\ hook \notin {"none", "registered"} => phase # "running"
  /\ worker = "done" => phase # "running" /\ exitMark <= Len(handed)
  /\ hook = "joined" => worker = "done"
  /\ phase = "ended" => hook \in {"none", "joined", "skipped"}

IndInv ==
  /\ TypeOK
  /\ EachBodyOnceInOrder
  /\ WorkerLinks
  /\ OldBodies
  /\ ExitProgress

-----------------------------------------------------------------------------
\* The initial state: nothing accepted, no thread.
LEMMA InitInd == Init => IndInv
  <1> SUFFICES ASSUME Init PROVE IndInv
    OBVIOUS
  <1> USE QueueAssumption DEF Init
  <1>1. TypeOK
    <2>1. /\ 0 \in 0..MaxBodies
          /\ << >> \in Seq(Bodies) /\ Len(<< >>) <= QueueLimit
          /\ << >> \in {<< >>} \cup {<<b>> : b \in Bodies}
      BY EmptySeq
    <2> QED
      BY <2>1 DEF TypeOK
  <1>2. EachBodyOnceInOrder
    BY DEF EachBodyOnceInOrder
  <1>3. WorkerLinks /\ OldBodies /\ ExitProgress
    BY DEF WorkerLinks, OldBodies, ExitProgress
  <1> QED
    BY <1>1, <1>2, <1>3 DEF IndInv

\* The worker's hand is a sequence of bodies.
LEMMA HandIsSeq ==
  ASSUME inHand \in {<< >>} \cup {<<b>> : b \in Bodies}
  PROVE  inHand \in Seq(Bodies)
  <1>1. CASE inHand = << >>
    BY <1>1, EmptySeq
  <1>2. CASE inHand # << >>
    <2>1. PICK b \in Bodies : inHand = <<b>>
      BY <1>2
    <2> QED
      BY <2>1
  <1> QED
    BY <1>1, <1>2

\* Every step keeps the queue within its limit and every variable in its type.
LEMMA TypeStep == IndInv /\ [Next]_vars => TypeOK'
  <1> SUFFICES ASSUME IndInv, [Next]_vars PROVE TypeOK'
    OBVIOUS
  <1> USE QueueAssumption DEF IndInv, TypeOK, queueVars, processVars, historyVars
  <1>1. ASSUME NEW t \in Threads, EnqueueFull(t) PROVE TypeOK'
    BY <1>1 DEF EnqueueFull
  <1>2. ASSUME NEW t \in Threads, Enqueue(t) PROVE TypeOK'
    <2>1. calls + 1 \in Bodies /\ calls' \in 0..MaxBodies
      BY <1>2 DEF Enqueue, Bodies
    <2>2. queue' \in Seq(Bodies) /\ Len(queue') <= QueueLimit
      BY <1>2, <2>1, AppendProperties DEF Enqueue, PutInQueue, HasRoom
    <2>3. accepted' \in Seq(Bodies)
      BY <1>2, <2>1, AppendProperties DEF Enqueue
    <2>4. workerRunning' \in BOOLEAN /\ workerStop' \in BOOLEAN
      BY <1>2 DEF Enqueue
    <2>5. worker' \in {"none", "awake", "waiting", "sending", "done"}
      BY <1>2 DEF Enqueue, EnqueueSignal, Signalled
    <2>6. hook' \in {"none", "registered", "joining", "joined", "skipped"}
      BY <1>2 DEF Enqueue
    <2> QED
      BY <1>2, <2>1, <2>2, <2>3, <2>4, <2>5, <2>6 DEF Enqueue
  <1>3. ASSUME NEW t \in Threads, Exit(t) PROVE TypeOK'
    BY <1>3, LenProperties DEF Exit
  <1>4. CASE WorkerWait \/ WorkerExit \/ SpuriousWakeup
    BY <1>4 DEF WorkerWait, WorkerExit, SpuriousWakeup
  <1>5. CASE WorkerTake
    <2>1. queue[1] \in Bodies /\ Tail(queue) \in Seq(Bodies) /\ Len(Tail(queue)) = Len(queue) - 1
      BY <1>5, HeadTailProperties, EmptySeq, LenProperties DEF WorkerTake
    <2> QED
      BY <1>5, <2>1, LenProperties DEF WorkerTake
  <1>6. CASE WorkerSent
    <2>1. inHand \in Seq(Bodies)
      BY HandIsSeq
    <2> QED
      BY <1>6, <2>1, ConcatProperties DEF WorkerSent
  <1>7. CASE DrainAtExit \/ DrainJoined \/ ProcessEnd
    BY <1>7 DEF DrainAtExit, DrainJoined, ProcessEnd, Signalled
  <1>8. CASE Terminated \/ UNCHANGED vars
    BY <1>8 DEF Terminated, vars
  <1> QED
    BY <1>1, <1>2, <1>3, <1>4, <1>5, <1>6, <1>7, <1>8 DEF Next, WorkerStep

-----------------------------------------------------------------------------
\* A body more at the end, with the rest as it was.
LEMMA ConcatAppend ==
  ASSUME NEW S, NEW h \in Seq(S), NEW q \in Seq(S), NEW b \in S
  PROVE  h \o Append(q, b) = Append(h \o q, b)
  BY AppendIsConcat, ConcatAssociative, ConcatProperties, SMT

\* The first of a sequence and its tail are the sequence.
LEMMA HeadThenTail ==
  ASSUME NEW S, NEW q \in Seq(S), q # << >>
  PROVE  <<q[1]>> \o Tail(q) = q
  <1>1. <<q[1]>> \in Seq(S) /\ Tail(q) \in Seq(S) /\ Len(q) \in Nat \ {0}
    BY HeadTailProperties, EmptySeq
  <1>2. Len(<<q[1]>> \o Tail(q)) = Len(q)
    BY <1>1, ConcatProperties, HeadTailProperties
  <1>3. \A i \in 1..Len(q) : (<<q[1]>> \o Tail(q))[i] = q[i]
    BY <1>1, ConcatProperties, HeadTailProperties
  <1> QED
    BY <1>1, <1>2, <1>3, SeqEqual, ConcatProperties

\* The bodies handed over, in hand and queued remain the accepted ones, in
\* order, in every step: the memmove and the unlocked delivery included.
LEMMA OrderStep == IndInv /\ [Next]_vars => EachBodyOnceInOrder'
  <1> SUFFICES ASSUME IndInv, [Next]_vars PROVE EachBodyOnceInOrder'
    OBVIOUS
  <1>t. /\ handed \in Seq(Bodies) /\ inHand \in Seq(Bodies) /\ queue \in Seq(Bodies)
        /\ handed \o inHand \in Seq(Bodies)
        /\ handed \o inHand \o queue = accepted
    BY HandIsSeq, ConcatProperties DEF IndInv, TypeOK, EachBodyOnceInOrder
  <1>u. ASSUME UNCHANGED <<handed, inHand, queue, accepted>> PROVE EachBodyOnceInOrder'
    BY <1>t, <1>u DEF EachBodyOnceInOrder
  <1> USE DEF queueVars, processVars, historyVars
  <1>1. ASSUME NEW t \in Threads, EnqueueFull(t) PROVE EachBodyOnceInOrder'
    BY <1>1, <1>u DEF EnqueueFull
  <1>2. ASSUME NEW t \in Threads, Enqueue(t) PROVE EachBodyOnceInOrder'
    <2>1. calls + 1 \in Bodies
      BY <1>2, QueueAssumption DEF Enqueue, Bodies, IndInv, TypeOK
    <2>2. handed \o inHand \o Append(queue, calls + 1) = Append(accepted, calls + 1)
      <3> DEFINE front == handed \o inHand
      <3>1. front \in Seq(Bodies) /\ queue \in Seq(Bodies) /\ front \o queue = accepted
        BY <1>t
      <3> HIDE DEF front
      <3>2. front \o Append(queue, calls + 1) = Append(front \o queue, calls + 1)
        BY <3>1, <2>1, ConcatAppend
      <3>3. front \o Append(queue, calls + 1) = Append(accepted, calls + 1)
        BY <3>1, <3>2
      <3> QED
        BY <3>3 DEF front
    <2> QED
      BY <1>2, <2>2 DEF Enqueue, PutInQueue, EachBodyOnceInOrder
  <1>3. ASSUME NEW t \in Threads, Exit(t) PROVE EachBodyOnceInOrder'
    BY <1>3, <1>u DEF Exit
  <1>4. CASE WorkerWait \/ WorkerExit \/ SpuriousWakeup
    BY <1>4, <1>u DEF WorkerWait, WorkerExit, SpuriousWakeup
  <1>5. CASE WorkerTake
    <2>1. inHand = << >>
      BY <1>5 DEF WorkerTake, IndInv, WorkerLinks
    <2>2. queue # << >> /\ inHand' = <<queue[1]>> /\ queue' = Tail(queue) /\ UNCHANGED <<handed, accepted>>
      BY <1>5 DEF WorkerTake
    <2>3. <<queue[1]>> \in Seq(Bodies) /\ Tail(queue) \in Seq(Bodies)
      BY <1>t, <2>2, HeadTailProperties, EmptySeq
    <2>4. handed \o <<queue[1]>> \o Tail(queue) = handed \o queue
      <3> DEFINE first == <<queue[1]>>
                 rest == Tail(queue)
      <3>1. first \o rest = queue
        BY <1>t, <2>2, HeadThenTail
      <3>2. first \in Seq(Bodies) /\ rest \in Seq(Bodies)
        BY <2>3
      <3> HIDE DEF first, rest
      <3>3. (handed \o first) \o rest = handed \o (first \o rest)
        BY <1>t, <3>2, ConcatAssociative
      <3>4. (handed \o first) \o rest = handed \o queue
        BY <3>1, <3>3
      <3> QED
        BY <3>4 DEF first, rest
    <2>5. handed \o queue = accepted
      BY <1>t, <2>1, ConcatEmptySeq
    <2> QED
      BY <2>2, <2>4, <2>5 DEF EachBodyOnceInOrder
  <1>6. CASE WorkerSent
    <2>1. handed' = handed \o inHand /\ inHand' = << >> /\ UNCHANGED <<queue, accepted>>
      BY <1>6 DEF WorkerSent
    <2>2. handed \o inHand \o << >> = handed \o inHand
      BY <1>t, ConcatEmptySeq
    <2> QED
      BY <1>t, <2>1, <2>2 DEF EachBodyOnceInOrder
  <1>7. CASE DrainAtExit \/ DrainJoined \/ ProcessEnd
    BY <1>7, <1>u DEF DrainAtExit, DrainJoined, ProcessEnd
  <1>8. CASE Terminated \/ UNCHANGED vars
    BY <1>8, <1>u DEF Terminated, vars
  <1> QED
    BY <1>1, <1>2, <1>3, <1>4, <1>5, <1>6, <1>7, <1>8 DEF Next, WorkerStep

-----------------------------------------------------------------------------
\* The worker's state agrees with worker_running and with its hand, across
\* creation, signals, the wait, the delivery and the drain.
LEMMA LinksStep == IndInv /\ [Next]_vars => WorkerLinks'
  <1> SUFFICES ASSUME IndInv, [Next]_vars PROVE WorkerLinks'
    OBVIOUS
  <1> USE DEF IndInv, TypeOK, WorkerLinks, queueVars, processVars, historyVars
  <1>1. ASSUME NEW t \in Threads, EnqueueFull(t) PROVE WorkerLinks'
    BY <1>1 DEF EnqueueFull
  <1>2. ASSUME NEW t \in Threads, Enqueue(t) PROVE WorkerLinks'
    <2>1. PICK started \in (IF workerRunning THEN {FALSE} ELSE BOOLEAN) :
            /\ workerRunning' = (workerRunning \/ started)
            /\ worker' = EnqueueSignal(started)
      BY <1>2 DEF Enqueue
    <2>2. inHand' = inHand
      BY <1>2 DEF Enqueue
    <2>3. CASE started
      <3>1. ~workerRunning /\ worker = "none" /\ inHand = << >>
        BY <2>1, <2>3
      <3> QED
        BY <2>1, <2>2, <2>3, <3>1 DEF EnqueueSignal
    <2>4. CASE ~started
      BY <2>1, <2>2, <2>4 DEF EnqueueSignal, Signalled
    <2> QED
      BY <2>3, <2>4
  <1>3. ASSUME NEW t \in Threads, Exit(t) PROVE WorkerLinks'
    BY <1>3 DEF Exit
  <1>4. CASE WorkerWait \/ WorkerExit \/ SpuriousWakeup
    BY <1>4 DEF WorkerWait, WorkerExit, SpuriousWakeup
  <1>5. CASE WorkerTake
    BY <1>5 DEF WorkerTake
  <1>6. CASE WorkerSent
    BY <1>6 DEF WorkerSent
  <1>7. CASE DrainAtExit \/ DrainJoined \/ ProcessEnd
    BY <1>7 DEF DrainAtExit, DrainJoined, ProcessEnd, Signalled
  <1>8. CASE Terminated \/ UNCHANGED vars
    BY <1>8 DEF Terminated, vars
  <1> QED
    BY <1>1, <1>2, <1>3, <1>4, <1>5, <1>6, <1>7, <1>8 DEF Next, WorkerStep

\* What is accepted was brought by a call already made.
LEMMA OldStep == IndInv /\ [Next]_vars => OldBodies'
  <1> SUFFICES ASSUME IndInv, [Next]_vars PROVE OldBodies'
    OBVIOUS
  <1>t. calls \in Nat /\ accepted \in Seq(Bodies) /\ OldBodies
    BY QueueAssumption DEF IndInv, TypeOK
  <1>n. \A i \in 1..Len(accepted) : accepted[i] \in Nat
    <2>1. \A i \in 1..Len(accepted) : accepted[i] \in Bodies
      BY <1>t, ElementOfSeq
    <2>2. Bodies \subseteq Nat
      BY QueueAssumption DEF Bodies
    <2> QED
      BY <2>1, <2>2
  <1>u. ASSUME UNCHANGED accepted, calls' \in {calls, calls + 1} PROVE OldBodies'
    BY <1>t, <1>n, <1>u DEF OldBodies
  <1> USE DEF queueVars, processVars, historyVars
  <1>1. ASSUME NEW t \in Threads, EnqueueFull(t) PROVE OldBodies'
    BY <1>1, <1>u DEF EnqueueFull
  <1>2. ASSUME NEW t \in Threads, Enqueue(t) PROVE OldBodies'
    <2>1. calls + 1 \in Bodies /\ calls' = calls + 1 /\ accepted' = Append(accepted, calls + 1)
      BY <1>2, <1>t, QueueAssumption DEF Enqueue, Bodies, IndInv, TypeOK
    <2>2. /\ Len(accepted') = Len(accepted) + 1 /\ Len(accepted) \in Nat
          /\ \A i \in 1..Len(accepted) : accepted'[i] = accepted[i]
          /\ accepted'[Len(accepted) + 1] = calls + 1
      BY <1>t, <2>1, AppendProperties, LenProperties
    <2> QED
      BY <1>t, <1>n, <2>1, <2>2 DEF OldBodies
  <1>3. ASSUME NEW t \in Threads, Exit(t) PROVE OldBodies'
    BY <1>3, <1>u DEF Exit
  <1>4. CASE WorkerStep \/ SpuriousWakeup
    BY <1>4, <1>u DEF WorkerStep, WorkerWait, WorkerTake, WorkerSent, WorkerExit, SpuriousWakeup
  <1>5. CASE DrainAtExit \/ DrainJoined \/ ProcessEnd
    BY <1>5, <1>u DEF DrainAtExit, DrainJoined, ProcessEnd
  <1>6. CASE Terminated \/ UNCHANGED vars
    BY <1>6, <1>u DEF Terminated, vars
  <1> QED
    BY <1>1, <1>2, <1>3, <1>4, <1>5, <1>6 DEF Next

\* The exit keeps its promises: the worker stops only for the exit hook, with
\* everything accepted before exit() handed over.
LEMMA ExitStep == IndInv /\ [Next]_vars => ExitProgress'
  <1> SUFFICES ASSUME IndInv, [Next]_vars PROVE ExitProgress'
    OBVIOUS
  <1>t. /\ TypeOK /\ ExitProgress /\ WorkerLinks
        /\ Len(accepted) \in Nat /\ Len(handed) \in Nat /\ exitMark \in Nat
    BY LenProperties DEF IndInv, TypeOK
  <1> USE DEF ExitProgress, queueVars, processVars, historyVars
  <1>1. ASSUME NEW t \in Threads, EnqueueFull(t) PROVE ExitProgress'
    BY <1>1, <1>t DEF EnqueueFull
  <1>2. ASSUME NEW t \in Threads, Enqueue(t) PROVE ExitProgress'
    <2>1. Len(accepted') = Len(accepted) + 1
      BY <1>2, <1>t, AppendProperties, QueueAssumption DEF Enqueue, TypeOK, Bodies
    <2>2. UNCHANGED <<phase, handed, exitMark>> /\ phase # "ended"
      BY <1>2 DEF Enqueue, Free
    <2>3. hook' # "none" /\ (hook # "none" => hook' = hook) /\ (hook = "none" => hook' = "registered")
      BY <1>2 DEF Enqueue
    <2>4. workerStop' => workerStop
      BY <1>2 DEF Enqueue
    <2>5. worker' = "done" <=> worker = "done"
      <3>1. PICK started \in (IF workerRunning THEN {FALSE} ELSE BOOLEAN) :
              worker' = EnqueueSignal(started)
        BY <1>2 DEF Enqueue
      <3>2. CASE started
        BY <3>1, <3>2, <1>t DEF EnqueueSignal, WorkerLinks
      <3>3. CASE ~started
        BY <3>1, <3>3 DEF EnqueueSignal, Signalled
      <3> QED
        BY <3>2, <3>3
    <2> QED
      BY <1>t, <2>1, <2>2, <2>3, <2>4, <2>5 DEF TypeOK
  <1>3. ASSUME NEW t \in Threads, Exit(t) PROVE ExitProgress'
    BY <1>3, <1>t DEF Exit
  <1>4. CASE WorkerWait \/ SpuriousWakeup \/ WorkerTake
    BY <1>4, <1>t DEF WorkerWait, SpuriousWakeup, WorkerTake
  <1>5. CASE WorkerSent
    <2>1. Len(handed') >= Len(handed)
      BY <1>5, <1>t, HandIsSeq, ConcatProperties, LenProperties DEF WorkerSent, TypeOK
    <2> QED
      BY <1>5, <1>t, <2>1 DEF WorkerSent
  <1>6. CASE WorkerExit
    <2>1. queue = << >> /\ inHand = << >> /\ workerStop
      BY <1>6, <1>t DEF WorkerExit, WorkerLinks
    <2>2. handed = accepted
      BY <2>1, <1>t, ConcatEmptySeq DEF IndInv, EachBodyOnceInOrder, TypeOK
    <2> QED
      BY <1>6, <1>t, <2>1, <2>2 DEF WorkerExit
  <1>7. CASE DrainAtExit
    BY <1>7, <1>t DEF DrainAtExit, Signalled
  <1>8. CASE DrainJoined \/ ProcessEnd
    BY <1>8, <1>t DEF DrainJoined, ProcessEnd
  <1>9. CASE Terminated \/ UNCHANGED vars
    BY <1>9, <1>t DEF Terminated, vars
  <1> QED
    BY <1>1, <1>2, <1>3, <1>4, <1>5, <1>6, <1>7, <1>8, <1>9 DEF Next, WorkerStep

-----------------------------------------------------------------------------
\* The inductive invariant holds in every reachable state of the queue of
\* spans.c and changes.c, for any number of callers and any limit.
THEOREM Inductive == Spec => []IndInv
  <1>1. IndInv /\ [Next]_vars => IndInv'
    BY TypeStep, OrderStep, LinksStep, OldStep, ExitStep DEF IndInv
  <1> QED
    BY InitInd, <1>1, PTL DEF Spec

\* The queue never holds more bodies than its array (spans.c:255).
THEOREM TypeCorrect == Spec => []TypeOK
  <1>1. IndInv => TypeOK
    BY DEF IndInv
  <1> QED
    BY Inductive, <1>1, PTL

\* Every accepted body is handed to the client once, in the order of the
\* enqueue calls, or still waits (spans.c:221-234).
THEOREM OnceInOrder == Spec => []EachBodyOnceInOrder
  <1>1. IndInv => EachBodyOnceInOrder
    BY DEF IndInv
  <1> QED
    BY Inductive, <1>1, PTL

\* When the process has ended after the hook joined the worker, everything
\* accepted before exit() was handed over (spans.c:242-249).
THEOREM ExitDrains == Spec => []ExitDrainsQueue
  <1>1. IndInv => ExitDrainsQueue
    BY EmptySeq, LenProperties DEF IndInv, ExitProgress, ExitDrainsQueue, TypeOK
  <1> QED
    BY Inductive, <1>1, PTL

-----------------------------------------------------------------------------
\* A body that the next enqueue call brings is nowhere in the box yet.
LEMMA NextBodyIsFresh ==
  ASSUME IndInv
  PROVE  /\ \A i \in DOMAIN (inHand \o queue) : (inHand \o queue)[i] # calls + 1
         /\ \A i \in DOMAIN handed : handed[i] # calls + 1
  <1> DEFINE box == inHand \o queue
  <1>1. /\ handed \in Seq(Bodies) /\ inHand \in Seq(Bodies) /\ queue \in Seq(Bodies)
        /\ accepted \in Seq(Bodies) /\ calls \in Nat
    BY HandIsSeq, QueueAssumption DEF IndInv, TypeOK
  <1>2. box \in Seq(Bodies) /\ handed \o box = accepted
    <2>1. (handed \o inHand) \o queue = handed \o (inHand \o queue)
      BY <1>1, ConcatAssociative
    <2> QED
      BY <1>1, <2>1, ConcatProperties DEF IndInv, EachBodyOnceInOrder
  <1> HIDE DEF box
  <1>3. /\ Len(handed) \in Nat /\ Len(box) \in Nat /\ Len(accepted) = Len(handed) + Len(box)
        /\ \A i \in 1..Len(handed) : accepted[i] = handed[i]
        /\ \A i \in 1..Len(box) : accepted[Len(handed) + i] = box[i]
    BY <1>1, <1>2, ConcatProperties, LenProperties
  <1>4. \A i \in 1..Len(accepted) : accepted[i] # calls + 1
    <2>1. \A i \in 1..Len(accepted) : accepted[i] <= calls
      BY DEF IndInv, OldBodies
    <2>2. \A i \in 1..Len(accepted) : accepted[i] \in Bodies
      BY <1>1, ElementOfSeq
    <2>3. Bodies \subseteq Nat
      BY QueueAssumption DEF Bodies
    <2> QED
      BY <1>1, <2>1, <2>2, <2>3
  <1>5. \A i \in 1..Len(handed) : handed[i] # calls + 1
    BY <1>3, <1>4
  <1>6. \A i \in 1..Len(box) : box[i] # calls + 1
    BY <1>3, <1>4
  <1>7. DOMAIN handed = 1..Len(handed) /\ DOMAIN box = 1..Len(box)
    BY <1>1, <1>2, LenProperties
  <1>8. \A i \in DOMAIN box : box[i] # calls + 1
    BY <1>6, <1>7
  <1> QED
    BY <1>5, <1>7, <1>8 DEF box

\* Each step of the queue is a step of the outbox or none: enqueue accepts,
\* the end of a delivery hands over, and taking a body off the queue only
\* moves it within the box.
LEMMA BoxStep == IndInv /\ [Next]_vars => [Outbox!BoxNext]_(Outbox!boxVars)
  <1> SUFFICES ASSUME IndInv, [Next]_vars PROVE [Outbox!BoxNext]_(Outbox!boxVars)
    OBVIOUS
  <1>t. inHand \in Seq(Bodies) /\ queue \in Seq(Bodies) /\ handed \in Seq(Bodies)
    BY HandIsSeq DEF IndInv, TypeOK
  <1>u. ASSUME UNCHANGED <<handed, inHand, queue>> PROVE UNCHANGED Outbox!boxVars
    BY <1>u DEF Outbox!boxVars
  <1> USE DEF queueVars, processVars, historyVars
  <1>1. ASSUME NEW t \in Threads, EnqueueFull(t) PROVE UNCHANGED Outbox!boxVars
    BY <1>1, <1>u DEF EnqueueFull
  <1>2. ASSUME NEW t \in Threads, Enqueue(t) PROVE \E b \in Bodies : Outbox!Accept(b)
    <2>1. calls + 1 \in Bodies
      BY <1>2, QueueAssumption DEF Enqueue, Bodies, IndInv, TypeOK
    <2>2. queue' = Append(queue, calls + 1) /\ UNCHANGED <<inHand, handed>>
      BY <1>2 DEF Enqueue, PutInQueue
    <2>3. inHand \o Append(queue, calls + 1) = Append(inHand \o queue, calls + 1)
      BY <1>t, <2>1, ConcatAppend
    <2>4. (inHand \o queue)' = Append(inHand \o queue, calls + 1)
      BY <2>2, <2>3
    <2>5. Outbox!Accept(calls + 1)
      BY <2>2, <2>4, NextBodyIsFresh DEF Outbox!Accept
    <2> QED
      BY <2>1, <2>5
  <1>3. ASSUME NEW t \in Threads, Exit(t) PROVE UNCHANGED Outbox!boxVars
    BY <1>3, <1>u DEF Exit
  <1>4. CASE WorkerWait \/ WorkerExit \/ SpuriousWakeup
    BY <1>4, <1>u DEF WorkerWait, WorkerExit, SpuriousWakeup
  <1>5. ASSUME WorkerTake PROVE UNCHANGED Outbox!boxVars
    <2>1. /\ inHand = << >> /\ queue # << >>
          /\ inHand' = <<queue[1]>> /\ queue' = Tail(queue) /\ UNCHANGED handed
      BY <1>5 DEF WorkerTake, IndInv, WorkerLinks
    <2>2. <<queue[1]>> \o Tail(queue) = queue
      BY <1>t, <2>1, HeadThenTail
    <2>3. inHand \o queue = queue
      BY <1>t, <2>1, ConcatEmptySeq
    <2> QED
      BY <2>1, <2>2, <2>3 DEF Outbox!boxVars
  <1>6. ASSUME WorkerSent PROVE Outbox!HandOver
    <2>1. /\ inHand # << >> /\ handed' = handed \o inHand
          /\ inHand' = << >> /\ UNCHANGED queue
      BY <1>6 DEF WorkerSent, IndInv, WorkerLinks
    <2>2. PICK b \in Bodies : inHand = <<b>>
      BY <2>1 DEF IndInv, TypeOK
    <2>3. /\ <<b>> \o queue # << >> /\ (<<b>> \o queue)[1] = b
          /\ Tail(<<b>> \o queue) = queue
      BY <1>t, <2>2, ConcatProperties, HeadTailProperties, SeqEqual, EmptySeq
    <2>4. handed \o <<b>> = Append(handed, b)
      BY <1>t, <2>2, AppendIsConcat
    <2>5. << >> \o queue = queue
      BY <1>t, ConcatEmptySeq
    <2> QED
      BY <2>1, <2>2, <2>3, <2>4, <2>5 DEF Outbox!HandOver
  <1>7. CASE DrainAtExit \/ DrainJoined \/ ProcessEnd
    BY <1>7, <1>u DEF DrainAtExit, DrainJoined, ProcessEnd
  <1>8. CASE Terminated \/ UNCHANGED vars
    BY <1>8, <1>u DEF Terminated, vars
  <1> QED
    BY <1>1, <1>2, <1>3, <1>4, <1>5, <1>6, <1>7, <1>8
    DEF Next, WorkerStep, Outbox!BoxNext

\* The queues of spans.c and changes.c implement the abstract outbox: no body
\* is accepted twice, none is handed over out of turn or twice.
THEOREM ImplementsOutbox == Spec => OutboxSpec
  <1>1. Init => Outbox!BoxInit
    BY ConcatEmptySeq, EmptySeq DEF Init, Outbox!BoxInit
  <1> QED
    BY <1>1, BoxStep, Inductive, PTL DEF Spec, OutboxSpec, Outbox!BoxSpec
=============================================================================
