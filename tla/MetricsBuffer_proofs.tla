------------------------ MODULE MetricsBuffer_proofs ------------------------
(***************************************************************************)
(* Proofs about MetricsBuffer, for any number of threads and any limits.   *)
(*                                                                         *)
(* The invariants of the model are not inductive by themselves.  IndInv    *)
(* adds that the entries are in capture order (so that the front of the    *)
(* buffer and the rest have none in common), that captures yet to come     *)
(* have left no trace, and, until flushes overlap, that at most one flush  *)
(* is in flight, that what was captured since its snapshot was never sent, *)
(* and that an entry was sent no more often than flushes in a row failed.  *)
(* Two more invariants rest on it: OldestCounts, by which the failures     *)
(* counted are those of the oldest entry, and Offered, by which nothing    *)
(* leaves the buffer unsent and which says how far an exit has come.       *)
(***************************************************************************)
EXTENDS MetricsBuffer, TLAPS

\* The entries of the buffer, in the order of their captures.
CaptureOrder ==
  \A i, j \in 1..Len(entries) : i < j => entries[i] < entries[j]

\* A capture yet to come has left no trace.
NothingAhead ==
  \A e \in Ids : e > recorded =>
    /\ fate[e] = "unrecorded"
    /\ sent[e] = 0
    /\ e \notin Range(entries)
    /\ \A t \in Flushers : e \notin Range(batch[t])

OneInFlight ==
  \A t, u \in Flushers : batch[t] # << >> /\ batch[u] # << >> => t = u

Front ==
  \A t \in Flushers :
    /\ Len(batch[t]) <= Len(entries)
    /\ \A i \in 1..Len(batch[t]) : batch[t][i] = entries[i]

Buffered ==
  \A e \in Ids : fate[e] = "buffered" <=> e \in Range(entries)

\* What was captured while a request is in flight has never been sent; the
\* rest has been sent once per failure in a row, and once more in flight.
Attempts ==
  /\ \A e \in Ids : sent[e] <= MaxFailures
  /\ \A e \in Range(entries) : sent[e] <= failures + 1
  /\ (\A t \in Flushers : batch[t] = << >>) => \A e \in Range(entries) : sent[e] <= failures
  /\ \A t \in Flushers :
       batch[t] # << >> => \A e \in Range(entries) : e \in Range(batch[t]) \/ sent[e] = 0

Quiet ==
  /\ phase # "corrupt"
  /\ OneInFlight
  /\ Front
  /\ Buffered
  /\ Attempts

\* The failures in a row are those of the oldest entry: it was sent once for
\* each of them, and once more while a request is in flight.
OldestCounts ==
  /\ entries = << >> => failures = 0
  /\ entries # << >> =>
       /\ (\A t \in Flushers : batch[t] = << >>) => sent[entries[1]] = failures
       /\ \A t \in Flushers : batch[t] # << >> => sent[entries[1]] = failures + 1

\* What is in flight or settled was sent; and how far the exit has come: a
\* hook that was never registered has nothing to send, and once it has
\* started all that was captured before exit() has been sent.
Offered ==
  /\ \A t \in Flushers : \A e \in Range(batch[t]) : sent[e] >= 1
  /\ \A e \in Ids : fate[e] \in {"dropped", "buffered"} \/ e > recorded \/ sent[e] >= 1
  /\ exitMark <= recorded
  /\ hook = "none" => entries = << >>
  /\ hook = "started" =>
       /\ phase # "running"
       /\ \A e \in 1..exitMark : fate[e] = "buffered" => sent[e] >= 1
  /\ phase = "ended" => hook # "registered"

IndInv ==
  /\ TypeOK
  /\ phase = "exiting" => exiter \in Threads
  /\ CaptureOrder
  /\ NothingAhead
  /\ ~overlapped => Quiet

-----------------------------------------------------------------------------
\* What Append does to a sequence, entry by entry.
LEMMA AppendFacts ==
  ASSUME NEW S, NEW s \in Seq(S), NEW x \in S
  PROVE  /\ Append(s, x) \in Seq(S)
         /\ Len(Append(s, x)) = Len(s) + 1
         /\ \A i \in 1..Len(s) : Append(s, x)[i] = s[i]
         /\ Append(s, x)[Len(s) + 1] = x
  OBVIOUS

\* What is left of a sequence without its first n entries.
LEMMA DropFacts ==
  ASSUME NEW S, NEW s \in Seq(S), NEW n \in 0..Len(s)
  PROVE  /\ SubSeq(s, n + 1, Len(s)) \in Seq(S)
         /\ Len(SubSeq(s, n + 1, Len(s))) = Len(s) - n
         /\ \A i \in 1..(Len(s) - n) : SubSeq(s, n + 1, Len(s))[i] = s[n + i]
  OBVIOUS

\* The elements of a sequence by their positions.
LEMMA RangeFacts ==
  ASSUME NEW S, NEW s \in Seq(S)
  PROVE  /\ \A x : x \in Range(s) <=> \E i \in 1..Len(s) : s[i] = x
         /\ Range(s) \subseteq S
  BY DEF Range

\* An empty sequence has no elements.
LEMMA RangeEmpty == Range(<< >>) = {}
  BY DEF Range

\* Append adds its element and no other.
LEMMA RangeAppend ==
  ASSUME NEW S, NEW s \in Seq(S), NEW x \in S
  PROVE  Range(Append(s, x)) = Range(s) \cup {x}
  <1>1. Append(s, x) \in Seq(S) /\ Len(s) \in Nat
    OBVIOUS
  <1>2. \A y : y \in Range(Append(s, x)) <=> \E i \in 1..(Len(s) + 1) : Append(s, x)[i] = y
    <2>1. \A y : y \in Range(Append(s, x)) <=> \E i \in 1..Len(Append(s, x)) : Append(s, x)[i] = y
      BY <1>1, RangeFacts, Zenon
    <2>2. Len(Append(s, x)) = Len(s) + 1
      BY AppendFacts
    <2> QED
      BY <2>1, <2>2, Zenon
  <1>3. \A y : y \in Range(s) <=> \E i \in 1..Len(s) : s[i] = y
    BY RangeFacts
  <1>4. ASSUME NEW y \in Range(Append(s, x)) PROVE y \in Range(s) \cup {x}
    <2>1. PICK i \in 1..(Len(s) + 1) : Append(s, x)[i] = y
      BY <1>2, <1>4
    <2>2. CASE i = Len(s) + 1
      BY <2>1, <2>2, AppendFacts
    <2>3. CASE i # Len(s) + 1
      <3>1. i \in 1..Len(s)
        BY <1>1, <2>3
      <3> QED
        BY <3>1, <2>1, <1>3, AppendFacts
    <2> QED
      BY <2>2, <2>3
  <1>5. ASSUME NEW y \in Range(s) PROVE y \in Range(Append(s, x))
    <2>1. PICK i \in 1..Len(s) : s[i] = y
      BY <1>3, <1>5
    <2>2. i \in 1..(Len(s) + 1) /\ Append(s, x)[i] = y
      BY <1>1, <2>1, AppendFacts
    <2> QED
      BY <1>2, <2>2
  <1>6. x \in Range(Append(s, x))
    <2>1. Len(s) + 1 \in 1..(Len(s) + 1)
      BY <1>1
    <2> QED
      BY <1>2, <2>1, AppendFacts
  <1> QED
    BY <1>4, <1>5, <1>6

\* Dropping its front b from an ordered sequence takes exactly b's elements.
LEMMA RangeDrop ==
  ASSUME NEW S, NEW s \in Seq(S), NEW b \in Seq(S), Len(b) <= Len(s),
         \A i \in 1..Len(b) : b[i] = s[i],
         \A i, j \in 1..Len(s) : i < j => s[i] # s[j]
  PROVE  \A x : x \in Range(SubSeq(s, Len(b) + 1, Len(s))) <=> x \in Range(s) /\ x \notin Range(b)
  <1> DEFINE n == Len(b)
             d == SubSeq(s, n + 1, Len(s))
  <1>1. n \in Nat /\ Len(s) \in Nat /\ n \in 0..Len(s)
    OBVIOUS
  <1>2. /\ d \in Seq(S) /\ Len(d) = Len(s) - n
        /\ \A i \in 1..(Len(s) - n) : d[i] = s[n + i]
    BY <1>1, DropFacts
  <1> SUFFICES ASSUME NEW x PROVE x \in Range(d) <=> x \in Range(s) /\ x \notin Range(b)
    OBVIOUS
  <1>3. x \in Range(s) <=> \E i \in 1..Len(s) : s[i] = x
    BY RangeFacts
  <1>4. x \in Range(b) <=> \E i \in 1..n : b[i] = x
    BY RangeFacts
  <1> HIDE DEF n, d
  <1>5. x \in Range(d) <=> \E i \in 1..(Len(s) - n) : d[i] = x
    <2>1. x \in Range(d) <=> \E i \in 1..Len(d) : d[i] = x
      BY <1>2, RangeFacts, Zenon
    <2> QED
      BY <1>2, <2>1, Zenon
  <1>6. ASSUME x \in Range(d) PROVE x \in Range(s) /\ x \notin Range(b)
    <2>1. PICK i \in 1..(Len(s) - n) : d[i] = x
      BY <1>5, <1>6
    <2>2. n + i \in 1..Len(s) /\ s[n + i] = x
      BY <1>1, <1>2, <2>1
    <2>3. ASSUME NEW j \in 1..n, b[j] = x PROVE FALSE
      <3>1. j \in 1..Len(s) /\ j < n + i /\ s[j] = x
        BY <1>1, <2>1, <2>3 DEF n
      <3> QED
        BY <2>2, <3>1
    <2> QED
      BY <1>3, <1>4, <2>2, <2>3
  <1>7. ASSUME x \in Range(s), x \notin Range(b) PROVE x \in Range(d)
    <2>1. PICK i \in 1..Len(s) : s[i] = x
      BY <1>3, <1>7
    <2>2. i \notin 1..n
      BY <1>4, <1>7, <2>1 DEF n
    <2>3. i - n \in 1..(Len(s) - n) /\ n + (i - n) = i
      BY <1>1, <2>1, <2>2
    <2>4. d[i - n] = x
      BY <1>2, <2>1, <2>3
    <2> QED
      BY <1>5, <2>3, <2>4
  <1>8. x \in Range(d) <=> x \in Range(s) /\ x \notin Range(b)
    BY <1>6, <1>7
  <1> QED
    BY <1>8 DEF d, n

-----------------------------------------------------------------------------
\* The initial state satisfies the inductive invariant.
LEMMA InitInd == Init => IndInv
  <1> SUFFICES ASSUME Init PROVE IndInv
    OBVIOUS
  <1>1. TypeOK
    <2>1. workerRunning \in BOOLEAN /\ overlapped \in BOOLEAN
      BY Zenon DEF Init
    <2>2. entries \in Seq(Ids) /\ Len(entries) <= MaxEntries
      BY LimitsAssumption DEF Init
    <2>3. fate \in [Ids -> Fates]
      BY DEF Init, Fates
    <2> QED
      BY <2>1, <2>2, <2>3, LimitsAssumption DEF Init, TypeOK
  <1>2. Range(entries) = {} /\ \A t \in Flushers : Range(batch[t]) = {}
    BY RangeEmpty DEF Init
  <1>3. CaptureOrder
    BY DEF Init, CaptureOrder
  <1>4. NothingAhead
    BY <1>2 DEF Init, NothingAhead
  <1>5. Quiet
    BY <1>2, LimitsAssumption
    DEF Init, Quiet, OneInFlight, Front, Buffered, Attempts, Flushers, Ids
  <1> QED
    BY <1>1, <1>3, <1>4, <1>5 DEF IndInv, Init

\* Every step keeps the types: the part of the invariant all else needs.
LEMMA TypeStep == IndInv /\ [Next]_vars => TypeOK' /\ (phase = "exiting" => exiter \in Threads)'
  <1> SUFFICES ASSUME IndInv, [Next]_vars
               PROVE  TypeOK' /\ (phase = "exiting" => exiter \in Threads)'
    OBVIOUS
  <1> USE LimitsAssumption DEF IndInv, TypeOK, Ids, Fates, Flushers
  <1>1. ASSUME NEW t \in Threads, RecordFull(t)
        PROVE  TypeOK' /\ (phase = "exiting" => exiter \in Threads)'
    BY <1>1 DEF RecordFull, bufferVars, processVars
  <1>2. ASSUME NEW t \in Threads, Record(t)
        PROVE  TypeOK' /\ (phase = "exiting" => exiter \in Threads)'
    <2>1. workerRunning' \in BOOLEAN
      BY <1>2, Zenon DEF Record, EnsureWorkerStarted
    <2>2. entries' \in Seq(Ids) /\ Len(entries') <= MaxEntries
      BY <1>2, AppendFacts DEF Record, HasRoom
    <2>3. fate' \in [Ids -> Fates]
      BY <1>2 DEF Record
    <2> QED
      BY <1>2, <2>1, <2>2, <2>3 DEF Record, EnsureWorkerStarted
  <1>3. ASSUME NEW t \in Flushers, FlushSnapshot(t),
               UNCHANGED <<bufferVars, phase, exiter, recorded, fate, exitMark>>,
               hook' \in {"none", "registered", "started"}
        PROVE  TypeOK' /\ (phase = "exiting" => exiter \in Threads)'
    BY <1>3 DEF FlushSnapshot, bufferVars
  <1>4. ASSUME NEW t \in Flushers, NEW status \in Statuses, FlushKept(t, status)
        PROVE  TypeOK' /\ (phase = "exiting" => exiter \in Threads)'
    BY <1>4 DEF FlushKept, KeepForRetry, historyVars
  <1>5. ASSUME NEW t \in Flushers, NEW status \in Statuses, FlushRemoved(t, status)
        PROVE  TypeOK' /\ (phase = "exiting" => exiter \in Threads)'
    <2>1. FinishedFate(status) \in Fates
      BY DEF FinishedFate, OutcomeForStatus, Delivered, Rejected, Failed
    <2>2. Len(batch[t]) \in Nat
      OBVIOUS
    <2>3. entries' \in Seq(Ids) /\ Len(entries') <= MaxEntries
      <3>1. CASE Len(batch[t]) <= Len(entries)
        <4>1. entries' = SubSeq(entries, Len(batch[t]) + 1, Len(entries))
          BY <1>5, <3>1 DEF FlushRemoved, RemoveFirst
        <4>2. Len(batch[t]) \in 0..Len(entries) /\ Len(entries) \in Nat
          BY <2>2, <3>1
        <4>3. entries' \in Seq(Ids) /\ Len(entries') = Len(entries) - Len(batch[t])
          BY <4>1, <4>2, DropFacts
        <4> QED
          BY <4>2, <4>3
      <3>2. CASE ~(Len(batch[t]) <= Len(entries))
        BY <1>5, <3>2 DEF FlushRemoved, RemoveFirst
      <3> QED
        BY <3>1, <3>2
    <2>4. fate' \in [Ids -> Fates]
      BY <1>5, <2>1 DEF FlushRemoved
    <2>5. phase' \in {phase, "corrupt"}
      BY <1>5 DEF FlushRemoved, RemoveFirst
    <2> QED
      <3>1. batch' \in [Flushers -> Seq(Ids)] /\ failures' \in 0..(MaxFailures - 1)
        BY <1>5 DEF FlushRemoved
      <3>2. UNCHANGED <<workerRunning, exiter, hook, recorded, sent, exitMark, overlapped>>
        BY <1>5 DEF FlushRemoved
      <3>3. phase' = "exiting" => exiter' \in Threads
        BY <2>5, <3>2
      <3>4. phase' \in {"running", "exiting", "ended", "corrupt"}
        BY <2>5
      <3> QED
        BY <2>3, <2>4, <3>1, <3>2, <3>3, <3>4, Zenon
  <1>6. ASSUME NEW t \in Threads, Exit(t)
        PROVE  TypeOK' /\ (phase = "exiting" => exiter \in Threads)'
    BY <1>6 DEF Exit, bufferVars
  <1>7. CASE ExitFlush
    <2>1. CASE FlushSnapshot(exiter)
      BY <1>7, <2>1, <1>3 DEF ExitFlush
    <2>2. CASE UNCHANGED <<batch, sent, overlapped>>
      BY <1>7, <2>2 DEF ExitFlush, bufferVars
    <2> QED
      BY <1>7, <2>1, <2>2 DEF ExitFlush
  <1>8. CASE ProcessEnd
    BY <1>8 DEF ProcessEnd, bufferVars, historyVars
  <1>9. CASE UNCHANGED vars
    BY <1>9 DEF vars, bufferVars, processVars, historyVars
  <1> QED
    BY <1>1, <1>2, <1>3, <1>4, <1>5, <1>6, <1>7, <1>8, <1>9
    DEF Next, CallerFlush, WorkerFlush, FlushFinish, Terminated

-----------------------------------------------------------------------------
\* What the removal at the end of a flush leaves in the buffer.
LEMMA RemovedFacts ==
  ASSUME TypeOK, NEW t \in Flushers, NEW status \in Statuses, FlushRemoved(t, status)
  PROVE  /\ Len(batch[t]) \in Nat /\ Len(entries) \in Nat
         /\ Len(batch[t]) <= Len(entries) =>
              /\ phase' = phase
              /\ entries' = SubSeq(entries, Len(batch[t]) + 1, Len(entries))
              /\ Len(entries') = Len(entries) - Len(batch[t])
              /\ \A i \in 1..(Len(entries) - Len(batch[t])) : entries'[i] = entries[Len(batch[t]) + i]
         /\ ~(Len(batch[t]) <= Len(entries)) => entries' = entries
  <1>1. entries \in Seq(Ids) /\ batch[t] \in Seq(Ids)
    BY DEF TypeOK
  <1>2. Len(batch[t]) \in Nat /\ Len(entries) \in Nat
    BY <1>1
  <1>3. ASSUME Len(batch[t]) <= Len(entries)
        PROVE  /\ phase' = phase
               /\ entries' = SubSeq(entries, Len(batch[t]) + 1, Len(entries))
    BY <1>3 DEF FlushRemoved, RemoveFirst
  <1>4. ASSUME Len(batch[t]) <= Len(entries)
        PROVE  /\ Len(entries') = Len(entries) - Len(batch[t])
               /\ \A i \in 1..(Len(entries) - Len(batch[t])) : entries'[i] = entries[Len(batch[t]) + i]
    <2>1. Len(batch[t]) \in 0..Len(entries)
      BY <1>2, <1>4
    <2> QED
      BY <2>1, <1>1, <1>3, <1>4, DropFacts
  <1>5. ASSUME ~(Len(batch[t]) <= Len(entries)) PROVE entries' = entries
    BY <1>5 DEF FlushRemoved, RemoveFirst
  <1> QED
    BY <1>2, <1>3, <1>4, <1>5, Zenon

\* Every step keeps the buffer in capture order.
LEMMA OrderStep == IndInv /\ [Next]_vars => CaptureOrder'
  <1> SUFFICES ASSUME IndInv, [Next]_vars PROVE CaptureOrder'
    OBVIOUS
  <1>t. TypeOK /\ CaptureOrder /\ NothingAhead
    BY DEF IndInv
  <1>1. ASSUME entries' = entries PROVE CaptureOrder'
    BY <1>t, <1>1 DEF CaptureOrder
  <1>2. ASSUME NEW t \in Threads, Record(t) PROVE CaptureOrder'
    <2>1. /\ entries \in Seq(Ids) /\ recorded + 1 \in Ids /\ recorded \in Nat
          /\ entries' = Append(entries, recorded + 1)
      BY <1>2, <1>t, LimitsAssumption DEF Record, TypeOK, Ids
    <2>2. /\ Len(entries') = Len(entries) + 1 /\ Len(entries) \in Nat
          /\ \A i \in 1..Len(entries) : entries'[i] = entries[i]
          /\ entries'[Len(entries) + 1] = recorded + 1
      BY <2>1, AppendFacts
    <2>3. ASSUME NEW i \in 1..Len(entries) PROVE entries[i] < recorded + 1 /\ entries[i] \in Nat
      <3>1. entries[i] \in Ids /\ entries[i] \in Nat
        BY <2>1, LimitsAssumption DEF Ids
      <3>2. entries[i] \in Range(entries)
        BY <2>1, RangeFacts
      <3>3. ~(entries[i] > recorded)
        BY <3>1, <3>2, <1>t, Zenon DEF NothingAhead
      <3> QED
        BY <3>1, <3>3, <2>1
    <2>4. ASSUME NEW i \in 1..Len(entries'), NEW j \in 1..Len(entries'), i < j
          PROVE  entries'[i] < entries'[j]
      <3>1. i \in 1..Len(entries) /\ entries'[i] = entries[i]
        BY <2>2, <2>4
      <3>2. CASE j = Len(entries) + 1
        BY <3>1, <3>2, <2>2, <2>3
      <3>3. CASE j # Len(entries) + 1
        <4>1. j \in 1..Len(entries) /\ entries'[j] = entries[j]
          BY <3>3, <2>2
        <4> QED
          BY <3>1, <4>1, <2>4, <1>t DEF CaptureOrder
      <3> QED
        BY <3>2, <3>3
    <2> QED
      BY <2>4 DEF CaptureOrder
  <1>3. ASSUME NEW t \in Flushers, NEW status \in Statuses, FlushRemoved(t, status)
        PROVE  CaptureOrder'
    <2> DEFINE n == Len(batch[t])
    <2>1. n \in Nat /\ Len(entries) \in Nat
      BY <1>3, <1>t, RemovedFacts
    <2>2. CASE ~(n <= Len(entries))
      BY <1>1, <1>3, <1>t, <2>2, RemovedFacts
    <2>3. CASE n <= Len(entries)
      <3>1. /\ Len(entries') = Len(entries) - n
            /\ \A i \in 1..(Len(entries) - n) : entries'[i] = entries[n + i]
        BY <1>3, <1>t, <2>3, RemovedFacts
      <3> HIDE DEF n
      <3>2. ASSUME NEW i \in 1..Len(entries'), NEW j \in 1..Len(entries'), i < j
            PROVE  entries'[i] < entries'[j]
        <4>1. /\ n + i \in 1..Len(entries) /\ entries'[i] = entries[n + i]
              /\ n + j \in 1..Len(entries) /\ entries'[j] = entries[n + j]
              /\ n + i < n + j
          BY <2>1, <3>1, <3>2
        <4> QED
          BY <4>1, <1>t DEF CaptureOrder
      <3> QED
        BY <3>2 DEF CaptureOrder
    <2> QED
      BY <2>2, <2>3
  <1>4. ASSUME NEW t \in Threads, RecordFull(t) \/ CallerFlush(t) \/ Exit(t) PROVE entries' = entries
    BY <1>4 DEF RecordFull, CallerFlush, Exit, bufferVars
  <1>5. ASSUME WorkerFlush \/ ExitFlush \/ ProcessEnd \/ Terminated \/ UNCHANGED vars
        PROVE  entries' = entries
    BY <1>5 DEF WorkerFlush, ExitFlush, ProcessEnd, Terminated, vars, bufferVars
  <1>6. ASSUME NEW t \in Flushers, NEW status \in Statuses, FlushKept(t, status)
        PROVE  entries' = entries
    BY <1>6 DEF FlushKept
  <1> QED
    BY <1>1, <1>2, <1>3, <1>4, <1>5, <1>6 DEF Next, FlushFinish

\* A capture call that returns is the only thing that leaves a new trace.
LEMMA AheadStep == IndInv /\ [Next]_vars => NothingAhead'
  <1> SUFFICES ASSUME IndInv, [Next]_vars PROVE NothingAhead'
    OBVIOUS
  <1>t. TypeOK /\ NothingAhead
    BY DEF IndInv
  <1>n. recorded \in Nat /\ Ids \subseteq Nat
    BY <1>t, LimitsAssumption DEF TypeOK, Ids
  <1>1. ASSUME NEW t \in Threads, Record(t) \/ RecordFull(t) PROVE NothingAhead'
    <2>1. /\ recorded' = recorded + 1 /\ batch' = batch /\ sent' = sent
          /\ recorded + 1 \in Ids
      BY <1>1, <1>t, LimitsAssumption DEF Record, RecordFull, processVars, TypeOK, Ids
    <2>2. ASSUME NEW e \in Ids, e > recorded' PROVE e > recorded /\ e # recorded + 1
      BY <2>1, <2>2, <1>n
    <2>3. ASSUME NEW e \in Ids, e > recorded' PROVE fate'[e] = "unrecorded"
      BY <1>1, <2>2, <2>3, <1>t DEF NothingAhead, Record, RecordFull, TypeOK
    <2>4. ASSUME NEW e \in Ids, e > recorded' PROVE e \notin Range(entries')
      <3>1. e \notin Range(entries)
        BY <2>2, <2>4, <1>t DEF NothingAhead
      <3>2. CASE RecordFull(t)
        BY <3>1, <3>2 DEF RecordFull, bufferVars
      <3>3. CASE Record(t)
        <4>1. entries' = Append(entries, recorded + 1) /\ entries \in Seq(Ids)
          BY <3>3, <1>t DEF Record, TypeOK
        <4>2. Range(entries') = Range(entries) \cup {recorded + 1}
          BY <4>1, <2>1, RangeAppend
        <4> QED
          BY <3>1, <4>2, <2>2, <2>4
      <3> QED
        BY <1>1, <3>2, <3>3
    <2> QED
      BY <2>1, <2>2, <2>3, <2>4, <1>t DEF NothingAhead
  <1>2. ASSUME NEW t \in Flushers, FlushSnapshot(t), entries' = entries, recorded' = recorded, fate' = fate
        PROVE  NothingAhead'
    <2>1. ASSUME NEW e \in Ids, e > recorded PROVE sent'[e] = 0
      BY <1>2, <2>1, <1>t DEF FlushSnapshot, NothingAhead
    <2>2. ASSUME NEW u \in Flushers PROVE batch'[u] = entries \/ batch'[u] = batch[u]
      BY <1>2, <1>t DEF FlushSnapshot, TypeOK
    <2> QED
      BY <1>2, <2>1, <2>2, <1>t, Zenon DEF NothingAhead
  <1>3. ASSUME NEW t \in Flushers, batch' = [batch EXCEPT ![t] = << >>],
               Range(entries') \subseteq Range(entries), recorded' = recorded, sent' = sent,
               \A e \in Ids : e \notin Range(batch[t]) => fate'[e] = fate[e]
        PROVE  NothingAhead'
    <2>1. ASSUME NEW u \in Flushers PROVE batch'[u] = << >> \/ batch'[u] = batch[u]
      BY <1>3, <1>t DEF TypeOK
    <2> QED
      BY <1>3, <2>1, <1>t, RangeEmpty, Zenon DEF NothingAhead
  <1>4. ASSUME NEW t \in Flushers, NEW status \in Statuses, FlushKept(t, status)
        PROVE  NothingAhead'
    <2>1. /\ batch' = [batch EXCEPT ![t] = << >>]
          /\ entries' = entries /\ recorded' = recorded /\ sent' = sent /\ fate' = fate
      BY <1>4 DEF FlushKept, historyVars
    <2> QED
      BY <2>1, <1>3
  <1>5. ASSUME NEW t \in Flushers, NEW status \in Statuses, FlushRemoved(t, status)
        PROVE  NothingAhead'
    <2>1. /\ batch' = [batch EXCEPT ![t] = << >>]
          /\ recorded' = recorded /\ sent' = sent
          /\ \A e \in Ids : e \notin Range(batch[t]) => fate'[e] = fate[e]
      BY <1>5 DEF FlushRemoved
    <2>2. Range(entries') \subseteq Range(entries)
      <3> DEFINE n == Len(batch[t])
      <3>1. n \in Nat /\ Len(entries) \in Nat /\ entries \in Seq(Ids)
        BY <1>5, <1>t, RemovedFacts DEF TypeOK
      <3>2. CASE ~(n <= Len(entries))
        BY <1>5, <1>t, <3>2, RemovedFacts
      <3>3. CASE n <= Len(entries)
        <4>1. /\ Len(entries') = Len(entries) - n
              /\ \A i \in 1..(Len(entries) - n) : entries'[i] = entries[n + i]
          BY <1>5, <1>t, <3>3, RemovedFacts
        <4>2. entries' \in Seq(Ids)
          BY TypeStep DEF TypeOK
        <4> HIDE DEF n
        <4> SUFFICES ASSUME NEW x \in Range(entries') PROVE x \in Range(entries)
          OBVIOUS
        <4>3. PICK i \in 1..Len(entries') : entries'[i] = x
          BY <4>2, RangeFacts
        <4>4. n + i \in 1..Len(entries) /\ entries[n + i] = x
          BY <4>1, <4>3, <3>1, <3>3
        <4> QED
          BY <4>4, <3>1, RangeFacts
      <3> QED
        BY <3>2, <3>3
    <2> QED
      BY <2>1, <2>2, <1>3
  <1>6. ASSUME UNCHANGED <<entries, recorded, fate, sent, batch>> PROVE NothingAhead'
    BY <1>6, <1>t DEF NothingAhead
  <1>7. ASSUME NEW t \in Threads, CallerFlush(t) PROVE NothingAhead'
    BY <1>7, <1>2 DEF CallerFlush, bufferVars, Flushers
  <1>8. CASE WorkerFlush
    BY <1>8, <1>2 DEF WorkerFlush, bufferVars, Flushers
  <1>9. CASE ExitFlush
    <2>1. exiter \in Flushers
      BY <1>9 DEF ExitFlush, IndInv, Flushers
    <2> QED
      BY <1>9, <2>1, <1>2, <1>6 DEF ExitFlush, bufferVars
  <1>10. ASSUME NEW t \in Threads, Exit(t) PROVE NothingAhead'
    BY <1>10, <1>6 DEF Exit, bufferVars
  <1>11. CASE ProcessEnd \/ Terminated \/ UNCHANGED vars
    BY <1>11, <1>6 DEF ProcessEnd, Terminated, vars, bufferVars, processVars, historyVars
  <1> QED
    BY <1>1, <1>4, <1>5, <1>7, <1>8, <1>9, <1>10, <1>11 DEF Next, FlushFinish

-----------------------------------------------------------------------------
(***************************************************************************)
(* The five kinds of step that touch what Quiet is about.                  *)
(***************************************************************************)

\* A capture, kept at the end of the buffer, disturbs no batch in flight.
LEMMA RecordQuiet ==
  ASSUME IndInv, Quiet, NEW t \in Threads, Record(t)
  PROVE  Quiet'
  <1>t. TypeOK /\ NothingAhead
    BY DEF IndInv
  <1> DEFINE r == recorded + 1
  <1>1. /\ r \in Ids /\ entries \in Seq(Ids) /\ entries' = Append(entries, r)
        /\ batch' = batch /\ sent' = sent /\ phase' = phase /\ failures' = failures
        /\ fate' = [fate EXCEPT ![r] = "buffered"]
    BY <1>t, LimitsAssumption DEF Record, TypeOK, Ids
  <1>2. failures \in Nat /\ Len(entries) \in Nat /\ r > recorded
    BY <1>1, <1>t, LimitsAssumption DEF TypeOK
  <1>3. sent[r] = 0
    BY <1>1, <1>2, <1>t, Zenon DEF NothingAhead
  <1>4. Range(entries') = Range(entries) \cup {r}
    BY <1>1, RangeAppend
  <1>5. /\ Len(entries') = Len(entries) + 1
        /\ \A i \in 1..Len(entries) : entries'[i] = entries[i]
    BY <1>1, AppendFacts
  <1> HIDE DEF r
  <1>6. phase' # "corrupt" /\ OneInFlight'
    BY <1>1 DEF Quiet, OneInFlight
  <1>7. Front'
    <2> SUFFICES ASSUME NEW u \in Flushers
                 PROVE  /\ Len(batch[u]) <= Len(entries')
                        /\ \A i \in 1..Len(batch[u]) : batch[u][i] = entries'[i]
      BY <1>1 DEF Front
    <2>1. batch[u] \in Seq(Ids) /\ Len(batch[u]) \in Nat
      BY <1>t DEF TypeOK
    <2>2. Len(batch[u]) <= Len(entries) /\ \A i \in 1..Len(batch[u]) : batch[u][i] = entries[i]
      BY DEF Quiet, Front
    <2> QED
      BY <1>2, <1>5, <2>1, <2>2
  <1>8. Buffered'
    <2> SUFFICES ASSUME NEW e \in Ids
                 PROVE  fate'[e] = "buffered" <=> e \in Range(entries')
      BY DEF Buffered
    <2>1. fate[e] = "buffered" <=> e \in Range(entries)
      BY DEF Quiet, Buffered
    <2>2. fate'[e] = IF e = r THEN "buffered" ELSE fate[e]
      BY <1>1, <1>t DEF TypeOK
    <2> QED
      BY <2>1, <2>2, <1>4
  <1>9. Attempts'
    BY <1>1, <1>2, <1>3, <1>4 DEF Quiet, Attempts
  <1> QED
    BY <1>6, <1>7, <1>8, <1>9 DEF Quiet

\* A capture dropped on a full buffer.
LEMMA RecordFullQuiet ==
  ASSUME IndInv, Quiet, NEW t \in Threads, RecordFull(t)
  PROVE  Quiet'
  <1>t. TypeOK /\ NothingAhead
    BY DEF IndInv
  <1>1. /\ entries' = entries /\ batch' = batch /\ sent' = sent
        /\ phase' = phase /\ failures' = failures
        /\ fate' = [fate EXCEPT ![recorded + 1] = "dropped"]
    BY DEF RecordFull, bufferVars, processVars
  <1>2. recorded + 1 \in Ids /\ recorded + 1 > recorded
    BY <1>t, LimitsAssumption DEF RecordFull, TypeOK, Ids
  <1>3. recorded + 1 \notin Range(entries)
    BY <1>2, <1>t, Zenon DEF NothingAhead
  <1>4. ASSUME NEW e \in Ids PROVE fate'[e] = "buffered" <=> e \in Range(entries)
    <2>1. fate'[e] = IF e = recorded + 1 THEN "dropped" ELSE fate[e]
      BY <1>1, <1>t DEF TypeOK
    <2>2. fate[e] = "buffered" <=> e \in Range(entries)
      BY DEF Quiet, Buffered
    <2> QED
      BY <2>1, <2>2, <1>3
  <1>5. Buffered'
    BY <1>1, <1>4 DEF Buffered
  <1> QED
    BY <1>1, <1>5 DEF Quiet, OneInFlight, Front, Attempts

\* A flush that starts while none is in flight.
LEMMA SnapshotQuiet ==
  ASSUME IndInv, Quiet, NEW t \in Flushers, FlushSnapshot(t), ~overlapped',
         UNCHANGED <<entries, failures, phase, fate>>
  PROVE  Quiet'
  <1>t. TypeOK
    BY DEF IndInv
  <1>1. \A u \in Flushers : batch[u] = << >>
    BY DEF FlushSnapshot, InFlight
  <1>2. batch' = [batch EXCEPT ![t] = entries] /\ entries # << >>
    BY DEF FlushSnapshot
  <1>3. ASSUME NEW u \in Flushers PROVE batch'[u] = IF u = t THEN entries ELSE << >>
    BY <1>1, <1>2, <1>t DEF TypeOK
  <1>4. ASSUME NEW e \in Ids
        PROVE  sent'[e] = IF e \in Range(entries) THEN sent[e] + 1 ELSE sent[e]
    BY DEF FlushSnapshot
  <1>5. Range(entries) \subseteq Ids
    BY <1>t, RangeFacts DEF TypeOK
  <1>6. phase' # "corrupt" /\ Buffered'
    BY DEF Quiet, Buffered
  <1>7. OneInFlight'
    BY <1>3 DEF OneInFlight
  <1>8. Front'
    <2>1. Len(entries) \in Nat /\ Len(<< >>) = 0
      BY <1>t DEF TypeOK
    <2> QED
      BY <1>3, <2>1 DEF Front
  <1>9. Attempts'
    <2>1. \A e \in Ids : sent[e] \in Nat /\ sent[e] <= MaxFailures
      BY <1>t DEF TypeOK, Quiet, Attempts
    <2>2. \A e \in Range(entries) : sent[e] <= failures
      BY <1>1 DEF Quiet, Attempts
    <2>3. failures \in Nat /\ failures + 1 <= MaxFailures
      BY <1>t, LimitsAssumption DEF TypeOK
    <2>4. \A e \in Ids : sent'[e] <= MaxFailures
      BY <1>4, <2>1, <2>2, <2>3, LimitsAssumption
    <2>5. \A e \in Range(entries) : sent'[e] <= failures + 1
      BY <1>4, <1>5, <2>1, <2>2, <2>3
    <2>6. batch'[t] # << >>
      BY <1>2, <1>3
    <2>7. \A u \in Flushers : batch'[u] # << >> => batch'[u] = entries
      BY <1>3
    <2> QED
      BY <2>4, <2>5, <2>6, <2>7 DEF Attempts
  <1> QED
    BY <1>6, <1>7, <1>8, <1>9 DEF Quiet

\* With one flush in flight at most, its end leaves none.
LEMMA LastOneOut ==
  ASSUME TypeOK, OneInFlight, NEW t \in Flushers, batch[t] # << >>,
         batch' = [batch EXCEPT ![t] = << >>]
  PROVE  \A u \in Flushers : batch'[u] = << >>
  <1> SUFFICES ASSUME NEW u \in Flushers PROVE batch'[u] = << >>
    OBVIOUS
  <1>1. CASE u = t
    BY <1>1 DEF TypeOK
  <1>2. CASE u # t
    BY <1>2 DEF TypeOK, OneInFlight
  <1> QED
    BY <1>1, <1>2

\* A failure for now: the batch stays where it is, one failure more.
LEMMA KeptQuiet ==
  ASSUME IndInv, Quiet, NEW t \in Flushers, NEW status \in Statuses, FlushKept(t, status)
  PROVE  Quiet'
  <1>t. TypeOK
    BY DEF IndInv
  <1>1. /\ UNCHANGED <<entries, phase, fate, sent>> /\ failures' = failures + 1
        /\ batch[t] # << >> /\ batch' = [batch EXCEPT ![t] = << >>]
    BY DEF FlushKept, historyVars
  <1>2. \A u \in Flushers : batch'[u] = << >>
    BY <1>1, <1>t, LastOneOut DEF Quiet
  <1>3. phase' # "corrupt" /\ OneInFlight' /\ Buffered'
    BY <1>1, <1>2 DEF Quiet, OneInFlight, Buffered
  <1>4. Front'
    <2>1. Len(entries) \in Nat /\ Len(<< >>) = 0
      BY <1>t DEF TypeOK
    <2> QED
      BY <1>1, <1>2, <2>1 DEF Front
  <1>5. Attempts'
    <2>1. failures \in Nat /\ \A e \in Range(entries) : sent[e] \in Nat
      <3>1. Range(entries) \subseteq Ids
        BY <1>t, RangeFacts DEF TypeOK
      <3> QED
        BY <3>1, <1>t, LimitsAssumption DEF TypeOK
    <2>2. /\ \A e \in Ids : sent[e] <= MaxFailures
          /\ \A e \in Range(entries) : sent[e] <= failures + 1
      BY DEF Quiet, Attempts
    <2>3. \A e \in Range(entries) : sent[e] <= failures' + 1
      BY <1>1, <2>1, <2>2
    <2> QED
      BY <1>1, <1>2, <2>2, <2>3 DEF Attempts
  <1> QED
    BY <1>3, <1>4, <1>5 DEF Quiet

\* The end of a flush takes its own batch and nothing else.
LEMMA RemovedQuiet ==
  ASSUME IndInv, Quiet, NEW t \in Flushers, NEW status \in Statuses, FlushRemoved(t, status)
  PROVE  Quiet'
  <1>t. TypeOK /\ CaptureOrder
    BY DEF IndInv
  <1>1. /\ sent' = sent /\ failures' = 0
        /\ batch[t] # << >> /\ batch' = [batch EXCEPT ![t] = << >>]
        /\ \A e \in Ids : fate'[e] = IF e \in Range(batch[t]) THEN FinishedFate(status) ELSE fate[e]
    BY DEF FlushRemoved
  <1>2. Len(batch[t]) <= Len(entries) /\ \A i \in 1..Len(batch[t]) : batch[t][i] = entries[i]
    BY DEF Quiet, Front
  <1>3. entries \in Seq(Ids) /\ batch[t] \in Seq(Ids)
    BY <1>t DEF TypeOK
  <1>4. phase' = phase /\ entries' = SubSeq(entries, Len(batch[t]) + 1, Len(entries))
    BY <1>2, <1>t, RemovedFacts
  <1>5. \A x : x \in Range(entries') <=> x \in Range(entries) /\ x \notin Range(batch[t])
    <2>1. \A i, j \in 1..Len(entries) : i < j => entries[i] # entries[j]
      <3>1. \A i \in 1..Len(entries) : entries[i] \in Nat
        BY <1>3, LimitsAssumption DEF Ids
      <3> QED
        BY <3>1, <1>t DEF CaptureOrder
    <2> QED
      BY <1>2, <1>3, <1>4, <2>1, RangeDrop
  <1>6. \A u \in Flushers : batch'[u] = << >>
    BY <1>1, <1>t, LastOneOut DEF Quiet
  <1>7. phase' # "corrupt" /\ OneInFlight'
    BY <1>4, <1>6 DEF Quiet, OneInFlight
  <1>8. Front'
    <2>1. Len(entries') \in Nat /\ Len(<< >>) = 0
      BY <1>2, <1>3, <1>t, RemovedFacts
    <2> QED
      BY <1>6, <2>1 DEF Front
  <1>9. Buffered'
    <2> SUFFICES ASSUME NEW e \in Ids
                 PROVE  fate'[e] = "buffered" <=> e \in Range(entries')
      BY DEF Buffered
    <2>1. FinishedFate(status) # "buffered"
      BY DEF FinishedFate, OutcomeForStatus, Delivered, Rejected, Failed
    <2>2. fate[e] = "buffered" <=> e \in Range(entries)
      BY DEF Quiet, Buffered
    <2> QED
      BY <1>1, <1>5, <2>1, <2>2
  <1>10. Attempts'
    <2>1. \A e \in Range(entries') : sent[e] = 0
      BY <1>1, <1>5 DEF Quiet, Attempts
    <2> QED
      BY <1>1, <1>6, <2>1 DEF Quiet, Attempts
  <1> QED
    BY <1>7, <1>8, <1>9, <1>10 DEF Quiet

\* An overlap is never forgotten.
LEMMA OverlapStays == [Next]_vars /\ ~overlapped' => ~overlapped
  BY DEF Next, Record, RecordFull, CallerFlush, Exit, WorkerFlush, FlushFinish, FlushKept,
         FlushRemoved, ExitFlush, ProcessEnd, Terminated, FlushSnapshot,
         vars, historyVars

\* Until flushes overlap, every step keeps the buffer quiet.
LEMMA QuietStep == IndInv /\ [Next]_vars => (~overlapped => Quiet)'
  <1> SUFFICES ASSUME IndInv, [Next]_vars, ~overlapped' PROVE Quiet'
    OBVIOUS
  <1>q. Quiet
    BY OverlapStays DEF IndInv
  <1>1. ASSUME NEW t \in Threads, Record(t) \/ RecordFull(t) PROVE Quiet'
    BY <1>1, <1>q, RecordQuiet, RecordFullQuiet
  <1>2. ASSUME NEW t \in Flushers, FlushFinish(t) PROVE Quiet'
    BY <1>2, <1>q, KeptQuiet, RemovedQuiet DEF FlushFinish
  <1>3. ASSUME NEW t \in Threads, CallerFlush(t) PROVE Quiet'
    BY <1>3, <1>q, SnapshotQuiet DEF CallerFlush, bufferVars, Flushers
  <1>4. CASE WorkerFlush
    BY <1>4, <1>q, SnapshotQuiet DEF WorkerFlush, bufferVars, Flushers
  <1>5. ASSUME UNCHANGED <<entries, failures, batch, fate, sent>>, phase' # "corrupt" PROVE Quiet'
    BY <1>5, <1>q DEF Quiet, OneInFlight, Front, Buffered, Attempts
  <1>6. CASE ExitFlush
    <2>1. exiter \in Flushers /\ phase' # "corrupt" /\ UNCHANGED <<entries, failures, phase, fate>>
      BY <1>6, <1>q DEF ExitFlush, IndInv, Flushers, bufferVars, Quiet
    <2> QED
      BY <1>6, <2>1, <1>5, <1>q, SnapshotQuiet DEF ExitFlush
  <1>7. ASSUME NEW t \in Threads, Exit(t) PROVE Quiet'
    BY <1>7, <1>5 DEF Exit, bufferVars
  <1>8. CASE ProcessEnd
    BY <1>8, <1>5 DEF ProcessEnd, bufferVars, historyVars
  <1>9. CASE Terminated \/ UNCHANGED vars
    BY <1>9, <1>5, <1>q DEF Terminated, vars, bufferVars, processVars, historyVars, Quiet
  <1> QED
    BY <1>1, <1>2, <1>3, <1>4, <1>6, <1>7, <1>8, <1>9 DEF Next

-----------------------------------------------------------------------------
\* The inductive invariant holds in every reachable state of metrics.c's
\* buffer, for any number of threads, captures and failures.
THEOREM Inductive == Spec => []IndInv
  <1>1. IndInv /\ [Next]_vars => IndInv'
    BY TypeStep, OrderStep, AheadStep, QuietStep DEF IndInv
  <1> QED
    BY InitInd, <1>1, PTL DEF Spec

\* The buffer never holds more than MaxEntries entries and the count of
\* consecutive failures stays below its limit, also when flushes overlap.
THEOREM TypeCorrect == Spec => []TypeOK
  <1>1. IndInv => TypeOK
    BY DEF IndInv
  <1> QED
    BY Inductive, <1>1, PTL

\* Until two flushes overlap, what forgeops_metrics_flush removes is the batch
\* it sent, and no freed memory is touched.
THEOREM FrontIsStable == Spec => []BatchStaysInFront
  <1>1. IndInv => BatchStaysInFront
    BY DEF IndInv, Quiet, Front, BatchStaysInFront
  <1> QED
    BY Inductive, <1>1, PTL

\* Until two flushes overlap, an accepted capture is in the buffer exactly
\* until its own batch is settled: nothing is lost, nothing is sent twice.
THEOREM NothingLost == Spec => []BufferedUntilSettled
  <1>1. IndInv => BufferedUntilSettled
    BY DEF IndInv, Quiet, Buffered, BufferedUntilSettled
  <1> QED
    BY Inductive, <1>1, PTL

\* Until two flushes overlap, no entry is posted more than MaxFailures times.
THEOREM RetriesAreBounded == Spec => []RetriesBounded
  <1>1. IndInv => RetriesBounded
    BY DEF IndInv, Quiet, Attempts, RetriesBounded
  <1> QED
    BY Inductive, <1>1, PTL

-----------------------------------------------------------------------------
(***************************************************************************)
(* What a batch that is given up has earned, and what an exit offers.      *)
(***************************************************************************)

\* The steps that touch neither the buffer nor a batch, or only add a capture
\* behind the oldest one, leave the oldest entry's count alone.
LEMMA OldestKeeps ==
  ASSUME IndInv, Quiet, OldestCounts, UNCHANGED <<failures, batch, sent>>,
         \/ UNCHANGED entries
         \/ \E t \in Threads : Record(t)
  PROVE  OldestCounts'
  <1>t. TypeOK /\ NothingAhead
    BY DEF IndInv
  <1>1. CASE UNCHANGED entries
    BY <1>1 DEF OldestCounts
  <1>2. ASSUME NEW t \in Threads, Record(t) PROVE OldestCounts'
    <2>1. /\ entries' = Append(entries, recorded + 1) /\ entries \in Seq(Ids)
          /\ recorded + 1 \in Ids /\ recorded + 1 > recorded
      BY <1>2, <1>t, LimitsAssumption DEF Record, TypeOK, Ids
    <2>2. Len(entries') = Len(entries) + 1 /\ Len(entries) \in Nat /\ entries' # << >>
      BY <2>1, AppendFacts
    <2>3. CASE entries = << >>
      <3>1. entries'[1] = recorded + 1 /\ failures = 0
        BY <2>1, <2>3, AppendFacts DEF OldestCounts
      <3>2. sent[recorded + 1] = 0
        BY <2>1, <1>t, Zenon DEF NothingAhead
      <3>3. ASSUME NEW u \in Flushers PROVE batch[u] = << >>
        <4>1. batch[u] \in Seq(Ids)
          BY <1>t DEF TypeOK
        <4>2. Len(batch[u]) <= 0
          BY <2>3 DEF Quiet, Front
        <4> QED
          BY <4>1, <4>2
      <3> QED
        BY <3>1, <3>2, <3>3, <2>2 DEF OldestCounts
    <2>4. CASE entries # << >>
      <3>1. 1 \in 1..Len(entries)
        BY <2>1, <2>2, <2>4
      <3>2. entries'[1] = entries[1]
        BY <3>1, <2>1, AppendFacts
      <3> QED
        BY <3>2, <2>2, <2>4 DEF OldestCounts
    <2> QED
      BY <2>3, <2>4
  <1> QED
    BY <1>1, <1>2

\* A flush sends the oldest entry with all the others.
LEMMA OldestSnapshot ==
  ASSUME IndInv, OldestCounts, NEW t \in Flushers, FlushSnapshot(t), ~overlapped',
         UNCHANGED <<entries, failures>>
  PROVE  OldestCounts'
  <1>t. TypeOK
    BY DEF IndInv
  <1>1. \A u \in Flushers : batch[u] = << >>
    BY DEF FlushSnapshot, InFlight
  <1>2. entries # << >> /\ batch'[t] = entries
    BY <1>t DEF FlushSnapshot, TypeOK
  <1>3. entries \in Seq(Ids) /\ Len(entries) \in Nat /\ 1 \in 1..Len(entries)
    BY <1>t, <1>2 DEF TypeOK
  <1>4. entries[1] \in Range(entries) /\ entries[1] \in Ids
    BY <1>3, RangeFacts
  <1>5. sent[entries[1]] = failures /\ sent'[entries[1]] = sent[entries[1]] + 1
    BY <1>1, <1>2, <1>4 DEF OldestCounts, FlushSnapshot
  <1> QED
    BY <1>2, <1>5 DEF OldestCounts

\* A failure more for the batch in flight, and none of its own for the rest.
LEMMA OldestFinish ==
  ASSUME IndInv, Quiet, OldestCounts, NEW t \in Flushers, FlushFinish(t)
  PROVE  OldestCounts'
  <1>t. TypeOK /\ CaptureOrder
    BY DEF IndInv
  <1>1. ASSUME NEW status \in Statuses, FlushKept(t, status) PROVE OldestCounts'
    <2>1. /\ UNCHANGED <<entries, sent>> /\ failures' = failures + 1
          /\ batch[t] # << >> /\ batch' = [batch EXCEPT ![t] = << >>]
      BY <1>1 DEF FlushKept, historyVars
    <2>2. \A u \in Flushers : batch'[u] = << >>
      BY <2>1, <1>t, LastOneOut DEF Quiet
    <2>3. entries # << >>
      <3>1. batch[t] \in Seq(Ids) /\ Len(batch[t]) # 0 /\ Len(batch[t]) \in Nat
        BY <2>1, <1>t DEF TypeOK
      <3>2. Len(batch[t]) <= Len(entries)
        BY DEF Quiet, Front
      <3> QED
        BY <3>1, <3>2
    <2>4. sent[entries[1]] = failures + 1
      BY <2>1, <2>3 DEF OldestCounts
    <2> QED
      BY <2>1, <2>2, <2>3, <2>4 DEF OldestCounts
  <1>2. ASSUME NEW status \in Statuses, FlushRemoved(t, status) PROVE OldestCounts'
    <2>1. /\ sent' = sent /\ failures' = 0
          /\ batch[t] # << >> /\ batch' = [batch EXCEPT ![t] = << >>]
      BY <1>2 DEF FlushRemoved
    <2>2. \A u \in Flushers : batch'[u] = << >>
      BY <2>1, <1>t, LastOneOut DEF Quiet
    <2>3. Quiet'
      BY <1>2, RemovedQuiet
    <2>4. ASSUME entries' # << >> PROVE sent[entries'[1]] = 0
      <3>1. entries' \in Seq(Ids) /\ sent \in [Ids -> Nat]
        <4>1. [Next]_vars
          BY <1>2 DEF Next, FlushFinish
        <4> QED
          BY <4>1, <1>t, TypeStep DEF TypeOK
      <3>2. Len(entries') \in Nat /\ 1 \in 1..Len(entries')
        BY <3>1, <2>4
      <3>3. entries'[1] \in Range(entries') /\ entries'[1] \in Ids
        BY <3>1, <3>2, RangeFacts
      <3>4. sent'[entries'[1]] <= failures'
        BY <3>3, <2>2, <2>3 DEF Quiet, Attempts
      <3>5. sent[entries'[1]] \in Nat
        BY <3>1, <3>3
      <3> QED
        BY <3>4, <3>5, <2>1
    <2> QED
      BY <2>1, <2>2, <2>4 DEF OldestCounts
  <1> QED
    BY <1>1, <1>2 DEF FlushFinish

\* Until flushes overlap, the count of failures is the oldest entry's own.
THEOREM FailuresAreTheOldests == Spec => [](~overlapped => OldestCounts)
  <1> DEFINE I == ~overlapped => OldestCounts
  <1>1. Init => I
    BY DEF Init, OldestCounts
  <1>2. IndInv /\ I /\ [Next]_vars => I'
    <2> SUFFICES ASSUME IndInv, I, [Next]_vars, ~overlapped' PROVE OldestCounts'
      OBVIOUS
    <2>q. Quiet /\ OldestCounts
      BY OverlapStays DEF IndInv
    <2>1. ASSUME NEW t \in Threads, Record(t) PROVE OldestCounts'
      BY <2>1, <2>q, OldestKeeps DEF Record
    <2>2. ASSUME UNCHANGED <<entries, failures, batch, sent>> PROVE OldestCounts'
      BY <2>2, <2>q, OldestKeeps
    <2>3. ASSUME NEW t \in Flushers, FlushFinish(t) PROVE OldestCounts'
      BY <2>3, <2>q, OldestFinish
    <2>4. ASSUME NEW t \in Threads, CallerFlush(t) PROVE OldestCounts'
      BY <2>4, <2>q, OldestSnapshot DEF CallerFlush, bufferVars, Flushers
    <2>5. CASE WorkerFlush
      BY <2>5, <2>q, OldestSnapshot DEF WorkerFlush, bufferVars, Flushers
    <2>6. CASE ExitFlush
      <3>1. exiter \in Flushers /\ UNCHANGED <<entries, failures>>
        BY <2>6 DEF ExitFlush, IndInv, Flushers, bufferVars
      <3> QED
        BY <2>6, <3>1, <2>q, <2>2, OldestSnapshot DEF ExitFlush
    <2>7. ASSUME NEW t \in Threads, RecordFull(t) \/ Exit(t) PROVE OldestCounts'
      BY <2>7, <2>2 DEF RecordFull, Exit, bufferVars, processVars
    <2>8. CASE ProcessEnd \/ Terminated \/ UNCHANGED vars
      BY <2>8, <2>2 DEF ProcessEnd, Terminated, vars, bufferVars, processVars, historyVars
    <2> QED
      BY <2>1, <2>3, <2>4, <2>5, <2>6, <2>7, <2>8 DEF Next
  <1> QED
    BY <1>1, <1>2, Inductive, PTL DEF Spec

\* Until two flushes overlap, metrics.c gives a batch up only when its oldest
\* entry was posted MaxFailures times: failures of earlier batches never
\* count against it.
THEOREM GivingUpIsEarned == Spec => GivesUpOnlyWhenEarned
  <1> DEFINE gone == {e \in Ids : fate[e] # "abandoned" /\ fate'[e] = "abandoned"}
  <1>1. IndInv /\ (~overlapped => OldestCounts) /\ [Next]_vars
          => [~overlapped /\ gone # {} => \E e \in gone : sent[e] = MaxFailures]_vars
    <2> SUFFICES ASSUME IndInv, OldestCounts, Next, ~overlapped, gone # {}
                 PROVE  \E e \in gone : sent[e] = MaxFailures
      OBVIOUS
    <2>t. TypeOK /\ Quiet
      BY DEF IndInv
    <2>1. PICK t \in Flushers, status \in Statuses : FlushRemoved(t, status)
      <3>1. ASSUME NEW r \in Ids, NEW x, x # "abandoned",
                   fate' = [fate EXCEPT ![r] = x]
            PROVE  FALSE
        BY <3>1, <2>t DEF TypeOK
      <3>2. ASSUME NEW t \in Threads, Record(t) \/ RecordFull(t) PROVE FALSE
        <4>1. recorded + 1 \in Ids
          BY <3>2, <2>t, LimitsAssumption DEF Record, RecordFull, TypeOK, Ids
        <4> QED
          BY <3>1, <3>2, <4>1 DEF Record, RecordFull
      <3>3. fate' # fate
        OBVIOUS
      <3> QED
        BY <3>2, <3>3 DEF Next, CallerFlush, WorkerFlush, Exit, ExitFlush, ProcessEnd, Terminated,
                          FlushFinish, FlushKept, historyVars, vars
    <2>2. /\ batch[t] # << >> /\ ~KeepForRetry(status)
          /\ \A e \in Ids : fate'[e] = IF e \in Range(batch[t]) THEN FinishedFate(status) ELSE fate[e]
      BY <2>1 DEF FlushRemoved
    <2>3. FinishedFate(status) = "abandoned"
      BY <2>2
    <2>4. OutcomeForStatus(status) = Failed
      BY <2>3 DEF FinishedFate, OutcomeForStatus, Delivered, Rejected, Failed
    <2>5. failures + 1 = MaxFailures
      BY <2>2, <2>4, <2>t, LimitsAssumption DEF KeepForRetry, TypeOK
    <2>6. /\ batch[t] \in Seq(Ids) /\ 1 \in 1..Len(batch[t])
          /\ entries \in Seq(Ids) /\ 1 \in 1..Len(entries) /\ batch[t][1] = entries[1]
      <3>1. batch[t] \in Seq(Ids) /\ Len(batch[t]) \in Nat /\ entries \in Seq(Ids) /\ Len(entries) \in Nat
        BY <2>t DEF TypeOK
      <3>2. 1 \in 1..Len(batch[t]) /\ Len(batch[t]) <= Len(entries)
        BY <3>1, <2>2, <2>t DEF Quiet, Front
      <3>3. \A i \in 1..Len(batch[t]) : batch[t][i] = entries[i]
        BY <2>t DEF Quiet, Front
      <3> QED
        BY <3>1, <3>2, <3>3
    <2>7. entries[1] \in Range(batch[t]) /\ entries[1] \in Range(entries) /\ entries[1] \in Ids
      BY <2>6, RangeFacts
    <2>8. fate[entries[1]] = "buffered" /\ fate'[entries[1]] = "abandoned"
      BY <2>2, <2>3, <2>7, <2>t DEF Quiet, Buffered
    <2>9. sent[entries[1]] = failures + 1
      BY <2>2, <2>6 DEF OldestCounts
    <2> QED
      BY <2>5, <2>7, <2>8, <2>9
  <1> QED
    BY <1>1, Inductive, FailuresAreTheOldests, PTL DEF Spec, GivesUpOnlyWhenEarned

\* Captures: one more, kept or dropped, after all that exit() has seen.
LEMMA OfferedRecord ==
  ASSUME IndInv, Offered, NEW t \in Threads, Record(t) \/ RecordFull(t)
  PROVE  Offered'
  <1>t. TypeOK
    BY DEF IndInv
  <1> DEFINE r == recorded + 1
  <1>1. /\ r \in Ids /\ r > recorded /\ recorded \in Nat /\ recorded' = r
        /\ UNCHANGED <<phase, batch, sent, exitMark>>
        /\ fate'[r] \in {"buffered", "dropped"}
        /\ \A e \in Ids : e # r => fate'[e] = fate[e]
    BY <1>t, LimitsAssumption DEF Record, RecordFull, TypeOK, Ids, processVars
  <1>2. exitMark \in Nat /\ exitMark <= recorded /\ exitMark < r
    BY <1>1, <1>t, LimitsAssumption DEF Offered, TypeOK
  <1>3. /\ hook' \in {hook, "registered"} /\ hook' # "none"
        /\ hook' = "started" <=> hook = "started"
        /\ phase # "ended"
    <2>1. CASE Record(t)
      BY <2>1, <1>t DEF Record, EnsureWorkerStarted, TypeOK, Free, Alive
    <2>2. CASE RecordFull(t)
      <3>1. entries # << >> /\ hook' = hook
        BY <2>2, LimitsAssumption DEF RecordFull, HasRoom, processVars
      <3> QED
        BY <3>1, <2>2 DEF Offered, RecordFull, Free, Alive
    <2> QED
      BY <2>1, <2>2
  <1> HIDE DEF r
  <1>4. \A e \in 1..exitMark : e \in Ids /\ e # r
    BY <1>1, <1>2, <1>t, LimitsAssumption DEF TypeOK, Ids
  <1>5. \A e \in Ids : fate'[e] \in {"dropped", "buffered"} \/ e > r \/ sent[e] >= 1
    <2> SUFFICES ASSUME NEW e \in Ids, e # r
                 PROVE  fate'[e] \in {"dropped", "buffered"} \/ e > r \/ sent[e] >= 1
      BY <1>1
    <2>1. fate[e] \in {"dropped", "buffered"} \/ e > recorded \/ sent[e] >= 1
      BY DEF Offered
    <2>2. e \in Nat /\ (e > recorded => e > r)
      BY <1>1, LimitsAssumption DEF Ids, r
    <2> QED
      BY <1>1, <2>1, <2>2
  <1>6. exitMark <= r
    BY <1>1, <1>2 DEF r
  <1> QED
    BY <1>1, <1>3, <1>4, <1>5, <1>6 DEF Offered

\* A flush sends all there is; the one of the exit hook sends whatever exit()
\* has seen and is still there.
LEMMA OfferedSnapshot ==
  ASSUME IndInv, Quiet, Offered, NEW t \in Flushers, FlushSnapshot(t), phase # "ended",
         UNCHANGED <<entries, phase, recorded, fate, exitMark>>,
         hook' = hook \/ (hook' = "started" /\ phase = "exiting")
  PROVE  Offered'
  <1>t. TypeOK
    BY DEF IndInv
  <1>1. /\ entries # << >>
        /\ \A u \in Flushers : batch'[u] = batch[u] \/ batch'[u] = entries
        /\ \A e \in Ids : sent'[e] = IF e \in Range(entries) THEN sent[e] + 1 ELSE sent[e]
        /\ \A e \in Ids : sent[e] \in Nat
    BY <1>t DEF FlushSnapshot, TypeOK
  <1>2. /\ Range(entries) \subseteq Ids
        /\ \A u \in Flushers : Range(batch[u]) \subseteq Ids
    BY <1>t, RangeFacts DEF TypeOK
  <1>3. \A e \in Ids : sent[e] >= 1 => sent'[e] >= 1
    BY <1>1
  <1>4. \A e \in Ids : fate[e] = "buffered" => sent'[e] >= 1
    <2>1. \A e \in Ids : fate[e] = "buffered" => e \in Range(entries)
      BY DEF Quiet, Buffered
    <2> QED
      BY <1>1, <2>1
  <1>5. \A e \in Range(entries) : sent'[e] >= 1
    BY <1>1, <1>2
  <1>6. \A u \in Flushers : \A e \in Range(batch'[u]) : sent'[e] >= 1
    BY <1>1, <1>2, <1>3, <1>5 DEF Offered
  <1>7. \A e \in 1..exitMark : e \in Ids
    BY <1>t, LimitsAssumption DEF TypeOK, Ids
  <1> QED
    BY <1>1, <1>3, <1>4, <1>6, <1>7 DEF Offered

\* What is settled was in flight, hence sent.
LEMMA OfferedFinish ==
  ASSUME IndInv, Quiet, Offered, NEW t \in Flushers, FlushFinish(t)
  PROVE  Offered'
  <1>t. TypeOK
    BY DEF IndInv
  <1>1. /\ UNCHANGED <<hook, recorded, sent, exitMark>>
        /\ \A u \in Flushers : batch'[u] = batch[u] \/ batch'[u] = << >>
    BY <1>t DEF FlushFinish, FlushKept, FlushRemoved, historyVars, TypeOK
  <1>2. \A e \in Ids : fate'[e] = fate[e] \/ (fate'[e] # "buffered" /\ sent[e] >= 1)
    <2>1. ASSUME NEW status \in Statuses, FlushRemoved(t, status), NEW e \in Ids
          PROVE  fate'[e] = fate[e] \/ (fate'[e] # "buffered" /\ sent[e] >= 1)
      <3>1. FinishedFate(status) # "buffered"
        BY DEF FinishedFate, OutcomeForStatus, Delivered, Rejected, Failed
      <3>2. fate'[e] = IF e \in Range(batch[t]) THEN FinishedFate(status) ELSE fate[e]
        BY <2>1 DEF FlushRemoved
      <3> QED
        BY <3>1, <3>2 DEF Offered
    <2> QED
      BY <2>1 DEF FlushFinish, FlushKept, historyVars
  <1>3. phase' = phase /\ (entries = << >> => entries' = << >>)
    <2>1. ASSUME NEW status \in Statuses, FlushRemoved(t, status)
          PROVE  phase' = phase /\ entries # << >>
      <3>1. Len(batch[t]) <= Len(entries)
        BY DEF Quiet, Front
      <3>2. batch[t] \in Seq(Ids) /\ batch[t] # << >>
        BY <2>1, <1>t DEF TypeOK, FlushRemoved
      <3>3. Len(batch[t]) \in Nat \ {0}
        BY <3>2
      <3>4. entries # << >>
        BY <3>1, <3>3
      <3>5. phase' = phase
        BY <2>1, <3>1, <1>t, RemovedFacts
      <3> QED
        BY <3>4, <3>5
    <2> QED
      BY <2>1 DEF FlushFinish, FlushKept
  <1>4. \A u \in Flushers : \A e \in Range(batch'[u]) : sent[e] >= 1
    BY <1>1, RangeEmpty DEF Offered
  <1>5. \A e \in 1..exitMark : e \in Ids
    BY <1>t, LimitsAssumption DEF TypeOK, Ids
  <1> QED
    BY <1>1, <1>2, <1>3, <1>4, <1>5 DEF Offered

\* Until flushes overlap, what leaves the buffer was sent, and the exit hook
\* misses nothing.
THEOREM NothingLeavesUnsent == Spec => [](~overlapped => Offered)
  <1> DEFINE I == ~overlapped => Offered
  <1>1. Init => I
    BY RangeEmpty, LimitsAssumption DEF Init, Offered, Ids
  <1>2. IndInv /\ I /\ [Next]_vars => I'
    <2> SUFFICES ASSUME IndInv, I, [Next]_vars, ~overlapped' PROVE Offered'
      OBVIOUS
    <2>q. TypeOK /\ Quiet /\ Offered
      BY OverlapStays DEF IndInv
    <2>1. ASSUME NEW t \in Threads, Record(t) \/ RecordFull(t) PROVE Offered'
      BY <2>1, <2>q, OfferedRecord
    <2>2. ASSUME NEW t \in Flushers, FlushFinish(t) PROVE Offered'
      BY <2>2, <2>q, OfferedFinish
    <2>3. ASSUME NEW t \in Threads, CallerFlush(t) PROVE Offered'
      BY <2>3, <2>q, OfferedSnapshot DEF CallerFlush, bufferVars, Flushers, Free, Alive
    <2>4. CASE WorkerFlush
      BY <2>4, <2>q, OfferedSnapshot DEF WorkerFlush, bufferVars, Flushers, Alive
    <2>5. CASE ExitFlush
      <3>1. /\ exiter \in Flushers /\ phase = "exiting" /\ hook' = "started"
            /\ UNCHANGED <<entries, phase, recorded, fate, exitMark>>
        BY <2>5 DEF ExitFlush, IndInv, Flushers, bufferVars
      <3>2. CASE FlushSnapshot(exiter)
        BY <3>1, <3>2, <2>q, OfferedSnapshot
      <3>3. CASE entries = << >> /\ UNCHANGED <<batch, sent, overlapped>>
        <4>1. \A e \in Ids : fate[e] # "buffered"
          BY <3>3, <2>q, RangeEmpty DEF Quiet, Buffered
        <4>2. \A e \in 1..exitMark : e \in Ids
          BY <2>q, LimitsAssumption DEF TypeOK, Ids
        <4> QED
          BY <3>1, <3>3, <4>1, <4>2, <2>q DEF Offered
      <3> QED
        BY <2>5, <3>2, <3>3 DEF ExitFlush
    <2>6. ASSUME NEW t \in Threads, Exit(t) PROVE Offered'
      <3>1. /\ UNCHANGED <<entries, batch, hook, recorded, fate, sent>>
            /\ phase = "running" /\ phase' = "exiting" /\ exitMark' = recorded
        BY <2>6 DEF Exit, bufferVars
      <3>2. recorded <= recorded
        BY <2>q, LimitsAssumption DEF TypeOK
      <3> QED
        BY <3>1, <3>2, <2>q DEF Offered
    <2>7. CASE ProcessEnd
      BY <2>7, <2>q DEF ProcessEnd, Offered, bufferVars, historyVars
    <2>8. CASE Terminated \/ UNCHANGED vars
      BY <2>8, <2>q DEF Terminated, vars, bufferVars, processVars, historyVars, Offered
    <2> QED
      BY <2>1, <2>2, <2>3, <2>4, <2>5, <2>6, <2>7, <2>8 DEF Next
  <1> QED
    BY <1>1, <1>2, Inductive, PTL DEF Spec

\* Until two flushes overlap, a normal exit offers every capture accepted
\* before exit() to the server, also when the worker could never be started.
THEOREM ExitOffersAll == Spec => []ExitOffersEveryCapture
  <1>1. IndInv /\ (~overlapped => Offered) => ExitOffersEveryCapture
    <2> SUFFICES ASSUME IndInv, Offered, Quiet, phase = "ended",
                        NEW e \in 1..exitMark, fate[e] # "dropped"
                 PROVE  sent[e] >= 1
      BY DEF ExitOffersEveryCapture, IndInv
    <2>1. TypeOK /\ e \in Ids /\ ~(e > recorded)
      BY LimitsAssumption DEF IndInv, TypeOK, Ids, Offered
    <2>2. CASE fate[e] # "buffered"
      BY <2>1, <2>2 DEF Offered
    <2>3. CASE fate[e] = "buffered"
      <3>1. entries # << >>
        BY <2>1, <2>3, RangeEmpty DEF Quiet, Buffered
      <3>2. hook = "started"
        BY <3>1, <2>1 DEF Offered, TypeOK
      <3> QED
        BY <3>2, <2>3 DEF Offered
    <2> QED
      BY <2>2, <2>3
  <1> QED
    BY <1>1, Inductive, NothingLeavesUnsent, PTL

=============================================================================
