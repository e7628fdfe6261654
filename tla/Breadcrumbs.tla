---------------------------- MODULE Breadcrumbs ----------------------------
(***************************************************************************)
(* src/breadcrumbs.c: one thread's trail, a ring of encoded entries that   *)
(* the fatal-signal handler reads on the same thread, between any two      *)
(* instructions.                                                           *)
(*                                                                         *)
(* Every store to the ring is a step, in the order of the source; the      *)
(* memcpy into a slot is two, for the slot is neither the old nor the new  *)
(* entry in between.  What an entry says, how it is scrubbed and made to   *)
(* fit its slot is left out (see BreadcrumbEncoding): entries are numbered *)
(* by the call that added them.                                            *)
(***************************************************************************)
EXTENDS Integers, Sequences, Functions

CONSTANTS
  RingLimit,    \* FORGEOPS_BREADCRUMB_RING_LIMIT
  MaxSettings,  \* values config->max_breadcrumbs may be given
  MaxAdds       \* bound: how many entries a behaviour adds

ASSUME BreadcrumbsAssumption ==
  /\ RingLimit \in Nat \ {0}
  /\ MaxSettings \subseteq Int
  /\ MaxAdds \in Nat

VARIABLES
  \* the configuration
  maxBreadcrumbs, \* max_breadcrumbs
  recording,      \* track_breadcrumbs, and not strict_privacy
  \* the ring_t; no ring has capacity 0
  capacity, start, count,
  slots,          \* slots[0 .. capacity-1]
  \* the thread
  step,           \* where in add or clear it is, or "idle"
  adding,         \* the entry being added
  limit,          \* max_entries of that call
  phase,          \* "running", "crashed" or "gone": the thread ended
  report,         \* the trail as the signal handler wrote it
  \* history, read by no action of the code
  trail           \* what the completed calls amount to

ring == <<capacity, start, count, slots>>
vars == <<maxBreadcrumbs, recording, ring, step, adding, limit, phase, report, trail>>

Blank == 0    \* a slot never written: calloc's zeros
Torn  == -1   \* a slot whose memcpy is under way
Entries == 1..MaxAdds
Slots == 0..(RingLimit - 1)

TypeOK ==
  /\ maxBreadcrumbs \in MaxSettings /\ recording \in BOOLEAN
  /\ capacity \in 0..RingLimit
  /\ start \in Slots /\ start <= capacity
  /\ count \in 0..capacity
  /\ slots \in [Slots -> Entries \cup {Blank, Torn}]
  /\ step \in {"idle", "trim", "trimmed", "copying", "copied", "clearing"}
  /\ adding \in 0..MaxAdds
  /\ limit \in 0..capacity
  /\ phase \in {"running", "crashed", "gone"}
  /\ report \in Seq(Entries \cup {Blank, Torn})
  /\ trail \in Seq(Entries)

Init ==
  /\ maxBreadcrumbs \in MaxSettings /\ recording \in BOOLEAN
  /\ capacity = 0 /\ start = 0 /\ count = 0 /\ slots = [i \in Slots |-> Blank]
  /\ step = "idle" /\ adding = 0 /\ limit = 0
  /\ phase = "running" /\ report = << >> /\ trail = << >>

-----------------------------------------------------------------------------
Least(a, b) == IF a < b THEN a ELSE b

\* How many entries the configuration allows.
Allowed == IF maxBreadcrumbs > 0 THEN Least(maxBreadcrumbs, RingLimit) ELSE 0

\* The application edits the configuration; add reads it once, when called.
Configure ==
  /\ phase = "running"
  /\ maxBreadcrumbs' \in MaxSettings
  /\ recording' \in BOOLEAN
  /\ UNCHANGED <<ring, step, adding, limit, phase, report, trail>>

\* forgeops_breadcrumb_add up to the ring: its first call on a thread sizes
\* the ring for good.
AddBegin ==
  /\ phase = "running" /\ step = "idle"
  /\ recording /\ Allowed > 0 /\ adding < MaxAdds
  /\ capacity' = IF capacity = 0 THEN Allowed ELSE capacity
  /\ limit' = Least(Allowed, capacity')
  /\ adding' = adding + 1
  /\ step' = "trim"
  /\ UNCHANGED <<maxBreadcrumbs, recording, start, count, slots, phase, report, trail>>

\* Drops the newest.
MutTrimStart ==
  /\ phase = "running" /\ step = "trim" /\ count >= limit
  /\ step' = "trimmed"
  /\ UNCHANGED <<maxBreadcrumbs, recording, ring, adding, limit, phase, report, trail>>

\* while (count >= max_entries): the oldest goes, in two stores.
TrimStart ==
  /\ phase = "running" /\ step = "trim" /\ count >= limit
  /\ start' = (start + 1) % capacity
  /\ step' = "trimmed"
  /\ UNCHANGED <<maxBreadcrumbs, recording, capacity, count, slots, adding, limit, phase, report, trail>>

TrimCount ==
  /\ phase = "running" /\ step = "trimmed"
  /\ count' = count - 1
  /\ step' = "trim"
  /\ UNCHANGED <<maxBreadcrumbs, recording, capacity, start, slots, adding, limit, phase, report, trail>>

\* The slot just past the newest.
NextSlot == (start + count) % capacity

\* Publishes the slot before it is written.
MutCopyBegin ==
  /\ phase = "running" /\ step = "trim" /\ count < limit
  /\ slots' = [slots EXCEPT ![NextSlot] = Torn]
  /\ count' = count + 1
  /\ step' = "copying"
  /\ UNCHANGED <<maxBreadcrumbs, recording, capacity, start, adding, limit, phase, report, trail>>

CopyBegin ==
  /\ phase = "running" /\ step = "trim" /\ count < limit
  /\ slots' = [slots EXCEPT ![NextSlot] = Torn]
  /\ step' = "copying"
  /\ UNCHANGED <<maxBreadcrumbs, recording, capacity, start, count, adding, limit, phase, report, trail>>

CopyEnd ==
  /\ phase = "running" /\ step = "copying"
  /\ slots' = [slots EXCEPT ![NextSlot] = adding]
  /\ step' = "copied"
  /\ UNCHANGED <<maxBreadcrumbs, recording, capacity, start, count, adding, limit, phase, report, trail>>

\* The last n entries of s.
Last(n, s) == IF Len(s) <= n THEN s ELSE SubSeq(s, Len(s) - n + 1, Len(s))

\* After the signal fence: count++ makes the entry part of the trail.
Publish ==
  /\ phase = "running" /\ step = "copied"
  /\ count' = count + 1
  /\ step' = "idle"
  /\ trail' = Last(limit, Append(trail, adding))
  /\ UNCHANGED <<maxBreadcrumbs, recording, capacity, start, slots, adding, limit, phase, report>>

\* forgeops_breadcrumbs_clear: two stores.
ClearStart ==
  /\ phase = "running" /\ step = "idle" /\ capacity > 0
  /\ start' = 0
  /\ step' = "clearing"
  /\ UNCHANGED <<maxBreadcrumbs, recording, capacity, count, slots, adding, limit, phase, report, trail>>

\* Only start is reset.
MutClearCount ==
  /\ phase = "running" /\ step = "clearing"
  /\ step' = "idle"
  /\ trail' = << >>
  /\ UNCHANGED <<maxBreadcrumbs, recording, ring, adding, limit, phase, report>>

ClearCount ==
  /\ phase = "running" /\ step = "clearing"
  /\ count' = 0
  /\ step' = "idle"
  /\ trail' = << >>
  /\ UNCHANGED <<maxBreadcrumbs, recording, capacity, start, slots, adding, limit, phase, report>>

\* forgeops_breadcrumbs_write_raw_to_fd, forgeops_breadcrumbs_snapshot: the
\* entries from the oldest on.
Dump == [i \in 1..count |-> slots[(start + i - 1) % capacity]]

\* A fatal signal strikes this thread, wherever it is.
FatalSignal ==
  /\ phase = "running"
  /\ phase' = "crashed"
  /\ report' = Dump
  /\ UNCHANGED <<maxBreadcrumbs, recording, ring, step, adding, limit, trail>>

\* The thread ends: ring_key_destructor frees its ring.
ThreadExit ==
  /\ phase = "running" /\ step = "idle"
  /\ phase' = "gone"
  /\ capacity' = 0 /\ start' = 0 /\ count' = 0 /\ slots' = [i \in Slots |-> Blank]
  /\ limit' = 0 /\ trail' = << >>
  /\ UNCHANGED <<maxBreadcrumbs, recording, step, adding, report>>

Terminated == phase # "running" /\ UNCHANGED vars

Next ==
  \/ Configure
  \/ AddBegin \/ TrimStart \/ TrimCount \/ CopyBegin \/ CopyEnd \/ Publish
  \/ ClearStart \/ ClearCount
  \/ FatalSignal \/ ThreadExit
  \/ Terminated

Spec == Init /\ [][Next]_vars

-----------------------------------------------------------------------------
\* Between two calls the ring holds the latest entries, oldest first, as many
\* as the last add allowed: also after max_breadcrumbs was raised above or
\* lowered below the size the ring was made with, and after a clear.
RingIsTrail == step = "idle" /\ phase = "running" => Dump = trail

\* Wherever the signal strikes, no half-written entry is in the report
\* (breadcrumbs.c:183-194): the slot being written is never one that count
\* covers.
NoTornEntry == Torn \notin Range(Dump) /\ Torn \notin Range(report)

\* Wherever the signal strikes during an add, every entry that the add would
\* leave in the trail is in the report.
SurvivorsAreReported ==
  step \in {"trim", "trimmed", "copying", "copied"} =>
    Range(Last(limit - 1, trail)) \subseteq Range(Dump)
=============================================================================
