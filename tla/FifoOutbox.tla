----------------------------- MODULE FifoOutbox -----------------------------
(***************************************************************************)
(* What the delivery queues of src/spans.c and src/changes.c promise the   *)
(* code that fills them: a body that was accepted waits, in order, until   *)
(* it is handed to the HTTP client, once.  Nothing is said about how many  *)
(* threads do it, or when: the queue may refuse a body, and the process    *)
(* may end with bodies waiting.                                            *)
(***************************************************************************)
EXTENDS Sequences

CONSTANT Bodies

VARIABLES
  waiting,   \* accepted and not yet handed over, oldest first
  handed     \* what the client was given, in order

boxVars == <<waiting, handed>>

BoxInit == waiting = << >> /\ handed = << >>

\* Every body is a fresh one: it is accepted at most once.
Accept(b) ==
  /\ \A i \in DOMAIN waiting : waiting[i] # b
  /\ \A i \in DOMAIN handed : handed[i] # b
  /\ waiting' = Append(waiting, b)
  /\ UNCHANGED handed

HandOver ==
  /\ waiting # << >>
  /\ handed' = Append(handed, waiting[1])
  /\ waiting' = Tail(waiting)

BoxNext == HandOver \/ \E b \in Bodies : Accept(b)

BoxSpec == BoxInit /\ [][BoxNext]_boxVars

=============================================================================
