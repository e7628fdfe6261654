----------------------------- MODULE MCSpanTree -----------------------------
(* SpanTree for TLC. *)
EXTENDS SpanTree, TLC

Symmetry == Permutations(TraceHandles) \cup Permutations(SpanHandles)
=============================================================================
