--------------------------- MODULE MCMetricsBuffer ---------------------------
(* MetricsBuffer for TLC. *)
EXTENDS MetricsBuffer, TLC

\* Application threads do the same things and are never compared by order.
Symmetry == Permutations(Threads)

\* The safety properties promise nothing after an overlap, which is never
\* forgotten: the state that overlaps is checked, what follows it is not.
UpToOverlap == ~overlapped

=============================================================================
