------------------------ MODULE MCPerformanceFlusher ------------------------
(* PerformanceFlusher for TLC. *)
EXTENDS PerformanceFlusher

=============================================================================
