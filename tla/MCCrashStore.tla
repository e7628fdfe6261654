---------------------------- MODULE MCCrashStore ----------------------------
(* CrashStore for TLC. *)
EXTENDS CrashStore, TLC

Symmetry == Permutations(Threads)

\* Most properties promise nothing once a name was reused or a file was met
\* half-written, which is never forgotten: what follows is not explored.
UpToReuseOrTear == ~reused /\ ~torn

\* Bound: a third report is made only in a first run that exits, where it can
\* meet the pass of the exit hook; a run that follows finds at most two.
ThirdAtExit == Made < 3 \/ (runs = 1 /\ phase \in {"exiting", "exited"})

=============================================================================
