---------------------------- MODULE MCBreadcrumbs ----------------------------
(* Breadcrumbs for TLC. *)
EXTENDS Breadcrumbs

\* Off, below, at and above the size of the ring.
Settings == {-1, 1, 2, 4}

=============================================================================
