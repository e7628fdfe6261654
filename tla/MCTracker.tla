------------------------------- MODULE MCTracker -------------------------------
(* Instance of Tracker for TLC: six programs of two threads. *)
EXTENDS Tracker, TLC

On(strict, scrub) == [dsn |-> TRUE, production |-> TRUE, strict |-> strict, scrub |-> scrub]

MCEnvironments == {On(FALSE, TRUE), [On(TRUE, TRUE) EXCEPT !.production = FALSE]}
MCChanges == {On(TRUE, TRUE), On(FALSE, FALSE), [On(FALSE, TRUE) EXCEPT !.production = FALSE]}

Makes(calls, ops) == [ops |-> ops, calls |-> calls]
MCPrograms ==
  { [main |-> Makes(1, Ops), other |-> Makes(1, Ops)],
    [main |-> Makes(4, {"configure", "breadcrumb", "set_user", "capture"}), other |-> Makes(0, {})],
    [main |-> Makes(5, {"configure", "trace_start", "span", "trace_stop"}), other |-> Makes(0, {})],
    [main |-> Makes(3, {"configure", "install", "breadcrumb", "upload"}), other |-> Makes(1, {"breadcrumb", "upload"})],
    [main |-> Makes(2, {"capture", "sample", "flush"}), other |-> Makes(2, {"trace_start", "trace_stop"})],
    [main |-> Makes(3, {"configure", "sample", "flush"}), other |-> Makes(0, {})] }
=============================================================================
