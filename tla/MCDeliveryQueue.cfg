\* Two callers, a queue that fills up, an exit at any moment, wakeups, the
\* drain and the join under the worker's fairness.
SPECIFICATION FairSpec
CONSTANTS
  Threads = {t1, t2}
  NoThread = none
  QueueLimit = 2
  MaxBodies = 5
INVARIANTS
  TypeOK
  EachBodyOnceInOrder
  ExitDrainsQueue
PROPERTIES
  OutboxSpec
  EveryBodyIsHandedOver
  ExitCompletes
