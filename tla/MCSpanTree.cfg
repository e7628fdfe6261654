CONSTANTS
  TraceHandles = {t1, t2}
  SpanHandles = {s1, s2, s3}
  Remotes = {r1}
  NoRemote = NoRemote
  NoTrace = NoTrace
  MaxDepth = 2
  MaxSpans = 4
  MaxIds = 6
SPECIFICATION Spec
INVARIANTS OneOwner NestsUnderOpenSpan QueuedTracesAreTrees StoppedSpansAreQueued
SYMMETRY Symmetry
