\* Every chain of one or two completed send descriptors of two streams,
\* lengths 1 or 2, with or without FIN.
CONSTANTS
  Streams = {1, 2}
  Lengths = {1, 2}
  MaxChain = 2
SPECIFICATION Spec
CHECK_DEADLOCK FALSE
INVARIANT SendCompletionCreditsOwnStream
