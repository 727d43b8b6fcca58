SPECIFICATION Spec
CONSTANTS
  w1 = w1
  w2 = w2
  c1 = c1
  c2 = c2
  c3 = c3
  d1 = d1
  d2 = d2
  Workers <- MCWorkers
  Calls <- MCCalls
  Destroyers <- MCOneDestroyer
  max_queue_size = 1
  do_not_block_when_full = FALSE
  NULL = NULL
INVARIANT
  BlockedCallersLeave
