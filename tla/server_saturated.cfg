SPECIFICATION HmsSpec
CONSTANTS
  w1 = w1
  w2 = w2
  k1 = k1
  k2 = k2
  k3 = k3
  d1 = d1
  LISTEN = LISTEN
  Workers <- MCWorkers
  Calls <- MCThreeConns
  Destroyers <- MCDestroyers
  max_queue_size = 1
  do_not_block_when_full = TRUE
  NULL = NULL
INVARIANT
  PoolTakesConnections
