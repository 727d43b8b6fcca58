SPECIFICATION Spec
CONSTANTS
  a = a
  b = b
  h1 = h1
  h2 = h2
  e1 = e1
  e2 = e2
  e3 = e3
  Keys <- MCKeys
  Data <- MCData
  NoDatum = NoDatum
  size = 2
  hash_value <- MCHash
  HASHTAB_MAX_NODES = 3
  MaxLost = 1
  Heads <- MCHeads
  Entries <- MCEntries
  NULL = NULL
  MD5_BLOCK_SIZE = 8
  WordSize = 1
  MAX_MD5_UINT32 = 31
  Pieces <- MCPieces
  MaxFed = 140
INVARIANTS
  TableConsistent
  RingsIntact
  DigestsInput
PROPERTIES
  ImplementsDict
  IterationComplete
  ImplementsLists
CHECK_DEADLOCK FALSE
