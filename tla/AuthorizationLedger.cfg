\* Two processes share the ledger and race over two authorization ids, with
\* every interleaving of their file-system calls and every failure.
CONSTANTS
  p1 = p1
  p2 = p2
  i1 = i1
  i2 = i2
  NoId = NoId
  Process <- MCProcess
  Id <- MCId
SPECIFICATION FairSpec
INVARIANTS
  SingleGrant
  GrantIsDurable
PROPERTIES
  KeepsPromise
  EveryCallEnds
