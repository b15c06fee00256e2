\* Three keys can be made: for two processes that generate one for the same path while
\* another path has its own.  One more may be on disk at first, too small to be used.
SPECIFICATION Spec
CONSTANTS
  NewKeys = {k1, k2, k3}
  SmallRsa = k4
  MemoryKey = k5
  Keys <- MCKeys
  Algo <- MCAlgo
  Small = {k4}
  OnDisk = {k4}
  NoKey = none
  Paths = {"ed25519_key", "dsa_key"}
  Empty = ""
  Words <- MCWords
  DefaultPaths <- MCDefaultPaths
  Servers = {s1, s2}
  Confs <- MCConfs
  NoConf = none
  Absent = absent
  Broken = broken
SYMMETRY Interchangeable
\* Processes stay down, and there may be no key left to make.
CHECK_DEADLOCK FALSE
INVARIANTS
  ServedIsStored
  BrokenOnlyByFault
PROPERTIES
  ImplementsStore
