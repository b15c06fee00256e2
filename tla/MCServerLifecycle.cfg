\* Two generations, so one reload that succeeds and any number that fail; the
\* port may move.  The proofs cover any number of generations.
SPECIFICATION Spec
CONSTANTS
  MaxGens = 2
  Ports = {p22, p2222}
  InitPort = p22
  Conns = {c1}
\* Start returns and nothing is left to do: the program may stop.
CHECK_DEADLOCK FALSE
INVARIANTS
  ReportNeverBlocks
  MetricsDownAfterReturn
PROPERTIES
  ImplementsService
  CurrentGenerationStarts
  ShutdownCompletes
  HupNotLost
