\* Three configurations: a reload before Start, one that fails and one after.
SPECIFICATION CliSpec
CONSTANTS
  Listeners = {l1}
  NoListener = NoListener
  Stoppers = {k1}
  Forwardings = {tcp}
  MaxConfigs = 3
\* The program has ended.
CHECK_DEADLOCK FALSE
INVARIANTS
  CfgMatchesServer
PROPERTIES
  HupReloads
  StartResultEndsMain
