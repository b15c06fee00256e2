\* Two listeners, so a Configure may bring another one and fail.
\* Two goroutines stop a server that is configured at most three times: enough
\* for a failed Configure between two others and for a Stop behind another.
SPECIFICATION Spec
CONSTANTS
  Listeners = {l1, l2}
  NoListener = NoListener
  Stoppers = {k1, k2}
  Forwardings = {tcp}
  MaxConfigs = 3
\* A stopped server that nobody configures any more is finished.
CHECK_DEADLOCK FALSE
INVARIANTS
  ServedIsConfigured
  StopNilMeansClosed
PROPERTIES
  StopReturns
