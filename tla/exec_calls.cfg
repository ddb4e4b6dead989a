SPECIFICATION Spec
CONSTANTS
  c1 = c1
  c2 = c2
  c3 = c3
  host = host
  other = other
  NoCall = NoCall
  NoTrace = NoTrace
  Calls = {c1, c2, c3}
  Parent <- Chain
  Tools <- MCTools
  Permission <- MCPermission
  Preregistered = {"read", "act", "danger", "late"}
  Requests <- MixedRequests
  Policies <- Strict
  Traces = {host}
  Adopted = {other}
  MaxScopes = 1
  Outcomes = {"value", "error"}
  MaxThreads = 3
  TracerDeliveries = {TRUE}
  Interrupts = TRUE
  SharedArguments = {}
INVARIANTS
  OrphansOnlyAfterTimeout
  TraceCorrelation
  OneEventPerResult
  NothingStuck
CHECK_DEADLOCK FALSE
