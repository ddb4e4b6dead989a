SPECIFICATION Spec
CONSTANTS
  c1 = c1
  c2 = c2
  c3 = c3
  host = host
  other = other
  NoCall = NoCall
  NoTrace = NoTrace
  Calls = {c1, c2}
  Parent <- Nested
  Tools <- MCTools
  Permission <- MCPermission
  Preregistered = {"read", "act", "danger", "late"}
  Requests <- OneRead
  Policies <- Strict
  Traces = {}
  Adopted = {}
  MaxScopes = 0
  Outcomes = {"value", "timeout_error"}
  MaxThreads = 2
  TracerDeliveries = {TRUE}
  Interrupts = FALSE
  SharedArguments = {}
PROPERTIES
  TimeoutOnlyOnExpiry
CHECK_DEADLOCK FALSE
