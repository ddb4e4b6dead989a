SPECIFICATION Spec
CONSTANTS
  c1 = c1
  c2 = c2
  c3 = c3
  host = host
  other = other
  NoCall = NoCall
  NoTrace = NoTrace
  Calls = {c1, c2, c3}
  Parent <- NestedAndConcurrent
  Tools <- MCTools
  Permission <- MCPermission
  Preregistered = {"read", "act", "danger", "late"}
  Requests <- OneRead
  Policies <- Strict
  Traces = {}
  Adopted = {}
  MaxScopes = 0
  Outcomes = {"value", "error", "timeout_error", "exit"}
  MaxThreads = 2
  TracerDeliveries = {TRUE, FALSE}
  Interrupts = TRUE
  SharedArguments = {}
INVARIANTS
  StructuredResult
  NoWorkLeftBehind
PROPERTIES
  ImplementsContract
CHECK_DEADLOCK FALSE
