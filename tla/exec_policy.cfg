SPECIFICATION Spec
CONSTANTS
  c1 = c1
  c2 = c2
  c3 = c3
  host = host
  other = other
  NoCall = NoCall
  NoTrace = NoTrace
  Calls = {c1, c2}
  Parent <- Independent
  Tools <- MCTools
  Permission <- MCPermission
  Preregistered = {"read", "act", "danger"}
  Requests <- AllRequests
  Policies <- Policy
  Traces = {}
  Adopted = {}
  MaxScopes = 1
  Outcomes = {"value"}
  MaxThreads = 2
  TracerDeliveries = {TRUE}
  Interrupts = FALSE
  SharedArguments = {}
INVARIANTS
  TypeOK
  PolicyBeforeExecution
  ConfirmationSuffices
CHECK_DEADLOCK FALSE
