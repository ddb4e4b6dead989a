SPECIFICATION Spec
CONSTANTS
  r1 = r1
  r2 = r2
  r3 = r3
  t1 = t1
  t2 = t2
  NoParent = NoParent
  Resolutions = {r1, r2, r3}
  Parent <- NestedAndConcurrent
  Threads = {t1, t2}
  ThreadOf <- TwoThreads
  HostTrace <- MixedHosts
  Resolvers <- TwoThenOne
  HasFallback <- Outer
  Answers <- MixedAnswers
  MaxSpans = 1
  Severities = {"degraded"}
  TracerDeliveries <- NestedUnreliable
INVARIANTS
  TypeOK
  ContextRestored
  OneTracePerRequest
  FallbackIsExplicit
  TraceTellsTheResult
  EscalationsRetained
PROPERTIES
  ImplementsContract
CHECK_DEADLOCK FALSE
