SPECIFICATION Spec
CONSTANTS
  w1 = w1
  w2 = w2
  job = job
  output = output
  t1 = t1
  t2 = t2
  NoTrace = NoTrace
  Damaged = Damaged
  NoJob = NoJob
  Workers = {w1, w2}
  BareUsers = {w2}
  Jobs = {job, output}
  Outputs = {output}
  Traces = {t1, t2}
  MaxStack = 2
  MaxRequests = 2
SYMMETRY Symmetry
INVARIANTS
  TypeOK
  WorkKeepsItsTrace
  ThreadsStartClean
  TokensRestore
CHECK_DEADLOCK FALSE
