SPECIFICATION Spec
CONSTANTS
  mail = mail
  calendar = calendar
  clock = clock
  office = office
  time = time
  empty = empty
  Capabilities = {mail, calendar, clock}
  Packages = {office, time, empty}
  PackageOf <- MCPackageOf
INVARIANTS
  SummaryOfSummaries
  FailuresStayVisible
