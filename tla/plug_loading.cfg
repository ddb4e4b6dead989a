SPECIFICATION Spec
CONSTANTS
  p1 = p1
  p2 = p2
  p3 = p3
  Plugins = {p1, p2, p3}
  Declarations <- AllDeclarations
  Names = {"a", "b", "c"}
  NoName = NoName
  MaxLoads = 2
  MaxLoaders = 2
  RegistrarsRaise = TRUE
SYMMETRY Interchangeable
INVARIANTS
  TypeOK
  OwnershipLostOnlyByRace
  RefusedOnlyForOthers
  ExpectationsResolve
CHECK_DEADLOCK FALSE
