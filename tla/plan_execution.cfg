SPECIFICATION Spec
CONSTANTS
  NoTool = NoTool
  p1 = p1
  p2 = p2
  Plans = {p1, p2}
  Tools <- MCTools
  Permission <- MCPermission
  Preregistered = {"read", "act"}
  Schemas = {"any", "needs"}
  InitialSchema <- MCInitialSchema
  Arguments = {"empty", "text"}
  NoArguments = "empty"
  Accepts <- MCAccepts
  Responses <- MCResponses
  Policies <- MCPolicies
SYMMETRY PlanSymmetry
INVARIANTS
  TypeOK
  PlansStayExecutable
  ProvidersCannotAuthorise
  OfferedToolsAreKnown
CHECK_DEADLOCK FALSE
