SPECIFICATION Spec
CONSTANTS
  ParameterSchemas <- MCParameterSchemas
  ArgumentMappings <- MCArgumentMappings
  Strings <- MCStrings
  MaxDepth = 4
INVARIANTS
  AcceptedMeansValid
  ErrorsAreLocated
  DeclaredArgumentsChecked
CHECK_DEADLOCK FALSE
