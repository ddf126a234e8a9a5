SPECIFICATION Spec
CONSTANTS
  Arguments <- MCArguments
  Data <- MCData
  MaxTokens = 1
INVARIANTS
  PermitsConserved
  FirstPromptsFixed
  ReportComplete
PROPERTIES
  PrefixReuse
  Ends
CHECK_DEADLOCK FALSE
