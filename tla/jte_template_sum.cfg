SPECIFICATION Spec
CONSTANTS
  Codes <- MCCodes
  Mappings <- MCMappings
  Lists <- MCLists
  Name <- MCName
  MaxCalls = 3
  MaxEntries = 2
CHECK_DEADLOCK FALSE
INVARIANTS TemplateSummed
